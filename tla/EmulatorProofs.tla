--------------------------- MODULE EmulatorProofs ---------------------------
(***************************************************************************)
(* Theorems about the emulator as a process, for any command lines, any    *)
(* programs and any bounds: the loop of StepLoop inside it, the settings a *)
(* program runs with, the tandem run, the signature and the replies of the *)
(* RVFI-DII server.                                                        *)
(*                                                                         *)
(* First the timer and the instruction counter of StepLoop, for every      *)
(* width of the registers, every tick length and every limit: TypeOK is    *)
(* inductive by itself, the timer properties are inductive together with   *)
(* it, because each says what clint_dispatch computed at the last event    *)
(* and what has moved since.                                               *)
(***************************************************************************)
EXTENDS Emulator, TLAPS
-----------------------------------------------------------------------------
(* The arithmetic of registers and their halves. *)

(* A half of a register, and a register with a half replaced. *)
LEMMA RangeFacts == HalfRange \in Nat /\ HalfRange > 1 /\ Range \in Nat /\ Range > 1
  BY LoopAssumption DEF Range

(* A register splits into two halves. *)
LEMMA HighHalf ==
  ASSUME NEW v \in Values
  PROVE  v \div HalfRange \in Halves /\ v % HalfRange \in Halves
<1> DEFINE q == v \div HalfRange
           m == v % HalfRange
<1>1. q \in Int /\ m \in 0 .. HalfRange - 1 /\ v = HalfRange * q + m
  BY RangeFacts DEF Values
<1>2. q >= 0
  BY <1>1, RangeFacts DEF Values
<1>3. q < HalfRange
  BY <1>1, RangeFacts DEF Values, Range
<1> QED BY <1>1, <1>2, <1>3, RangeFacts DEF Halves

(* Two halves make a register. *)
LEMMA HalvesMakeValue ==
  ASSUME NEW a \in Halves, NEW b \in Halves
  PROVE  a * HalfRange + b \in Values
<1>1. a \in Int /\ b \in Int /\ 0 <= a /\ a <= HalfRange - 1 /\ 0 <= b /\ b <= HalfRange - 1
  BY RangeFacts DEF Halves
<1>2. 0 <= a * HalfRange /\ a * HalfRange <= (HalfRange - 1) * HalfRange
  BY <1>1, RangeFacts
<1> QED BY <1>1, <1>2, RangeFacts DEF Values, Range

(* Every way of writing a register leaves a value of its width. *)
LEMMA RegisterWrites ==
  ASSUME NEW v \in Values
  PROVE  /\ Plus1(v) \in Values
         /\ \A d \in Halves : SetLo(v, d) \in Values /\ SetHi(v, d) \in Values
         /\ \A p \in Parts : \A d \in PartOf(p) : CounterWrite(v, p, d) \in Values
<1>1. Plus1(v) \in Values
  BY RangeFacts DEF Plus1, Values
<1>2. \A d \in Halves : SetLo(v, d) \in Values /\ SetHi(v, d) \in Values
  BY HighHalf, HalvesMakeValue DEF SetLo, SetHi
<1>3. \A p \in Parts : \A d \in PartOf(p) : CounterWrite(v, p, d) \in Values
  BY <1>2 DEF CounterWrite, PartOf, Parts
<1> QED BY <1>1, <1>2, <1>3
-----------------------------------------------------------------------------
(* What each register update leaves: legal registers, a timer interrupt    *)
(* that is neither early nor overdue, and minstret alone.                  *)

TimerOK(h) ==
  /\ h.MTI = 1 => h.mtimecmp <= h.mtime
  /\ (h.MTI = 0 /\ h.mtimecmp <= h.mtime) => h.mtime = h.mtimecmp

(* clint_dispatch brings the timer interrupt up to date. *)
LEMMA DispatchOK ==
  ASSUME NEW h \in Hart
  PROVE  /\ clint_dispatch(h) \in Hart
         /\ TimerOK(clint_dispatch(h))
         /\ clint_dispatch(h).minstret = h.minstret
  BY RangeFacts DEF clint_dispatch, Hart, TimerOK, Values, Bit

(* A tick of the clock ends in clint_dispatch. *)
LEMMA TickOK ==
  ASSUME NEW h \in Hart
  PROVE  /\ tick_clock(h) \in Hart
         /\ TimerOK(tick_clock(h))
         /\ tick_clock(h).minstret = h.minstret
<1> DEFINE g == [h EXCEPT !.mcycle = IF h.CY = 0 THEN Plus1(@) ELSE @, !.mtime = Plus1(@)]
<1>1. Plus1(h.mcycle) \in Values /\ Plus1(h.mtime) \in Values
  BY RegisterWrites DEF Hart
<1>2. g \in Hart /\ g.minstret = h.minstret
  BY <1>1 DEF Hart
<1>3. tick_clock(h) = clint_dispatch(g)
  BY DEF tick_clock
<1> HIDE DEF g
<1> QED BY <1>2, <1>3, DispatchOK

(* WFI moves the time to mtimecmp and not beyond, so that the timer is not *)
(* overdue although MTI is left as it was.                                 *)
LEMMA WfiOK ==
  ASSUME NEW h \in Hart, TimerOK(h)
  PROVE  /\ platform_wfi(h) \in Hart
         /\ TimerOK(platform_wfi(h))
         /\ platform_wfi(h).minstret = h.minstret
<1>1. CASE h.mtime < h.mtimecmp
  <2> DEFINE g == [h EXCEPT !.mtime = h.mtimecmp, !.mcycle = h.mtimecmp]
  <2>1. platform_wfi(h) = g
    BY <1>1 DEF platform_wfi
  <2>2. g \in Hart /\ g.minstret = h.minstret
    BY DEF Hart
  <2>3. g.mtime = h.mtimecmp /\ g.mtimecmp = h.mtimecmp /\ h.mtimecmp \in Int
    BY RangeFacts DEF Hart, Values
  <2>4. TimerOK(g)
    BY <2>3 DEF TimerOK
  <2> QED BY <2>1, <2>2, <2>4
<1>2. CASE ~(h.mtime < h.mtimecmp)
  BY <1>2 DEF platform_wfi
<1> QED BY <1>1, <1>2

(* Every store to the CLINT, of whichever half, ends in clint_dispatch. *)
LEMMA ClintStoreOK ==
  ASSUME NEW h \in Hart, NEW g \in ClintStores(h)
  PROVE  g \in Hart /\ TimerOK(g) /\ g.minstret = h.minstret
<1>1. PICK f \in Hart : g = clint_dispatch(f) /\ f.minstret = h.minstret
  <2>1. h.mtime \in Values /\ h.mtimecmp \in Values
    BY DEF Hart
  <2>2. \A d \in Halves : /\ SetLo(h.mtime, d) \in Values /\ SetHi(h.mtime, d) \in Values
                          /\ SetLo(h.mtimecmp, d) \in Values /\ SetHi(h.mtimecmp, d) \in Values
    BY <2>1, RegisterWrites
  <2>3. CASE \E d \in Bit : g = StoreMsip(h, d)
    <3>1. PICK d \in Bit : g = clint_dispatch([h EXCEPT !.MSI = d % 2])
      BY <2>3 DEF StoreMsip
    <3>2. d % 2 \in Bit
      BY DEF Bit
    <3> QED BY <3>1, <3>2 DEF Hart
  <2>4. CASE \E d \in Values : g = StoreMtimecmp(h, d) \/ g = StoreMtime(h, d)
    BY <2>4 DEF StoreMtimecmp, StoreMtime, Hart
  <2>5. CASE \E d \in Halves : g = StoreMtimecmpLo(h, d) \/ g = StoreMtimecmpHi(h, d)
    BY <2>5, <2>2 DEF StoreMtimecmpLo, StoreMtimecmpHi, Hart
  <2>6. CASE \E d \in Halves : g = StoreMtimeLo(h, d) \/ g = StoreMtimeHi(h, d)
    BY <2>6, <2>2 DEF StoreMtimeLo, StoreMtimeHi, Hart
  <2> QED BY <2>3, <2>4, <2>5, <2>6 DEF ClintStores
<1> QED BY <1>1, DispatchOK

(* Retiring changes nothing but minstret. *)
LEMMA RetireOK ==
  ASSUME NEW h \in Hart, TimerOK(h)
  PROVE  /\ retire_instruction(h) \in Hart
         /\ TimerOK(retire_instruction(h))
         /\ retire_instruction(h).minstret =
              IF minstret_increment THEN Plus1(h.minstret) ELSE h.minstret
<1>1. Plus1(h.minstret) \in Values
  BY RegisterWrites DEF Hart
<1> QED BY <1>1 DEF retire_instruction, Hart, TimerOK
-----------------------------------------------------------------------------
(* What the counting of the loop leaves, tick included. *)

(* The counting at the end of an iteration: the clock ticks in time and    *)
(* the total stays within the limit.                                       *)
LEMMA SteppedOK ==
  ASSUME TypeOK, NEW h \in Hart, TimerOK(h), NEW done \in BOOLEAN, Stepped(h, done)
  PROVE  /\ hart' \in Hart /\ TimerOK(hart') /\ hart'.minstret = h.minstret
         /\ insn_cnt' \in 0 .. rv_insns_per_tick - 1
         /\ insn_limit' \in InsnLimits /\ total_insns' \in 0 .. insn_limit'
         /\ htif_done' \in BOOLEAN
<1>1. hart' \in Hart /\ TimerOK(hart') /\ hart'.minstret = h.minstret
  BY TickOK DEF Stepped
<1>2. insn_cnt' \in 0 .. rv_insns_per_tick - 1
  BY LoopAssumption DEF Stepped, TypeOK
<1>3. insn_limit' \in InsnLimits /\ total_insns' \in 0 .. insn_limit'
  BY LoopAssumption DEF Stepped, Looping, TypeOK
<1> QED BY <1>1, <1>2, <1>3 DEF Stepped

(* The inductive invariant.  minstret is claimed on RV64 only: on RV32 the *)
(* instruction that writes one half is not counted in the other.           *)
LoopInv ==
  /\ TypeOK
  /\ TimerOK(hart)
  /\ ~xlen32 => hart.minstret = expected

(* An instruction that retires and leaves minstret alone keeps the         *)
(* invariant.                                                              *)
LEMMA RetiresOK ==
  ASSUME LoopInv, NEW h \in Hart, TimerOK(h), h.minstret = hart.minstret,
         NEW done \in BOOLEAN, Retires(h, done)
  PROVE  LoopInv'
<1> DEFINE g == retire_instruction(h)
<1>1. TypeOK /\ expected \in Values
  BY DEF LoopInv, TypeOK
<1>2. g \in Hart /\ TimerOK(g)
      /\ g.minstret = IF minstret_increment THEN Plus1(h.minstret) ELSE h.minstret
  BY RetireOK
<1>3. Stepped(g, done) /\ expected' = Incremented
  BY DEF Retires
<1>4. expected' \in Values
  BY <1>1, <1>3, RegisterWrites DEF Incremented
<1> HIDE DEF g
<1>5. /\ hart' \in Hart /\ TimerOK(hart') /\ hart'.minstret = g.minstret
      /\ insn_cnt' \in 0 .. rv_insns_per_tick - 1
      /\ insn_limit' \in InsnLimits /\ total_insns' \in 0 .. insn_limit'
      /\ htif_done' \in BOOLEAN
  BY <1>1, <1>2, <1>3, SteppedOK
<1>6. ~xlen32 => hart'.minstret = expected'
  BY <1>2, <1>3, <1>5 DEF LoopInv, Incremented, minstret_increment
<1> QED BY <1>4, <1>5, <1>6 DEF LoopInv, TypeOK, TimerOK

-----------------------------------------------------------------------------
(* A hart that was reset has its timer at most just due. *)
LEMMA ResetOK ==
  ASSUME NEW h \in ResetHarts
  PROVE  h \in Hart /\ TimerOK(h) /\ h.minstret = 0 /\ 0 \in Values
<1>1. 0 \in Values /\ 0 \in Bit
  BY RangeFacts DEF Values, Bit
<1>2. PICK c \in Values :
        h = [mtime |-> 0, mtimecmp |-> c, mcycle |-> 0, minstret |-> 0,
             MTI |-> 0, MSI |-> 0, CY |-> 0, IR |-> 0]
  BY DEF ResetHarts
<1>3. h \in Hart
  BY <1>1, <1>2 DEF Hart
<1>4. TimerOK(h)
  BY <1>2, RangeFacts DEF TimerOK, Values
<1> QED BY <1>1, <1>2, <1>3, <1>4

(* Every action of the loop keeps the invariant. *)
LEMMA LoopInvStep ==
  ASSUME LoopInv, [Next]_vars
  PROVE  LoopInv'
<1>1. /\ TypeOK /\ hart \in Hart /\ TimerOK(hart) /\ expected \in Values
      /\ ~xlen32 => hart.minstret = expected
  BY DEF LoopInv, TypeOK
<1>2. CASE Compute
  BY <1>1, <1>2, RetiresOK DEF Compute
<1>3. CASE HtifExit
  BY <1>1, <1>3, RetiresOK DEF HtifExit
<1>4. CASE Wfi
  BY <1>1, <1>4, WfiOK, RetiresOK DEF Wfi
<1>5. CASE ClintStore
  <2>1. PICK h \in ClintStores(hart) : Retires(h, FALSE)
    BY <1>5 DEF ClintStore
  <2>2. h \in Hart /\ TimerOK(h) /\ h.minstret = hart.minstret
    BY <1>1, ClintStoreOK
  <2> QED BY <2>1, <2>2, RetiresOK
<1>6. CASE WriteMcycle
  <2>1. PICK p \in Parts : \E d \in PartOf(p) :
          Retires([hart EXCEPT !.mcycle = CounterWrite(@, p, d)], FALSE)
    BY <1>6 DEF WriteMcycle
  <2>2. PICK d \in PartOf(p) :
          Retires([hart EXCEPT !.mcycle = CounterWrite(@, p, d)], FALSE)
    BY <2>1
  <2> DEFINE h == [hart EXCEPT !.mcycle = CounterWrite(@, p, d)]
  <2>3. CounterWrite(hart.mcycle, p, d) \in Values
    BY <1>1, RegisterWrites DEF Hart
  <2>4. h \in Hart /\ TimerOK(h) /\ h.minstret = hart.minstret
    BY <1>1, <2>3 DEF Hart, TimerOK
  <2>5. Retires(h, FALSE)
    BY <2>2
  <2> HIDE DEF h
  <2> QED BY <2>4, <2>5, RetiresOK
<1>7. CASE WriteMcountinhibit
  <2>1. PICK cy \in Bit, ir \in Bit :
          Retires([hart EXCEPT !.CY = cy, !.IR = ir], FALSE)
    BY <1>7 DEF WriteMcountinhibit
  <2> DEFINE h == [hart EXCEPT !.CY = cy, !.IR = ir]
  <2>2. h \in Hart /\ TimerOK(h) /\ h.minstret = hart.minstret
    BY <1>1 DEF Hart, TimerOK
  <2>3. Retires(h, FALSE)
    BY <2>1
  <2> HIDE DEF h
  <2> QED BY <2>2, <2>3, RetiresOK
<1>8. CASE WriteMinstret
  <2>1. PICK p \in Parts : \E d \in PartOf(p) :
          /\ Stepped([hart EXCEPT !.minstret = CounterWrite(@, p, d)], FALSE)
          /\ expected' = CounterWrite(Incremented, p, d)
    BY <1>8 DEF WriteMinstret
  <2>2. PICK d \in PartOf(p) :
          /\ Stepped([hart EXCEPT !.minstret = CounterWrite(@, p, d)], FALSE)
          /\ expected' = CounterWrite(Incremented, p, d)
    BY <2>1
  <2> DEFINE h == [hart EXCEPT !.minstret = CounterWrite(@, p, d)]
  <2>3. CounterWrite(hart.minstret, p, d) \in Values
    BY <1>1, RegisterWrites DEF Hart
  <2>4. h \in Hart /\ TimerOK(h) /\ h.minstret = CounterWrite(hart.minstret, p, d)
    BY <1>1, <2>3 DEF Hart, TimerOK
  <2>5. expected' \in Values
    <3>1. Incremented \in Values
      BY <1>1, RegisterWrites DEF Incremented
    <3> QED BY <2>2, <3>1, RegisterWrites
  <2>6. ~xlen32 => CounterWrite(hart.minstret, p, d) = expected'
    BY <2>2 DEF CounterWrite, Parts
  <2>7. Stepped(h, FALSE)
    BY <2>2
  <2> HIDE DEF h
  <2>8. /\ hart' \in Hart /\ TimerOK(hart') /\ hart'.minstret = h.minstret
        /\ insn_cnt' \in 0 .. rv_insns_per_tick - 1
        /\ insn_limit' \in InsnLimits /\ total_insns' \in 0 .. insn_limit'
        /\ htif_done' \in BOOLEAN
    BY <1>1, <2>4, <2>7, SteppedOK
  <2> QED BY <2>4, <2>5, <2>6, <2>8 DEF LoopInv, TypeOK, TimerOK
<1>9. CASE Traps
  <2>1. /\ hart' \in Hart /\ TimerOK(hart') /\ hart'.minstret = hart.minstret
        /\ insn_cnt' \in 0 .. rv_insns_per_tick - 1
        /\ insn_limit' \in InsnLimits /\ total_insns' \in 0 .. insn_limit'
        /\ htif_done' \in BOOLEAN
    BY <1>1, <1>9, SteppedOK DEF Traps
  <2> QED BY <1>1, <1>9, <2>1 DEF Traps, LoopInv, TypeOK, TimerOK
<1>10. CASE NotStepped \/ UNCHANGED vars
  BY <1>10 DEF NotStepped, vars, LoopInv, TypeOK, TimerOK
<1> QED BY <1>2, <1>3, <1>4, <1>5, <1>6, <1>7, <1>8, <1>9, <1>10 DEF Next, Executes

(* The timer agrees with the clock and minstret with the ghost counter, in *)
(* every reachable state of the loop.                                      *)
THEOREM LoopInductive == Spec => []LoopInv
<1>1. Init => LoopInv
  <2> SUFFICES ASSUME Init PROVE LoopInv
    OBVIOUS
  <2>1. hart \in Hart /\ TimerOK(hart) /\ hart.minstret = 0 /\ 0 \in Values
    BY ResetOK DEF Init
  <2>2. /\ insn_limit \in InsnLimits
        /\ insn_cnt \in 0 .. rv_insns_per_tick - 1 /\ total_insns \in 0 .. insn_limit
    BY LoopAssumption DEF Init
  <2>3. htif_done \in BOOLEAN /\ expected = 0
    BY DEF Init
  <2> QED BY <2>1, <2>2, <2>3 DEF LoopInv, TypeOK
<1>2. LoopInv /\ [Next]_vars => LoopInv'
  BY LoopInvStep
<1> QED BY <1>1, <1>2, PTL DEF Spec

(* The registers, counters and ghost of the loop stay in their widths, the *)
(* instruction count below the tick length and the total within the limit. *)
THEOREM LoopTypeCorrect == Spec => []TypeOK
<1>1. LoopInv => TypeOK
  BY DEF LoopInv
<1> QED BY <1>1, LoopInductive, PTL

(* No timer interrupt is pending before its time. *)
THEOREM LoopTimerSound == Spec => []TimerSound
<1>1. LoopInv => TimerSound
  BY DEF LoopInv, TimerOK, TimerSound
<1> QED BY <1>1, LoopInductive, PTL

(* The timer interrupt is missing only while mtime is exactly mtimecmp. *)
THEOREM LoopTimerNotOverdue == Spec => []TimerNotOverdue
<1>1. LoopInv => TimerNotOverdue
  BY DEF LoopInv, TimerOK, TimerNotOverdue
<1> QED BY <1>1, LoopInductive, PTL

(* On RV64 minstret counts as if increments came before explicit writes. *)
THEOREM LoopInstret == Spec => [](xlen32 \/ InstretAsSpecified)
<1>1. LoopInv => xlen32 \/ InstretAsSpecified
  BY DEF LoopInv, InstretAsSpecified
<1> QED BY <1>1, LoopInductive, PTL
-----------------------------------------------------------------------------
(* The process. *)

(* The whole process without its fairness. *)
LEMMA Safety == ESpec => EInit /\ [][ENext]_evars
  BY PTL DEF ESpec
-----------------------------------------------------------------------------
(* The tandem run. *)

(* A disagreement has already decided the exit status. *)
AgreedInv == ~agreed => phase \in {"finish", "exited"} /\ status = 1

(* Only Spike's step looks at the other simulator, and only in the loop. *)
LEMMA SpikeStepAgrees ==
  ASSUME AgreedInv, phase = "running", AfterStep
  PROVE  AgreedInv'
  <1>1. agreed BY DEF AgreedInv
  <1>2. CASE build = "spike"
    <2>1. PICK done \in BOOLEAN, differ \in Differences :
            /\ agreed' = (agreed /\ done = htif_done' /\ differ \cap Compared = {})
            /\ CASE done # htif_done' -> Exit(1)
                 [] done = htif_done' /\ ~compare_states(differ) ->
                      phase' = "finish" /\ status' = 1
                 [] OTHER -> UNCHANGED <<phase, status>>
      BY <1>2, Zenon DEF AfterStep, SpikeStep
    <2>2. CASE done # htif_done'
      <3>1. Exit(1) BY <2>1, <2>2
      <3> QED BY <3>1 DEF Exit, AgreedInv
    <2>3. CASE done = htif_done' /\ ~compare_states(differ)
      <3>1. phase' = "finish" /\ status' = 1 BY <2>1, <2>3
      <3> QED BY <3>1 DEF AgreedInv
    <2>4. CASE done = htif_done' /\ compare_states(differ)
      <3>1. differ \cap Compared = {} BY <2>4 DEF compare_states
      <3>2. agreed' BY <1>1, <2>1, <2>4, <3>1
      <3> QED BY <3>2 DEF AgreedInv
    <2> QED BY <2>2, <2>3, <2>4
  <1>3. CASE build # "spike"
    <2>1. UNCHANGED <<phase, status, agreed>> BY <1>3 DEF AfterStep
    <2> QED BY <2>1 DEF AgreedInv
  <1> QED BY <1>2, <1>3

(* Status 0 of a tandem run means that Spike agreed after every step, in   *)
(* whichever of the ways the run ended.                                    *)
THEOREM EmulatorZeroMeansAgreed == ESpec => []ZeroMeansAgreed
  <1>1. EInit => AgreedInv BY DEF EInit, AgreedInv
  <1>2. AgreedInv /\ [ENext]_evars => AgreedInv'
    <2> SUFFICES ASSUME AgreedInv, [ENext]_evars PROVE AgreedInv' OBVIOUS
    <2>1. CASE StartUp
      <3>1. agreed' = agreed /\ phase \notin {"finish", "exited"}
        BY <2>1 DEF StartUp, ProcessOption, EndOptions, init_logs, Connect, LoadFile, init_spike,
                    init_sail
      <3> QED BY <3>1 DEF AgreedInv
    <2>2. CASE Iterate BY <2>2, SpikeStepAgrees DEF Iterate, Running
    <2>3. CASE IterateNotStepped BY <2>3, SpikeStepAgrees DEF IterateNotStepped, Running
    <2>4. CASE LoopEnds \/ SailException
      BY <2>4 DEF LoopEnds, SailException, AgreedInv
    <2>5. CASE finish BY <2>5 DEF finish, Exit, AgreedInv
    <2>6. CASE Serve \/ SocketFails
      <3>1. agreed' = agreed /\ phase = "running"
        BY <2>6 DEF Serve, SocketFails, ServeInsn, ServeNegotiation, ServeSetVersion,
                    ServeEndOfTrace, ServeUnknown, EndOfFile, Serving
      <3> QED BY <3>1 DEF AgreedInv
    <2>7. CASE Client \/ UNCHANGED evars
      <3>1. UNCHANGED <<agreed, phase, status>>
        BY <2>7 DEF Client, Send, Receive, HangUp, evars
      <3> QED BY <3>1 DEF AgreedInv
    <2> QED BY <2>1, <2>2, <2>3, <2>4, <2>5, <2>6, <2>7 DEF ENext, Progress
  <1>3. AgreedInv => ZeroMeansAgreed BY DEF AgreedInv, ZeroMeansAgreed
  <1> QED BY <1>1, <1>2, <1>3, Safety, PTL
-----------------------------------------------------------------------------
(* The command line. *)

AllOpts  == UNION {Elements(l.opts) : l \in CmdLines}
AllFiles == UNION {Elements(l.files) : l \in CmdLines}

LineInv ==
  cmdline \in [build : {l.build : l \in CmdLines}, opts : Seq(AllOpts), files : Seq(AllFiles),
               next : Nat \ {0}]

(* The arguments the code converts are numbers. *)
LEMMA OptFacts ==
  ASSUME NEW o \in AllOpts
  PROVE  /\ o.opt = "l" => o.arg \in InsnLimits
         /\ o.opt = "g" => o.arg \in Int
  <1>1. PICK l \in CmdLines : o \in Elements(l.opts) BY DEF AllOpts
  <1>2. \A q \in Elements(l.opts) : (q.opt = "l" => q.arg \in InsnLimits)
                                   /\ (q.opt = "g" => q.arg \in Int)
    BY EmulatorAssumption
  <1> QED BY <1>1, <1>2, Zenon

(* What the loader takes from an ELF file: two symbols and bytes. *)
LEMMA FileFacts ==
  ASSUME NEW f \in AllFiles
  PROVE  /\ f.begin_signature \in Nat /\ f.end_signature \in Nat
         /\ \A a \in DOMAIN f.image : f.image[a] \in Byte
  BY EmulatorAssumption DEF AllFiles

(* A sequence over a set is one over a larger set. *)
LEMMA SeqMono ==
  ASSUME NEW S, NEW T, S \subseteq T, NEW s \in Seq(S)
  PROVE  s \in Seq(T)
  <1>1. Len(s) \in Nat /\ s \in [1 .. Len(s) -> S] OBVIOUS
  <1>2. s \in [1 .. Len(s) -> T] BY <1>1
  <1> QED BY <1>1, <1>2

(* Every command line the emulator is started with is well-formed. *)
LEMMA LineInit == EInit => LineInv
  <1> SUFFICES ASSUME EInit PROVE LineInv OBVIOUS
  <1>1. PICK l \in CmdLines :
          cmdline = [build |-> l.build, opts |-> l.opts, files |-> l.files, next |-> 1]
    BY DEF EInit
  <1>2. l.opts \in Seq(AllOpts)
    <2>1. l.opts \in Seq(Elements(l.opts)) /\ Elements(l.opts) \subseteq AllOpts
      BY EmulatorAssumption DEF AllOpts
    <2> QED BY <2>1, SeqMono
  <1>3. l.files \in Seq(AllFiles)
    <2>1. l.files \in Seq(Elements(l.files)) /\ Elements(l.files) \subseteq AllFiles
      BY EmulatorAssumption DEF AllFiles
    <2> QED BY <2>1, SeqMono
  <1> QED BY <1>1, <1>2, <1>3 DEF LineInv

(* The steps that touch the command line. *)
LEMMA LineStep ==
  ASSUME LineInv, [ENext]_evars
  PROVE  LineInv' /\ build' = build /\ files' = files
  <1>1. CASE ProcessOption
    <2>1. cmdline' = [cmdline EXCEPT !.opts = Tail(cmdline.opts)] /\ cmdline.opts # <<>>
      BY <1>1 DEF ProcessOption
    <2>2. Tail(cmdline.opts) \in Seq(AllOpts) BY <2>1 DEF LineInv
    <2> QED BY <2>1, <2>2 DEF LineInv, build, files
  <1>2. CASE Connect
    <2>1. cmdline' = [cmdline EXCEPT !.next = 2] BY <1>2 DEF Connect
    <2> QED BY <2>1 DEF LineInv, build, files
  <1>3. CASE LoadFile
    <2>1. cmdline' = [cmdline EXCEPT !.next = cmdline.next + 1] BY <1>3 DEF LoadFile
    <2> QED BY <2>1 DEF LineInv, build, files
  <1>4. CASE UNCHANGED cmdline BY <1>4 DEF LineInv, build, files
  <1>5. ProcessOption \/ Connect \/ LoadFile \/ UNCHANGED cmdline
    BY DEF ENext, Progress, StartUp, EndOptions, init_logs, init_spike, init_sail,
           Iterate, IterateNotStepped, LoopEnds, finish, Serve, ServeInsn, ServeNegotiation,
           ServeSetVersion, ServeEndOfTrace, ServeUnknown, EndOfFile, SailException, SocketFails,
           Client, Send, Receive, HangUp, evars, startVars
  <1> QED BY <1>1, <1>2, <1>3, <1>4, <1>5
-----------------------------------------------------------------------------
(* The loop inside the process. *)

ProcessInv ==
  /\ LineInv
  /\ LoopInv
  /\ phase = "args" => total_insns = 0

(* A step of the process is a step of the loop, the reading of the limit,  *)
(* or the reset between two traces.                                        *)
SetsLimit ==
  /\ phase = "args"
  /\ insn_limit' \in InsnLimits \cup {insn_limit}
  /\ UNCHANGED <<hart, expected, insn_cnt, total_insns, htif_done>>

ResetsLoop ==
  /\ hart' \in ResetHarts /\ expected' = 0 /\ insn_cnt' = 0 /\ htif_done' = FALSE
  /\ UNCHANGED <<insn_limit, total_insns>>

(* What each step of the process does to the variables of the loop. *)
LEMMA LoopPart ==
  ASSUME LineInv, [ENext]_evars
  PROVE  Next \/ UNCHANGED vars \/ SetsLimit \/ ResetsLoop
  <1>1. CASE ProcessOption
    <2> DEFINE o == Head(cmdline.opts)
    <2>1. cmdline.opts # <<>> /\ phase = "args"
          /\ UNCHANGED <<hart, expected, insn_cnt, total_insns, htif_done>>
      BY <1>1 DEF ProcessOption
    <2>2. insn_limit' = insn_limit \/ (o.opt = "l" /\ insn_limit' = o.arg)
      BY <1>1 DEF ProcessOption
    <2>3. o \in AllOpts BY <2>1 DEF LineInv
    <2>4. insn_limit' \in InsnLimits \cup {insn_limit} BY <2>2, <2>3, OptFacts
    <2> QED BY <2>1, <2>4 DEF SetsLimit
  <1>2. CASE Iterate
    <2>1. CASE ClockStep BY <2>1 DEF ClockStep, Next
    <2>2. CASE MemoryStep
      <3>1. HtifExit \/ Traps \/ Retires(hart, FALSE) BY <2>2 DEF MemoryStep
      <3> QED BY <3>1 DEF Next, Executes, Compute
    <2> QED BY <1>2, <2>1, <2>2 DEF Iterate
  <1>3. CASE IterateNotStepped BY <1>3 DEF IterateNotStepped, Next
  <1>4. CASE ServeInsn
    <2>1. NotStepped \/ Traps \/ Retires(hart, FALSE) BY <1>4 DEF ServeInsn
    <2> QED BY <2>1 DEF Next, Executes, Compute
  <1>5. CASE ServeEndOfTrace BY <1>5 DEF ServeEndOfTrace, reinit_sail, ResetsLoop
  <1>6. \/ ProcessOption \/ Iterate \/ IterateNotStepped \/ ServeInsn \/ ServeEndOfTrace
        \/ UNCHANGED vars
    BY DEF ENext, Progress, StartUp, EndOptions, init_logs, Connect, LoadFile, init_spike,
           init_sail, LoopEnds, finish, Serve, ServeNegotiation, ServeSetVersion, ServeUnknown,
           EndOfFile, SailException, SocketFails, Client, Send, Receive, HangUp, evars
  <1> QED BY <1>1, <1>2, <1>3, <1>4, <1>5, <1>6

(* The options are processed once, before anything else. *)
LEMMA ArgsFirst ==
  ASSUME [ENext]_evars, phase' = "args"
  PROVE  phase = "args"
  BY DEF ENext, Progress, StartUp, ProcessOption, EndOptions, init_logs, Connect, LoadFile,
         init_spike, init_sail, LoopEnds, finish, Serve, ServeInsn, ServeNegotiation,
         ServeSetVersion, ServeEndOfTrace, ServeUnknown, EndOfFile, SailException, SocketFails,
         Client, Send, Receive, HangUp, evars, Iterate, IterateNotStepped, AfterStep, SpikeStep,
         Exit, Enter

(* The invariant of the loop is one of the process. *)
THEOREM EmulatorLoopInvariant == ESpec => []ProcessInv
  <1>1. EInit => ProcessInv
    <2> SUFFICES ASSUME EInit PROVE ProcessInv OBVIOUS
    <2>1. hart \in Hart /\ TimerOK(hart) /\ hart.minstret = 0 /\ 0 \in Values
      BY ResetOK DEF EInit
    <2>2. insn_limit = 0 /\ insn_cnt = 0 /\ total_insns = 0 /\ expected = 0 /\ htif_done = FALSE
      BY DEF EInit
    <2>3. insn_limit \in InsnLimits BY <2>2, EmulatorAssumption
    <2>4. insn_cnt \in 0 .. rv_insns_per_tick - 1 /\ total_insns \in 0 .. insn_limit
      BY <2>2, LoopAssumption
    <2>5. htif_done \in BOOLEAN BY <2>2
    <2>6. LoopInv BY <2>1, <2>2, <2>3, <2>4, <2>5 DEF LoopInv, TypeOK
    <2> QED BY <2>2, <2>6, LineInit DEF ProcessInv
  <1>2. ProcessInv /\ [ENext]_evars => ProcessInv'
    <2> SUFFICES ASSUME ProcessInv, [ENext]_evars PROVE ProcessInv' OBVIOUS
    <2>1. LineInv' BY LineStep DEF ProcessInv
    <2>2. Next \/ UNCHANGED vars \/ SetsLimit \/ ResetsLoop BY LoopPart DEF ProcessInv
    <2>3. CASE Next \/ UNCHANGED vars
      <3>1. LoopInv' BY <2>3, LoopInvStep DEF ProcessInv
      <3>2. phase' = "args" => total_insns' = 0
        <4> SUFFICES ASSUME phase' = "args" PROVE total_insns' = 0 OBVIOUS
        <4>1. phase = "args" BY ArgsFirst
        <4>2. total_insns' = total_insns
          BY <4>1 DEF ENext, Progress, StartUp, ProcessOption, EndOptions, init_logs, Connect,
                      LoadFile, init_spike, init_sail, LoopEnds, finish, Serve, ServeInsn,
                      ServeNegotiation, ServeSetVersion, ServeEndOfTrace, ServeUnknown, EndOfFile,
                      SailException, SocketFails, Client, Send, Receive, HangUp, evars, Iterate,
                      IterateNotStepped, Running, Serving, vars
        <4> QED BY <4>1, <4>2 DEF ProcessInv
      <3> QED BY <2>1, <3>1, <3>2 DEF ProcessInv
    <2>4. CASE SetsLimit
      <3>1. insn_limit' \in InsnLimits /\ total_insns' = 0
        BY <2>4 DEF SetsLimit, ProcessInv, LoopInv, TypeOK
      <3>2. total_insns' \in 0 .. insn_limit' BY <3>1, LoopAssumption
      <3>3. LoopInv' BY <2>4, <3>1, <3>2 DEF SetsLimit, ProcessInv, LoopInv, TypeOK
      <3> QED BY <2>1, <3>1, <3>3 DEF ProcessInv
    <2>5. CASE ResetsLoop
      <3>1. hart' \in Hart /\ TimerOK(hart') /\ hart'.minstret = 0 /\ 0 \in Values
        BY <2>5, ResetOK DEF ResetsLoop
      <3>2. /\ expected' = 0 /\ htif_done' \in BOOLEAN
            /\ insn_limit' = insn_limit /\ total_insns' = total_insns
        BY <2>5 DEF ResetsLoop
      <3>3. insn_cnt' \in 0 .. rv_insns_per_tick - 1 BY <2>5, LoopAssumption DEF ResetsLoop
      <3>4. LoopInv' BY <3>1, <3>2, <3>3 DEF ProcessInv, LoopInv, TypeOK
      <3>5. phase' = "args" => total_insns' = 0 BY <3>2, ArgsFirst DEF ProcessInv
      <3> QED BY <2>1, <3>4, <3>5 DEF ProcessInv
    <2> QED BY <2>2, <2>3, <2>4, <2>5
  <1> QED BY <1>1, <1>2, Safety, PTL

(* In the process too the counters stay in their widths and the total      *)
(* within the limit, over the traces of a session as well.                 *)
THEOREM EmulatorTypeCorrect == ESpec => []TypeOK
  <1>1. ProcessInv => TypeOK BY DEF ProcessInv, LoopInv
  <1> QED BY <1>1, EmulatorLoopInvariant, PTL

(* No timer interrupt is pending before its time, nor overdue, in a        *)
(* program or over the resets between traces.                              *)
THEOREM EmulatorTimer == ESpec => [](TimerSound /\ TimerNotOverdue)
  <1>1. ProcessInv => TimerSound /\ TimerNotOverdue
    BY DEF ProcessInv, LoopInv, TimerOK, TimerSound, TimerNotOverdue
  <1> QED BY <1>1, EmulatorLoopInvariant, PTL

(* On RV64 minstret counts as specified in the process too, over the ends  *)
(* of traces; on RV32 an instruction that writes one half is not counted   *)
(* in the other.                                                           *)
THEOREM EmulatorInstret ==
  ASSUME ~xlen32
  PROVE  ESpec => []InstretAsSpecified
  <1>1. ProcessInv => InstretAsSpecified BY DEF ProcessInv, LoopInv, InstretAsSpecified
  <1> QED BY <1>1, EmulatorLoopInvariant, PTL
-----------------------------------------------------------------------------
(* The settings. *)

FlagNames == {"bext", "dirty_update", "misaligned", "rvc", "writable_misa", "fdext", "zfinx",
              "vext", "mtval_has_illegal_inst_bits", "writable_fiom", "dump_dts", "show_times",
              "svinval", "zcb", "zicbom", "zicboz"}

(* The arguments that options may have given to the settings that are not  *)
(* checked, and what there is before.                                      *)
Args == {o.arg : o \in AllOpts} \cup {""}

Settings ==
  [flag : [FlagNames -> BOOLEAN], pmp_count : {0, 16, 64}, pmp_grain : 0 .. 63,
   ram_size : {Unsigned(o.arg * 2^20) : o \in AllOpts}
                \cup {Unsigned(64 * 2^20), Unsigned(8 * 2^20)},
   cache_block_size_exp : {n \in {6} \cup {ilog2(Unsigned(o.arg)) : o \in AllOpts} : n <= 12},
   dtb_file : Args, term_log : Args, sig_file : Args, granularity : Int,
   print : SUBSET Categories, rvfi_dii : BOOLEAN]

(* No flag option turns F, D or Zfinx on. *)
FlagOK(t) == /\ t[1] \in FlagNames /\ t[1] # "zfinx" /\ t[2] \in BOOLEAN
             /\ t[1] = "fdext" => ~t[2]

(* A flag option other than the ones for Zfinx, F and D may have either    *)
(* value.                                                                  *)
LEMMA FlagPair ==
  ASSUME NEW x \in FlagNames, x # "zfinx", NEW b \in BOOLEAN, x = "fdext" => ~b
  PROVE  FlagOK(<<x, b>>)
  BY DEF FlagOK

(* Each entry of the four tables of flag options is legal: none turns on F *)
(* and D, or Zfinx.                                                        *)
LEMMA FlagOptions ==
  ASSUME NEW n \in DOMAIN Flags
  PROVE  FlagOK(Flags[n])
  <1>1. /\ DOMAIN EnableFlags = {"B", "d", "m"} /\ DOMAIN DisableFlags = {"C", "I", "F", "W"}
        /\ DOMAIN PlatformFlags = {"i", "fiom", "s", "p"}
        /\ DOMAIN ExtensionFlags = {"svinval", "zcb", "zicbom", "zicboz"}
    BY DEF EnableFlags, DisableFlags, PlatformFlags, ExtensionFlags
  <1>2. n \in DOMAIN EnableFlags \cup DOMAIN DisableFlags \cup DOMAIN PlatformFlags
                \cup DOMAIN ExtensionFlags
    BY DEF Flags
  <1>3. \A x \in FlagNames \ {"zfinx", "fdext"} : FlagOK(<<x, TRUE>>)
    BY FlagPair
  <1>4. \A x \in FlagNames \ {"zfinx"} : FlagOK(<<x, FALSE>>)
    BY FlagPair
  <1>5. CASE n \in DOMAIN EnableFlags
    <2>1. Flags[n] = EnableFlags[n] BY <1>1, <1>5 DEF Flags
    <2>2. FlagOK(EnableFlags["B"]) BY <1>3, Zenon DEF EnableFlags, FlagNames
    <2>3. FlagOK(EnableFlags["d"]) BY <1>3, Zenon DEF EnableFlags, FlagNames
    <2>4. FlagOK(EnableFlags["m"]) BY <1>3, Zenon DEF EnableFlags, FlagNames
    <2> QED BY <1>1, <1>5, <2>1, <2>2, <2>3, <2>4
  <1>6. CASE n \in DOMAIN DisableFlags
    <2>1. Flags[n] = DisableFlags[n] BY <1>1, <1>6 DEF Flags
    <2>2. FlagOK(DisableFlags["C"]) BY <1>4, Zenon DEF DisableFlags, FlagNames
    <2>3. FlagOK(DisableFlags["I"]) BY <1>4, Zenon DEF DisableFlags, FlagNames
    <2>4. FlagOK(DisableFlags["F"]) BY <1>4, Zenon DEF DisableFlags, FlagNames
    <2>5. FlagOK(DisableFlags["W"]) BY <1>4, Zenon DEF DisableFlags, FlagNames
    <2> QED BY <1>1, <1>6, <2>1, <2>2, <2>3, <2>4, <2>5
  <1>7. CASE n \in DOMAIN PlatformFlags
    <2>1. Flags[n] = PlatformFlags[n] BY <1>1, <1>7 DEF Flags
    <2>2. FlagOK(PlatformFlags["i"]) BY <1>3, Zenon DEF PlatformFlags, FlagNames
    <2>3. FlagOK(PlatformFlags["fiom"]) BY <1>3, Zenon DEF PlatformFlags, FlagNames
    <2>4. FlagOK(PlatformFlags["s"]) BY <1>3, Zenon DEF PlatformFlags, FlagNames
    <2>5. FlagOK(PlatformFlags["p"]) BY <1>3, Zenon DEF PlatformFlags, FlagNames
    <2> QED BY <1>1, <1>7, <2>1, <2>2, <2>3, <2>4, <2>5
  <1>8. CASE n \in DOMAIN ExtensionFlags
    <2>1. Flags[n] = ExtensionFlags[n] BY <1>1, <1>8 DEF Flags
    <2>2. FlagOK(ExtensionFlags["svinval"]) BY <1>3, Zenon DEF ExtensionFlags, FlagNames
    <2>3. FlagOK(ExtensionFlags["zcb"]) BY <1>3, Zenon DEF ExtensionFlags, FlagNames
    <2>4. FlagOK(ExtensionFlags["zicbom"]) BY <1>3, Zenon DEF ExtensionFlags, FlagNames
    <2>5. FlagOK(ExtensionFlags["zicboz"]) BY <1>3, Zenon DEF ExtensionFlags, FlagNames
    <2> QED BY <1>1, <1>8, <2>1, <2>2, <2>3, <2>4, <2>5
  <1> QED BY <1>2, <1>5, <1>6, <1>7, <1>8

(* The settings before the first option are legal. *)
LEMMA DefaultOK ==
  /\ DefaultConfig \in Settings /\ ~DefaultConfig.rvfi_dii
  /\ DefaultConfig.flag["zfinx"] = FALSE
  <1>1. DefaultFlags \in [bext : BOOLEAN, dirty_update : BOOLEAN, misaligned : BOOLEAN,
                          rvc : BOOLEAN, writable_misa : BOOLEAN, fdext : BOOLEAN,
                          zfinx : BOOLEAN, vext : BOOLEAN,
                          mtval_has_illegal_inst_bits : BOOLEAN, writable_fiom : BOOLEAN,
                          dump_dts : BOOLEAN, show_times : BOOLEAN, svinval : BOOLEAN,
                          zcb : BOOLEAN, zicbom : BOOLEAN, zicboz : BOOLEAN]
    BY DEF DefaultFlags
  <1>2. DefaultFlags \in [FlagNames -> BOOLEAN] BY <1>1 DEF FlagNames
  <1>3. DefaultConfig.flag = DefaultFlags BY DEF DefaultConfig
  <1>4. DefaultFlags["zfinx"] = FALSE BY Zenon DEF DefaultFlags
  <1>5. DefaultConfig \in Settings
    BY <1>2 DEF DefaultConfig, Settings, Args, Categories, AllCategories
  <1>6. DefaultConfig.rvfi_dii = FALSE BY Zenon DEF DefaultConfig
  <1> QED BY <1>3, <1>4, <1>5, <1>6

(* What is true of the settings at every moment, for build b. *)
SettingsOK(b, c) ==
  /\ c \in Settings
  /\ ~(c.flag["fdext"] /\ c.flag["zfinx"])
  /\ c.rvfi_dii => b = "rvfi"

(* Every option that is not refused keeps the settings legal. *)
LEMMA ConfiguredOK ==
  ASSUME NEW b, NEW c, SettingsOK(b, c), NEW o \in AllOpts, ~Rejected(b, o)
  PROVE  SettingsOK(b, Configured(c, o))
  <1> DEFINE d == Configured(c, o)
  <1>1. DOMAIN Flags = {"B", "d", "m", "C", "I", "F", "W", "i", "fiom", "s", "p", "svinval",
                        "zcb", "zicbom", "zicboz"}
    BY DEF Flags, EnableFlags, DisableFlags, PlatformFlags, ExtensionFlags
  <1>2. /\ c \in Settings /\ ~(c.flag["fdext"] /\ c.flag["zfinx"])
        /\ (c.rvfi_dii => b = "rvfi") /\ c.flag \in [FlagNames -> BOOLEAN]
    BY DEF SettingsOK, Settings
  <1>3. o.arg \in Args BY DEF Args
  <1>4. CASE o.opt \in DOMAIN Flags
    <2> DEFINE n == Flags[o.opt][1]
               v == Flags[o.opt][2]
    <2>1. n \in FlagNames /\ n # "zfinx" /\ v \in BOOLEAN /\ (n = "fdext" => ~v)
      BY <1>4, FlagOptions DEF FlagOK
    <2>2. d = [c EXCEPT !.flag[n] = v] BY <1>4 DEF Configured
    <2> HIDE DEF n, v, d
    <2> DEFINE g == [c.flag EXCEPT ![n] = v]
    <2>3. g \in [FlagNames -> BOOLEAN] BY <1>2, <2>1
    <2>4. d = [c EXCEPT !.flag = g] BY <1>2, <2>2 DEF Settings
    <2>5. g["zfinx"] = c.flag["zfinx"] /\ (g["fdext"] => c.flag["fdext"])
      BY <1>2, <2>1 DEF FlagNames
    <2> HIDE DEF g
    <2>6. d.flag = g /\ d.rvfi_dii = c.rvfi_dii /\ d \in Settings
      BY <1>2, <2>3, <2>4 DEF Settings
    <2> QED BY <1>2, <2>5, <2>6 DEF SettingsOK, d
  <1>5. CASE o.opt \notin DOMAIN Flags
    <2>1. d = CASE o.opt = "x"         -> WithZfinx(c)
                [] o.opt = "pmp-count" -> [c EXCEPT !.pmp_count = Unsigned(o.arg)]
                [] o.opt = "pmp-grain" -> [c EXCEPT !.pmp_grain = Unsigned(o.arg)]
                [] o.opt = "z"         -> [c EXCEPT !.ram_size = Unsigned(o.arg * 2^20)]
                [] o.opt = "cache-block-size" ->
                     [c EXCEPT !.cache_block_size_exp = ilog2(Unsigned(o.arg))]
                [] o.opt = "b"         -> [c EXCEPT !.dtb_file = o.arg]
                [] o.opt = "t"         -> [c EXCEPT !.term_log = o.arg]
                [] o.opt = "T"         -> [c EXCEPT !.sig_file = o.arg]
                [] o.opt = "g"         -> [c EXCEPT !.granularity = o.arg]
                [] o.opt = "r"         -> [c EXCEPT !.rvfi_dii = TRUE]
                [] o.opt \in {"v", "V"} ->
                     [c EXCEPT !.print = set_config_print(@, o.arg, o.opt = "v")]
                [] OTHER -> c
      BY <1>5 DEF Configured
    <2> SUFFICES SettingsOK(b, d) OBVIOUS
    <2> HIDE DEF d
    <2>2. ASSUME d \in Settings, d.flag = c.flag, d.rvfi_dii <=> c.rvfi_dii
          PROVE  SettingsOK(b, d)
      BY <1>2, <2>2 DEF SettingsOK
    <2>3. CASE o.opt = "x"
      <3> DEFINE g == [c.flag EXCEPT !["zfinx"] = TRUE, !["fdext"] = FALSE]
      <3>1. d = [c EXCEPT !.flag.zfinx = TRUE, !.flag.fdext = FALSE] BY <2>1, <2>3 DEF WithZfinx
      <3>2. d = [c EXCEPT !.flag = g] BY <1>2, <3>1 DEF Settings
      <3>3. g \in [FlagNames -> BOOLEAN] BY <1>2
      <3>4. ~g["fdext"] BY <1>2 DEF FlagNames
      <3> HIDE DEF g
      <3>5. d.flag = g /\ d.rvfi_dii = c.rvfi_dii /\ d \in Settings
        BY <1>2, <3>2, <3>3 DEF Settings
      <3> QED BY <1>2, <3>4, <3>5 DEF SettingsOK
    <2>4. CASE o.opt = "pmp-count"
      <3>1. Unsigned(o.arg) \in {0, 16, 64} BY <2>4 DEF Rejected, OptionNames
      <3>2. d = [c EXCEPT !.pmp_count = Unsigned(o.arg)] BY <2>1, <2>4
      <3>8. d \in Settings /\ d.flag = c.flag /\ (d.rvfi_dii <=> c.rvfi_dii)
        BY <1>2, <3>1, <3>2 DEF Settings
      <3> QED BY <2>2, <3>8
    <2>5. CASE o.opt = "pmp-grain"
      <3>1. Unsigned(o.arg) \in 0 .. 63 BY <2>5 DEF Rejected, OptionNames
      <3>2. d = [c EXCEPT !.pmp_grain = Unsigned(o.arg)] BY <2>1, <2>5
      <3>8. d \in Settings /\ d.flag = c.flag /\ (d.rvfi_dii <=> c.rvfi_dii)
        BY <1>2, <3>1, <3>2 DEF Settings
      <3> QED BY <2>2, <3>8
    <2>6. CASE o.opt = "z"
      <3>1. d = [c EXCEPT !.ram_size = Unsigned(o.arg * 2^20)] BY <2>1, <2>6
      <3>8. d \in Settings /\ d.flag = c.flag /\ (d.rvfi_dii <=> c.rvfi_dii)
        BY <1>2, <3>1 DEF Settings
      <3> QED BY <2>2, <3>8
    <2>7. CASE o.opt = "cache-block-size"
      <3>1. ilog2(Unsigned(o.arg)) <= 12 BY <2>7 DEF Rejected, OptionNames, BlockSizeValid
      <3>2. d = [c EXCEPT !.cache_block_size_exp = ilog2(Unsigned(o.arg))] BY <2>1, <2>7
      <3>8. d \in Settings /\ d.flag = c.flag /\ (d.rvfi_dii <=> c.rvfi_dii)
        BY <1>2, <3>1, <3>2 DEF Settings
      <3> QED BY <2>2, <3>8
    <2>8. CASE o.opt = "b"
      <3>1. d = [c EXCEPT !.dtb_file = o.arg] BY <2>1, <2>8
      <3>8. d \in Settings /\ d.flag = c.flag /\ (d.rvfi_dii <=> c.rvfi_dii)
        BY <1>2, <1>3, <3>1 DEF Settings
      <3> QED BY <2>2, <3>8
    <2>9. CASE o.opt = "t"
      <3>1. d = [c EXCEPT !.term_log = o.arg] BY <2>1, <2>9
      <3>8. d \in Settings /\ d.flag = c.flag /\ (d.rvfi_dii <=> c.rvfi_dii)
        BY <1>2, <1>3, <3>1 DEF Settings
      <3> QED BY <2>2, <3>8
    <2>10. CASE o.opt = "T"
      <3>1. d = [c EXCEPT !.sig_file = o.arg] BY <2>1, <2>10
      <3>8. d \in Settings /\ d.flag = c.flag /\ (d.rvfi_dii <=> c.rvfi_dii)
        BY <1>2, <1>3, <3>1 DEF Settings
      <3> QED BY <2>2, <3>8
    <2>11. CASE o.opt = "g"
      <3>1. d = [c EXCEPT !.granularity = o.arg] BY <2>1, <2>11
      <3>2. o.arg \in Int BY <2>11, OptFacts
      <3>8. d \in Settings /\ d.flag = c.flag /\ (d.rvfi_dii <=> c.rvfi_dii)
        BY <1>2, <3>1, <3>2 DEF Settings
      <3> QED BY <2>2, <3>8
    <2>12. CASE o.opt = "r"
      <3>1. b = "rvfi"
        <4> SUFFICES ASSUME b # "rvfi" PROVE FALSE OBVIOUS
        <4>1. o.opt \notin OptionNames(b) BY <1>1, <2>12 DEF OptionNames
        <4> QED BY <2>12, <4>1 DEF Rejected
      <3>2. d = [c EXCEPT !.rvfi_dii = TRUE] BY <2>1, <2>12
      <3>3. d \in Settings /\ d.flag = c.flag BY <1>2, <3>2 DEF Settings
      <3> QED BY <1>2, <3>1, <3>3 DEF SettingsOK
    <2>13. CASE o.opt \in {"v", "V"}
      <3>1. d = [c EXCEPT !.print = set_config_print(c.print, o.arg, o.opt = "v")]
        BY <2>1, <2>13
      <3>2. set_config_print(c.print, o.arg, o.opt = "v") \in SUBSET Categories
        BY <1>2 DEF set_config_print, Named, Categories, Settings
      <3>8. d \in Settings /\ d.flag = c.flag /\ (d.rvfi_dii <=> c.rvfi_dii)
        BY <1>2, <3>1, <3>2 DEF Settings
      <3> QED BY <2>2, <3>8
    <2>14. CASE o.opt \notin {"x", "pmp-count", "pmp-grain", "z", "cache-block-size", "b", "t",
                              "T", "g", "r", "v", "V"}
      <3>1. d = c BY <2>1, <2>14
      <3> QED BY <3>1, Zenon
    <2> QED
      BY <2>3, <2>4, <2>5, <2>6, <2>7, <2>8, <2>9, <2>10, <2>11, <2>12, <2>13, <2>14
  <1> QED BY <1>4, <1>5

(* The files loaded so far have the width of the model, and tohost is that *)
(* of the main one.                                                        *)
FilesLoaded ==
  /\ \A k \in 1 .. Len(files) :
       (k < cmdline.next /\ (k > 1 \/ ~config.rvfi_dii)) => files[k].is32 = xlen32
  /\ (~config.rvfi_dii /\ cmdline.next > 1) => tohost = files[1].tohost /\ tohost # 0

AllLoaded == cmdline.next > 1 /\ cmdline.next > Len(files)

SpikeConfigured ==
  build = "spike" => /\ spike.dirty_update = plat_enable(config, "dirty_update")
                     /\ spike.misaligned = plat_enable(config, "misaligned")
                     /\ spike.ram_size = plat_ram_size(config)

(* How far the start-up has come in each phase. *)
ConfigInv ==
  /\ LineInv
  /\ SettingsOK(build, config)
  /\ phase \in {"args", "logs"} => cmdline.next = 1
  /\ phase \in {"load", "init", "running"} => FilesLoaded
  /\ phase \in {"init", "running"} => AllLoaded /\ SpikeConfigured
  /\ phase = "running" => (build = "spike" => config.dtb_file \in {"", spike.dtb})

(* The settings are still legal when the memory size of RVFI-DII is set    *)
(* and when the connection has ended.                                      *)
LEMMA SettingsChange ==
  ASSUME NEW b, NEW c, SettingsOK(b, c)
  PROVE  /\ SettingsOK(b, [c EXCEPT !.ram_size = Unsigned(8 * 2^20)])
         /\ SettingsOK(b, [c EXCEPT !.rvfi_dii = FALSE])
  <1> DEFINE d == [c EXCEPT !.ram_size = Unsigned(8 * 2^20)]
             e == [c EXCEPT !.rvfi_dii = FALSE]
  <1>1. c \in Settings BY DEF SettingsOK
  <1>2. d \in Settings /\ d.flag = c.flag /\ (d.rvfi_dii <=> c.rvfi_dii)
    BY <1>1 DEF Settings
  <1>3. e \in Settings /\ e.flag = c.flag /\ ~e.rvfi_dii
    BY <1>1 DEF Settings
  <1> HIDE DEF d, e
  <1>4. SettingsOK(b, d) BY <1>2 DEF SettingsOK
  <1>5. SettingsOK(b, e) BY <1>3 DEF SettingsOK
  <1> QED BY <1>4, <1>5 DEF d, e

(* Steps after the start-up leave what it has set up alone. *)
LEMMA ConfigKept ==
  ASSUME ConfigInv, LineInv', UNCHANGED startVars,
         phase' \in {phase, "finish", "exited"}
  PROVE  ConfigInv'
  BY DEF ConfigInv, startVars, build, files, FilesLoaded, AllLoaded, SpikeConfigured

(* Every step of the process keeps the invariant of the start-up. *)
LEMMA ConfigStep ==
  ASSUME ConfigInv, [ENext]_evars
  PROVE  ConfigInv'
  <1>1. LineInv' /\ build' = build /\ files' = files BY LineStep DEF ConfigInv
  <1>2. CASE ProcessOption
    <2>1. /\ phase = "args" /\ phase' \in {"args", "exited"}
          /\ cmdline' = [cmdline EXCEPT !.opts = Tail(@)]
          /\ cmdline.opts # <<>>
          /\ \/ config' = config
             \/ /\ ~Rejected(build, Head(cmdline.opts))
                /\ config' = Configured(config, Head(cmdline.opts))
      BY <1>2 DEF ProcessOption, Exit
    <2>2. cmdline'.next = 1 /\ Head(cmdline.opts) \in AllOpts BY <2>1 DEF ConfigInv, LineInv
    <2>3. SettingsOK(build, config')
      <3>1. SettingsOK(build, config) BY DEF ConfigInv
      <3> QED BY <2>1, <2>2, <3>1, ConfiguredOK
    <2> QED BY <1>1, <2>1, <2>2, <2>3 DEF ConfigInv
  <1>3. CASE EndOptions \/ init_logs
    <2>1. /\ phase \in {"args", "logs"} /\ phase' \in {"logs", "load", "exited"}
          /\ UNCHANGED startVars
      BY <1>3 DEF EndOptions, init_logs, Exit, Enter
    <2>2. cmdline.next = 1 BY <2>1 DEF ConfigInv
    <2>3. cmdline' = cmdline /\ config' = config BY <2>1 DEF startVars
    <2>4. FilesLoaded' BY <2>2, <2>3 DEF FilesLoaded
    <2> QED BY <1>1, <2>1, <2>2, <2>3, <2>4 DEF ConfigInv
  <1>4. CASE Connect
    <2>1. /\ phase = "load" /\ phase' \in {"load", "exited"} /\ config.rvfi_dii
          /\ cmdline' = [cmdline EXCEPT !.next = 2] /\ UNCHANGED <<config, tohost>>
      BY <1>4 DEF Connect, Exit, Enter
    <2>2. cmdline'.next = 2 BY <2>1 DEF ConfigInv, LineInv
    <2>3. FilesLoaded' BY <1>1, <2>1, <2>2 DEF FilesLoaded, ConfigInv, LineInv, files
    <2> QED BY <1>1, <2>1, <2>2, <2>3 DEF ConfigInv
  <1>5. CASE LoadFile
    <2> DEFINE f == files[cmdline.next]
    <2>1. /\ phase = "load" /\ phase' \in {"load", "exited"} /\ config' = config
          /\ cmdline' = [cmdline EXCEPT !.next = @ + 1]
          /\ cmdline.next > 1 \/ ~config.rvfi_dii
      BY <1>5 DEF LoadFile, Exit, Enter
    <2>2. cmdline.next \in Nat \ {0} /\ cmdline'.next = cmdline.next + 1 /\ Len(files) \in Nat
      BY <2>1 DEF ConfigInv, LineInv, files
    <2>3. CASE phase' = "exited" BY <1>1, <2>1, <2>3 DEF ConfigInv
    <2>4. CASE phase' = "load"
      <3>1. /\ f.is32 = xlen32
            /\ IF cmdline.next = 1 THEN f.tohost # 0 /\ tohost' = f.tohost
               ELSE tohost' = tohost
        BY <1>5, <2>4 DEF LoadFile, Exit, Enter, check_elf, load_sail
      <3>2. FilesLoaded BY <2>1 DEF ConfigInv
      <3>3. \A k \in 1 .. Len(files) :
              (k < cmdline'.next /\ (k > 1 \/ ~config.rvfi_dii)) => files[k].is32 = xlen32
        BY <2>2, <3>1, <3>2 DEF FilesLoaded
      <3>4. ~config.rvfi_dii => tohost' = files[1].tohost /\ tohost' # 0
        BY <2>2, <3>1, <3>2 DEF FilesLoaded
      <3>5. FilesLoaded' BY <1>1, <2>1, <3>3, <3>4 DEF FilesLoaded
      <3> QED BY <1>1, <2>1, <2>4, <3>5 DEF ConfigInv
    <2> QED BY <2>1, <2>3, <2>4
  <1>6. CASE init_spike
    <2>1. /\ phase = "load" /\ phase' \in {"init", "exited"} /\ AllLoaded
          /\ UNCHANGED <<cmdline, config, tohost>>
          /\ phase' = "init" => SpikeConfigured'
      BY <1>6 DEF init_spike, Exit, Enter, AllLoaded, SpikeConfigured, build
    <2>2. FilesLoaded' BY <1>1, <2>1 DEF ConfigInv, FilesLoaded
    <2>3. AllLoaded' BY <1>1, <2>1 DEF AllLoaded
    <2> QED BY <1>1, <2>1, <2>2, <2>3 DEF ConfigInv
  <1>7. CASE init_sail
    <2>1. /\ phase = "init" /\ phase' \in {"running", "finish", "exited"}
          /\ UNCHANGED <<cmdline, tohost, spike>>
          /\ config' = IF config.rvfi_dii THEN [config EXCEPT !.ram_size = Unsigned(8 * 2^20)]
                       ELSE config
          /\ (phase' = "running" /\ ~config.rvfi_dii) => init_sail_reset_vector
      BY <1>7 DEF init_sail, Exit, Enter
    <2>2. SettingsOK(build, config') BY <2>1, SettingsChange DEF ConfigInv
    <2>3. CASE config.rvfi_dii
      <3>1. build # "spike" BY <2>3 DEF ConfigInv, SettingsOK
      <3>2. config'.rvfi_dii BY <2>1, <2>3 DEF ConfigInv, SettingsOK, Settings
      <3>3. FilesLoaded' BY <1>1, <2>1, <2>3, <3>2 DEF ConfigInv, FilesLoaded
      <3>4. AllLoaded' BY <1>1, <2>1 DEF ConfigInv, AllLoaded
      <3> QED BY <1>1, <2>1, <2>2, <3>1, <3>3, <3>4 DEF ConfigInv, SpikeConfigured
    <2>4. CASE ~config.rvfi_dii
      <3>1. UNCHANGED <<cmdline, config, tohost, spike>> BY <2>1, <2>4
      <3>2. FilesLoaded' /\ AllLoaded' /\ SpikeConfigured'
        BY <1>1, <2>1, <3>1 DEF ConfigInv, FilesLoaded, AllLoaded, SpikeConfigured
      <3> QED BY <1>1, <2>1, <2>2, <2>4, <3>1, <3>2 DEF ConfigInv, init_sail_reset_vector
    <2> QED BY <2>3, <2>4
  <1>8. CASE Iterate \/ IterateNotStepped
    <2>1. UNCHANGED startVars /\ phase' \in {phase, "finish", "exited"}
      BY <1>8 DEF Iterate, IterateNotStepped, AfterStep, SpikeStep, Exit
    <2> QED BY <1>1, <2>1, ConfigKept
  <1>9. CASE LoopEnds \/ finish \/ SailException \/ SocketFails \/ Client \/ UNCHANGED evars
    <2>1. UNCHANGED startVars /\ phase' \in {phase, "finish", "exited"}
      BY <1>9 DEF LoopEnds, finish, SailException, SocketFails, Client, Send, Receive, HangUp,
                  Exit, evars
    <2> QED BY <1>1, <2>1, ConfigKept
  <1>10. CASE ServeInsn \/ ServeNegotiation \/ ServeSetVersion \/ ServeEndOfTrace \/ ServeUnknown
    <2>1. UNCHANGED startVars /\ phase' \in {phase, "finish", "exited"}
      BY <1>10 DEF ServeInsn, ServeNegotiation, ServeSetVersion, ServeEndOfTrace, ServeUnknown,
                   Exit
    <2> QED BY <1>1, <2>1, ConfigKept
  <1>11. CASE EndOfFile
    <2>1. phase' = "exited" /\ config' = [config EXCEPT !.rvfi_dii = FALSE]
      BY <1>11 DEF EndOfFile, Exit
    <2>2. SettingsOK(build, config') BY <2>1, SettingsChange DEF ConfigInv
    <2> QED BY <1>1, <2>1, <2>2 DEF ConfigInv
  <1> QED
    BY <1>2, <1>3, <1>4, <1>5, <1>6, <1>7, <1>8, <1>9, <1>10, <1>11 DEF ENext, Progress, StartUp,
       Serve

(* The start-up goes through its phases in order, whatever is given. *)
THEOREM EmulatorConfigInv == ESpec => []ConfigInv
  <1>1. EInit => ConfigInv
    <2> SUFFICES ASSUME EInit PROVE ConfigInv OBVIOUS
    <2>0. PICK l \in CmdLines :
            cmdline = [build |-> l.build, opts |-> l.opts, files |-> l.files, next |-> 1]
      BY DEF EInit
    <2>1. config = DefaultConfig /\ phase = "args" /\ cmdline.next = 1 BY <2>0 DEF EInit
    <2>2. SettingsOK(build, config) BY <2>1, DefaultOK DEF SettingsOK
    <2> QED BY <2>1, <2>2, LineInit DEF ConfigInv
  <1>2. ConfigInv /\ [ENext]_evars => ConfigInv' BY ConfigStep
  <1> QED BY <1>1, <1>2, Safety, PTL

(* Whatever options were given, in whatever order and in whichever build,  *)
(* the loop is entered only with legal settings, files of the right width, *)
(* the tohost of the main file and a Spike that is set up alike.           *)
THEOREM EmulatorConfigured == ESpec => []RunningIsConfigured
  <1>1. ConfigInv => RunningIsConfigured
    <2> SUFFICES ASSUME ConfigInv, phase = "running" PROVE RunningIsConfigured
      BY DEF RunningIsConfigured
    <2>1. /\ config \in Settings /\ ~(config.flag["fdext"] /\ config.flag["zfinx"])
          /\ FilesLoaded /\ AllLoaded /\ SpikeConfigured
          /\ (build = "spike" => config.dtb_file \in {"", spike.dtb})
      BY DEF ConfigInv, SettingsOK
    <2>2. /\ config.pmp_count \in {0, 16, 64} /\ config.pmp_grain < 64
          /\ config.cache_block_size_exp <= 12
      <3>1. /\ config.pmp_count \in {0, 16, 64} /\ config.pmp_grain \in 0 .. 63
            /\ config.cache_block_size_exp
                 \in {n \in {6} \cup {ilog2(Unsigned(o.arg)) : o \in AllOpts} : n <= 12}
        BY <2>1 DEF Settings
      <3>2. config.cache_block_size_exp <= 12 BY <3>1, Zenon
      <3> QED BY <3>1, <3>2
    <2>3. \A k \in 1 .. Len(files) : (k > 1 \/ ~config.rvfi_dii) => files[k].is32 = xlen32
      <3>1. LineInv /\ cmdline.next > Len(files) BY <2>1 DEF ConfigInv, AllLoaded
      <3>2. cmdline.next \in Nat /\ Len(files) \in Nat BY <3>1 DEF LineInv, files
      <3>3. \A k \in 1 .. Len(files) : k < cmdline.next
        <4> DEFINE m == Len(files)
                   n == cmdline.next
        <4>1. m \in Nat /\ n \in Nat /\ n > m BY <3>1, <3>2
        <4> HIDE DEF m, n
        <4>2. \A k \in 1 .. m : k < n BY <4>1
        <4> QED BY <4>2 DEF m, n
      <3> QED BY <2>1, <3>3, Zenon DEF FilesLoaded
    <2>4. ~config.rvfi_dii => tohost = files[1].tohost /\ tohost # 0
      BY <2>1 DEF FilesLoaded, AllLoaded
    <2> QED
      BY <2>1, <2>2, <2>3, <2>4 DEF RunningIsConfigured, SpikeConfigured, sys_enable,
         sys_pmp_count, sys_pmp_grain, plat_cache_block_size_exp
  <1> QED BY <1>1, EmulatorConfigInv, PTL
-----------------------------------------------------------------------------
(* The signature. *)

(* Quotient and remainder by a positive number. *)
LEMMA DivMod ==
  ASSUME NEW k \in Nat, NEW g \in Nat, g > 0
  PROVE  /\ k \div g \in Nat /\ k % g \in 0 .. g - 1
         /\ k = (k \div g) * g + (k % g)
  OBVIOUS

(* Multiplication by a natural number is monotonic. *)
LEMMA TimesMono ==
  ASSUME NEW m \in Nat, NEW q \in Nat, NEW g \in Nat, m <= q
  PROVE  m * g <= q * g
  <1>1. q = m + (q - m) /\ q - m \in Nat OBVIOUS
  <1>2. q * g = m * g + (q - m) * g BY <1>1
  <1>3. (q - m) * g \in Nat BY <1>1
  <1> QED BY <1>2, <1>3

(* The word of g bytes that holds byte k of a region of n bytes is one of  *)
(* the words that are written.                                             *)
LEMMA WordWritten ==
  ASSUME NEW n \in Nat, NEW g \in Nat, g > 0, NEW k \in 0 .. n - 1
  PROVE  (k \div g) + 1 \in 1 .. (n + g - 1) \div g
  <1> DEFINE q == k \div g
             r == k % g
             m == (n + g - 1) \div g
             t == (n + g - 1) % g
  <1>1. q \in Nat /\ r \in 0 .. g - 1 /\ k = q * g + r BY DivMod
  <1>2. n + g - 1 \in Nat OBVIOUS
  <1>3. m \in Nat /\ t \in 0 .. g - 1 /\ n + g - 1 = m * g + t BY <1>2, DivMod
  <1> HIDE DEF q, r, m, t
  <1>4. q + 1 <= m
    <2> SUFFICES ASSUME m <= q PROVE FALSE BY <1>1, <1>3
    <2>1. m * g <= q * g BY <1>1, <1>3, TimesMono
    <2>2. m * g \in Nat /\ q * g \in Nat BY <1>1, <1>3
    <2> QED BY <1>1, <1>3, <2>1, <2>2
  <1>5. q + 1 \in 1 .. m BY <1>1, <1>3, <1>4
  <1> QED BY <1>5 DEF q, m

(* A reader that takes the words apart finds every byte at its address. *)
LEMMA SignatureReadsBack ==
  ASSUME NEW m, NEW lo \in Nat, NEW hi \in Nat, NEW g \in Nat, g > 0,
         NEW a \in lo .. hi - 1
  PROVE  write_signature(m, lo, hi, g)[((a - lo) \div g) + 1][g - ((a - lo) % g)]
           = IF a \in Addr THEN m.mem[a] ELSE 0
  <1> DEFINE k == a - lo
             n == hi - lo
             i == (k \div g) + 1
             j == g - (k % g)
             Word(x) == [y \in 1 .. g |-> LET b == lo + ((x - 1) * g) + g - y
                                          IN  IF b \in Addr THEN m.mem[b] ELSE 0]
             last == (hi - lo + g - 1) \div g
  <1>1. n \in Nat /\ k \in 0 .. n - 1 OBVIOUS
  <1>2. i \in 1 .. last BY <1>1, WordWritten
  <1>3. /\ k \div g \in Nat /\ k % g \in 0 .. g - 1 /\ k = (k \div g) * g + (k % g)
    BY <1>1, DivMod
  <1>4. j \in 1 .. g BY <1>3
  <1>5. lo + ((i - 1) * g) + g - j = a
    <2>1. i - 1 = k \div g BY <1>3
    <2>2. (i - 1) * g = (k \div g) * g BY <2>1
    <2>3. (k \div g) * g \in Nat BY <1>3
    <2> QED BY <1>3, <2>2, <2>3
  <1>6. write_signature(m, lo, hi, g) = [x \in 1 .. last |-> Word(x)]
    BY DEF write_signature
  <1> HIDE DEF i, j, last
  <1>7. [x \in 1 .. last |-> Word(x)][i] = Word(i) BY <1>2
  <1>8. Word(i)[j] = IF a \in Addr THEN m.mem[a] ELSE 0 BY <1>4, <1>5
  <1> QED BY <1>6, <1>7, <1>8 DEF i, j

(* Both ends of the region are addresses, also of a file without symbols. *)
RegionInv == region \in Nat \X Nat

(* Only loading the main file sets the region. *)
LEMMA RegionStep ==
  ASSUME LineInv, RegionInv, [ENext]_evars
  PROVE  RegionInv'
  <1>1. CASE LoadFile
    <2>1. files[cmdline.next] \in AllFiles BY <1>1 DEF LoadFile, LineInv, files
    <2>2. region' \in {region, <<files[cmdline.next].begin_signature,
                                 files[cmdline.next].end_signature>>}
      BY <1>1 DEF LoadFile, load_sail
    <2> QED BY <2>1, <2>2, FileFacts DEF RegionInv
  <1>2. CASE UNCHANGED region BY <1>2 DEF RegionInv
  <1> QED
    BY <1>1, <1>2 DEF ENext, Progress, StartUp, ProcessOption, EndOptions, init_logs, Connect,
       init_spike, init_sail, Iterate, IterateNotStepped, LoopEnds, finish, Serve, ServeInsn,
       ServeNegotiation, ServeSetVersion, ServeEndOfTrace, ServeUnknown, EndOfFile, SocketFails,
       SailException, Client, Send, Receive, HangUp, evars, startVars

(* Only finish takes the phase "finish" on, and then the process exits. *)
LEMMA FinishExits ==
  ASSUME [ENext]_evars, phase = "finish", phase' = "exited"
  PROVE  finish
  BY DEF ENext, Progress, StartUp, ProcessOption, EndOptions, init_logs, Connect, LoadFile,
     init_spike, init_sail, Iterate, IterateNotStepped, Running, LoopEnds, Serve, ServeInsn,
     ServeNegotiation, ServeSetVersion, ServeEndOfTrace, ServeUnknown, Serving, EndOfFile,
     SocketFails, SailException, Client, Send, Receive, HangUp, evars

(* Every byte of the region is in the signature as the program left it in  *)
(* memory, for any granularity and any region, whole words or not.         *)
THEOREM EmulatorSignature == ESpec => SignatureIsFinal
  <1> DEFINE Final == (phase = "finish" /\ phase' = "exited" /\ Signs) =>
               \A a \in region[1] .. region[2] - 1 :
                 SignedByte(signature', a) = IF a \in Addr THEN mach.mem[a] ELSE 0
  <1>1. EInit => RegionInv
    <2> SUFFICES ASSUME EInit PROVE RegionInv OBVIOUS
    <2>1. region = <<0, 0>> BY DEF EInit
    <2> QED BY <2>1 DEF RegionInv
  <1>2. ConfigInv /\ RegionInv /\ [ENext]_evars => RegionInv'
    BY RegionStep DEF ConfigInv
  <1>3. ConfigInv /\ RegionInv /\ [ENext]_evars => [Final]_evars
    <2> SUFFICES ASSUME ConfigInv, RegionInv, [ENext]_evars,
                        phase = "finish", phase' = "exited", Signs,
                        NEW a \in region[1] .. region[2] - 1
                 PROVE  SignedByte(signature', a) = IF a \in Addr THEN mach.mem[a] ELSE 0
      OBVIOUS
    <2>1. finish BY FinishExits
    <2>2. config.granularity > 0 BY <2>1 DEF finish
    <2>3. config.granularity \in Nat
      <3>1. config \in Settings BY DEF ConfigInv, SettingsOK
      <3>2. config.granularity \in Int BY <3>1 DEF Settings
      <3> QED BY <2>2, <3>2
    <2>4. region[1] \in Nat /\ region[2] \in Nat BY DEF RegionInv
    <2>5. signature' = write_signature(mach, region[1], region[2], config.granularity)
      BY <2>1 DEF finish
    <2>6. write_signature(mach, region[1], region[2], config.granularity)
            [((a - region[1]) \div config.granularity) + 1]
            [config.granularity - ((a - region[1]) % config.granularity)]
            = IF a \in Addr THEN mach.mem[a] ELSE 0
      <3> DEFINE lo == region[1]
                 hi == region[2]
                 g  == config.granularity
      <3>1. lo \in Nat /\ hi \in Nat /\ g \in Nat /\ g > 0 /\ a \in lo .. hi - 1
        BY <2>2, <2>3, <2>4
      <3> HIDE DEF lo, hi, g
      <3>2. write_signature(mach, lo, hi, g)[((a - lo) \div g) + 1][g - ((a - lo) % g)]
              = IF a \in Addr THEN mach.mem[a] ELSE 0
        BY <3>1, SignatureReadsBack, Zenon
      <3> QED BY <3>2, Zenon DEF lo, hi, g
    <2> QED BY <2>5, <2>6, Zenon DEF SignedByte
  <1> QED BY <1>1, <1>2, <1>3, EmulatorConfigInv, Safety, PTL DEF SignatureIsFinal
-----------------------------------------------------------------------------
(* The replies of the RVFI-DII server. *)

IsSeq(s) == \E S : s \in Seq(S)

(* The elements of a sequence with one more. *)
LEMMA AppendFacts ==
  ASSUME NEW s, IsSeq(s), NEW e
  PROVE  /\ IsSeq(Append(s, e)) /\ Len(s) \in Nat /\ Len(Append(s, e)) = Len(s) + 1
         /\ \A k \in 1 .. Len(s) : Append(s, e)[k] = s[k]
         /\ Append(s, e)[Len(s) + 1] = e
  <1>1. PICK S : s \in Seq(S) BY DEF IsSeq
  <1>2. s \in Seq(S \cup {e}) BY <1>1, SeqMono
  <1>3. Append(s, e) \in Seq(S \cup {e}) BY <1>2
  <1>4. IsSeq(Append(s, e)) BY <1>3 DEF IsSeq
  <1> QED BY <1>2, <1>4

(* The elements of a sequence without its first. *)
LEMMA TailFacts ==
  ASSUME NEW s, IsSeq(s), s # <<>>
  PROVE  /\ IsSeq(Tail(s)) /\ Len(s) \in Nat \ {0} /\ Len(Tail(s)) = Len(s) - 1
         /\ \A k \in 1 .. Len(s) - 1 : Tail(s)[k] = s[k + 1]
  <1>1. PICK S : s \in Seq(S) BY DEF IsSeq
  <1>2. Tail(s) \in Seq(S) BY <1>1
  <1>3. IsSeq(Tail(s)) BY <1>2 DEF IsSeq
  <1> QED BY <1>1, <1>3

(* Appending no reply, or one. *)
LEMMA LenFact ==
  ASSUME NEW s, IsSeq(s)
  PROVE  Len(s) \in Nat /\ s \o <<>> = s /\ \A e : s \o <<e>> = Append(s, e)
  <1>1. PICK S : s \in Seq(S) BY DEF IsSeq
  <1>2. Len(s) \in Nat /\ s \o <<>> = s BY <1>1
  <1>3. ASSUME NEW e PROVE s \o <<e>> = Append(s, e)
    <2>1. s \in Seq(S \cup {e}) BY <1>1, SeqMono
    <2>2. <<e>> \in Seq(S \cup {e}) OBVIOUS
    <2> QED BY <2>1, <2>2
  <1> QED BY <1>2, <1>3

(* What a command does to a machine and to the trace version, and what is  *)
(* sent for it.                                                            *)
Answerable(c) == c.cmd \in {"insn", "end", "VERS"} \/ (c.cmd = "v" /\ c.insn # 3)

NextMach(m, c) == CASE c.cmd = "insn" -> Execute(m, c.insn).mach
                    [] c.cmd = "end"  -> NewMachine
                    [] OTHER -> m

NextVersion(v, c) == IF c.cmd = "v" /\ c.insn # 3 THEN c.insn ELSE v

ReplyTo(m, v, c) ==
  CASE c.cmd = "insn" -> rvfi_send_trace(v, Recorded(NoData, Execute(m, c.insn)))
    [] c.cmd = "end"  -> rvfi_send_trace(v, [NoData EXCEPT !.halt = TRUE])
    [] c.cmd = "VERS" -> v2_support_packet
    [] OTHER -> version_response(c.insn)

(* The commands cs take machine m and version v to M and V through the     *)
(* machines ms and the versions vs, and w holds what they are answered     *)
(* with, after the first n replies, up to the first command that has no    *)
(* answer.                                                                 *)
Through(ms, vs, cs, m, v, M, V) ==
  /\ ms[1] = m /\ vs[1] = v /\ ms[Len(cs) + 1] = M /\ vs[Len(cs) + 1] = V
  /\ \A i \in 1 .. Len(cs) : /\ ms[i + 1] = NextMach(ms[i], cs[i])
                             /\ vs[i + 1] = NextVersion(vs[i], cs[i])

Awaits(ms, vs, cs, n, w) ==
  /\ \A i \in 1 .. Len(cs) :
       (\A j \in 1 .. i : Answerable(cs[j])) =>
          n + i <= Len(w) /\ w[n + i] = ReplyTo(ms[i], vs[i], cs[i])
  /\ (\A j \in 1 .. Len(cs) : Answerable(cs[j])) => Len(w) = n + Len(cs)

Session(cs, m, v, M, V, n, w) ==
  \E ms, vs : Through(ms, vs, cs, m, v, M, V) /\ Awaits(ms, vs, cs, n, w)

(* An empty socket: the two ends agree. *)
LEMMA SessionStarts ==
  ASSUME NEW m, NEW v
  PROVE  Session(<<>>, m, v, m, v, 0, <<>>)
  <1> DEFINE ms == [k \in {1} |-> m]
             vs == [k \in {1} |-> v]
  <1>1. Through(ms, vs, <<>>, m, v, m, v) BY DEF Through
  <1>2. Awaits(ms, vs, <<>>, 0, <<>>) BY DEF Awaits
  <1> QED BY <1>1, <1>2 DEF Session

(* Serving the first command leaves a session for the others. *)
LEMMA SessionServed ==
  ASSUME NEW cs, IsSeq(cs), cs # <<>>, NEW m, NEW v, NEW M, NEW V, NEW n \in Nat,
         NEW w, IsSeq(w), Session(cs, m, v, M, V, n, w), Answerable(cs[1])
  PROVE  /\ Session(Tail(cs), NextMach(m, cs[1]), NextVersion(v, cs[1]), M, V, n + 1, w)
         /\ n + 1 <= Len(w) /\ w[n + 1] = ReplyTo(m, v, cs[1])
  <1>1. PICK ms, vs : Through(ms, vs, cs, m, v, M, V) /\ Awaits(ms, vs, cs, n, w)
    BY DEF Session
  <1> DEFINE L  == Len(cs)
             ds == Tail(cs)
             mt == [k \in 1 .. L |-> ms[k + 1]]
             vt == [k \in 1 .. L |-> vs[k + 1]]
  <1>2. L \in Nat \ {0} /\ Len(ds) = L - 1 /\ \A k \in 1 .. L - 1 : ds[k] = cs[k + 1]
    BY TailFacts
  <1>3. n + 1 <= Len(w) /\ w[n + 1] = ReplyTo(m, v, cs[1])
    <2>1. \A j \in 1 .. 1 : Answerable(cs[j]) OBVIOUS
    <2> QED BY <1>1, <1>2, <2>1 DEF Awaits, Through
  <1> HIDE DEF ds
  <1>4. Through(mt, vt, ds, NextMach(m, cs[1]), NextVersion(v, cs[1]), M, V)
    <2>1. /\ ms[2] = NextMach(m, cs[1]) /\ vs[2] = NextVersion(v, cs[1])
          /\ ms[L + 1] = M /\ vs[L + 1] = V
      BY <1>1, <1>2 DEF Through
    <2>2. ASSUME NEW i \in 1 .. L - 1
          PROVE  /\ mt[i + 1] = NextMach(mt[i], ds[i]) /\ vt[i + 1] = NextVersion(vt[i], ds[i])
      <3>1. i + 1 \in 1 .. L /\ i \in 1 .. L BY <1>2
      <3>2. ms[(i + 1) + 1] = NextMach(ms[i + 1], cs[i + 1])
            /\ vs[(i + 1) + 1] = NextVersion(vs[i + 1], cs[i + 1])
        BY <1>1, <3>1 DEF Through
      <3> QED BY <1>2, <3>1, <3>2
    <2>3. mt[1] = ms[2] /\ vt[1] = vs[2] /\ mt[L] = ms[L + 1] /\ vt[L] = vs[L + 1]
      BY <1>2
    <2>4. Len(ds) + 1 = L BY <1>2
    <2> QED BY <1>2, <2>1, <2>2, <2>3, <2>4 DEF Through
  <1>5. Awaits(mt, vt, ds, n + 1, w)
    <2>1. ASSUME NEW i \in 1 .. L - 1, \A j \in 1 .. i : Answerable(ds[j])
          PROVE  \A j \in 1 .. i + 1 : Answerable(cs[j])
      <3> SUFFICES ASSUME NEW j \in 1 .. i + 1, j # 1 PROVE Answerable(cs[j]) OBVIOUS
      <3>1. j - 1 \in 1 .. i /\ j - 1 \in 1 .. L - 1 BY <1>2
      <3>2. ds[j - 1] = cs[j] BY <1>2, <3>1
      <3> QED BY <2>1, <3>1, <3>2
    <2>2. ASSUME NEW i \in 1 .. L - 1, \A j \in 1 .. i : Answerable(ds[j])
          PROVE  (n + 1) + i <= Len(w) /\ w[(n + 1) + i] = ReplyTo(mt[i], vt[i], ds[i])
      <3>1. i + 1 \in 1 .. L /\ i \in 1 .. L /\ n + (i + 1) = (n + 1) + i BY <1>2
      <3>2. \A j \in 1 .. i + 1 : Answerable(cs[j]) BY <2>1, <2>2
      <3>3. n + (i + 1) <= Len(w) /\ w[n + (i + 1)] = ReplyTo(ms[i + 1], vs[i + 1], cs[i + 1])
        BY <1>1, <3>1, <3>2 DEF Awaits
      <3> QED BY <1>2, <3>1, <3>3
    <2>3. ASSUME \A j \in 1 .. L - 1 : Answerable(ds[j])
          PROVE  Len(w) = (n + 1) + (L - 1)
      <3>1. \A j \in 1 .. L : Answerable(cs[j])
        <4> SUFFICES ASSUME NEW j \in 1 .. L, j # 1 PROVE Answerable(cs[j]) OBVIOUS
        <4>1. j - 1 \in 1 .. L - 1 BY <1>2
        <4>2. ds[j - 1] = cs[j] BY <1>2, <4>1
        <4> QED BY <2>3, <4>1, <4>2
      <3>2. Len(w) = n + L BY <1>1, <3>1 DEF Awaits
      <3> QED BY <1>2, <3>2
    <2> QED BY <1>2, <2>2, <2>3 DEF Awaits
  <1>6. Session(ds, NextMach(m, cs[1]), NextVersion(v, cs[1]), M, V, n + 1, w)
    BY <1>4, <1>5 DEF Session
  <1> QED BY <1>3, <1>6 DEF ds

(* Sending a command makes the session longer. *)
LEMMA SessionSent ==
  ASSUME NEW cs, IsSeq(cs), NEW c, NEW m, NEW v, NEW M, NEW V, NEW n \in Nat,
         NEW w, IsSeq(w), Session(cs, m, v, M, V, n, w),
         NEW x, x = IF Answerable(c) THEN Append(w, ReplyTo(M, V, c)) ELSE w
  PROVE  Session(Append(cs, c), m, v, NextMach(M, c), NextVersion(V, c), n, x)
  <1>1. PICK ms, vs : Through(ms, vs, cs, m, v, M, V) /\ Awaits(ms, vs, cs, n, w)
    BY DEF Session
  <1> DEFINE L  == Len(cs)
             ds == Append(cs, c)
             mt == [k \in 1 .. L + 2 |-> IF k = L + 2 THEN NextMach(M, c) ELSE ms[k]]
             vt == [k \in 1 .. L + 2 |-> IF k = L + 2 THEN NextVersion(V, c) ELSE vs[k]]
  <1>2. /\ L \in Nat /\ Len(ds) = L + 1 /\ ds[L + 1] = c
        /\ \A k \in 1 .. L : ds[k] = cs[k]
    BY AppendFacts
  <1>3. /\ Len(w) \in Nat /\ Len(w) <= Len(x) /\ \A k \in 1 .. Len(w) : x[k] = w[k]
    BY AppendFacts, LenFact
  <1> HIDE DEF ds
  <1>4. /\ \A k \in 1 .. L + 1 : mt[k] = ms[k] /\ vt[k] = vs[k]
        /\ mt[L + 2] = NextMach(M, c) /\ vt[L + 2] = NextVersion(V, c)
    BY <1>2
  <1> HIDE DEF mt, vt
  <1>5. ms[L + 1] = M /\ vs[L + 1] = V /\ ms[1] = m /\ vs[1] = v BY <1>1 DEF Through
  <1>6. Through(mt, vt, ds, m, v, NextMach(M, c), NextVersion(V, c))
    <2>1. ASSUME NEW i \in 1 .. L + 1
          PROVE  /\ mt[i + 1] = NextMach(mt[i], ds[i]) /\ vt[i + 1] = NextVersion(vt[i], ds[i])
      <3>1. CASE i = L + 1
        <4>1. mt[i] = M /\ vt[i] = V /\ ds[i] = c BY <1>2, <1>4, <1>5, <3>1
        <4>2. i + 1 = L + 2 BY <1>2, <3>1
        <4> QED BY <1>4, <4>1, <4>2
      <3>2. CASE i # L + 1
        <4>1. i \in 1 .. L /\ i + 1 \in 1 .. L + 1 BY <1>2, <3>2
        <4>2. ms[i + 1] = NextMach(ms[i], cs[i]) /\ vs[i + 1] = NextVersion(vs[i], cs[i])
          BY <1>1, <4>1 DEF Through
        <4> QED BY <1>2, <1>4, <4>1, <4>2
      <3> QED BY <3>1, <3>2
    <2>2. mt[1] = m /\ vt[1] = v BY <1>2, <1>4, <1>5
    <2>3. Len(ds) + 1 = L + 2 BY <1>2
    <2> QED BY <1>2, <1>4, <2>1, <2>2, <2>3 DEF Through
  <1>7. Awaits(mt, vt, ds, n, x)
    <2>1. ASSUME NEW i \in 1 .. L, \A j \in 1 .. i : Answerable(ds[j])
          PROVE  n + i <= Len(x) /\ x[n + i] = ReplyTo(mt[i], vt[i], ds[i])
      <3>1. \A j \in 1 .. i : Answerable(cs[j]) BY <1>2, <2>1
      <3>2. n + i <= Len(w) /\ w[n + i] = ReplyTo(ms[i], vs[i], cs[i])
        BY <1>1, <3>1 DEF Awaits
      <3>3. Len(x) \in Nat BY AppendFacts, LenFact
      <3>4. n + i \in 1 .. Len(w) /\ n + i <= Len(x) BY <1>2, <1>3, <3>2, <3>3
      <3>5. mt[i] = ms[i] /\ vt[i] = vs[i] /\ ds[i] = cs[i] BY <1>2, <1>4
      <3>6. x[n + i] = w[n + i] BY <1>3, <3>4
      <3> QED BY <3>2, <3>4, <3>5, <3>6
    <2>2. ASSUME \A j \in 1 .. L + 1 : Answerable(ds[j])
          PROVE  /\ Len(x) = n + (L + 1)
                 /\ x[n + (L + 1)] = ReplyTo(mt[L + 1], vt[L + 1], ds[L + 1])
      <3>1. (\A j \in 1 .. L : Answerable(cs[j])) /\ Answerable(c) BY <1>2, <2>2
      <3>2. Len(w) = n + L BY <1>1, <3>1 DEF Awaits
      <3>3. x = Append(w, ReplyTo(M, V, c)) BY <3>1
      <3>4. Len(x) = Len(w) + 1 /\ x[Len(w) + 1] = ReplyTo(M, V, c) BY <3>3, AppendFacts
      <3>5. Len(w) + 1 = n + (L + 1) BY <1>2, <3>2
      <3>6. mt[L + 1] = M /\ vt[L + 1] = V BY <1>2, <1>4, <1>5
      <3> QED BY <1>2, <3>4, <3>5, <3>6
    <2>3. ASSUME NEW i \in 1 .. L + 1, \A j \in 1 .. i : Answerable(ds[j])
          PROVE  n + i <= Len(x) /\ x[n + i] = ReplyTo(mt[i], vt[i], ds[i])
      <3>1. CASE i \in 1 .. L BY <2>1, <2>3, <3>1
      <3>2. CASE i = L + 1
        <4>1. Len(x) = n + i /\ x[n + i] = ReplyTo(mt[i], vt[i], ds[i]) BY <2>2, <2>3, <3>2
        <4> QED BY <1>2, <3>2, <4>1
      <3>3. i \in 1 .. L \/ i = L + 1 BY <1>2
      <3> QED BY <3>1, <3>2, <3>3
    <2> QED BY <1>2, <2>2, <2>3 DEF Awaits
  <1>8. Session(ds, m, v, NextMach(M, c), NextVersion(V, c), n, x)
    BY <1>6, <1>7 DEF Session
  <1> QED BY <1>8 DEF ds

(* Receiving a reply takes it off both sides. *)
LEMMA SessionReceived ==
  ASSUME NEW cs, IsSeq(cs), NEW m, NEW v, NEW M, NEW V, NEW n \in Nat \ {0},
         NEW w, IsSeq(w), w # <<>>, Session(cs, m, v, M, V, n, w)
  PROVE  Session(cs, m, v, M, V, n - 1, Tail(w))
  <1>1. PICK ms, vs : Through(ms, vs, cs, m, v, M, V) /\ Awaits(ms, vs, cs, n, w)
    BY DEF Session
  <1> DEFINE x == Tail(w)
  <1>2. /\ Len(w) \in Nat \ {0} /\ Len(x) = Len(w) - 1
        /\ \A k \in 1 .. Len(w) - 1 : x[k] = w[k + 1]
    BY TailFacts
  <1>3. Len(cs) \in Nat BY LenFact
  <1> HIDE DEF x
  <1>4. Awaits(ms, vs, cs, n - 1, x)
    <2>1. ASSUME NEW i \in 1 .. Len(cs), \A j \in 1 .. i : Answerable(cs[j])
          PROVE  (n - 1) + i <= Len(x) /\ x[(n - 1) + i] = ReplyTo(ms[i], vs[i], cs[i])
      <3>1. n + i <= Len(w) /\ w[n + i] = ReplyTo(ms[i], vs[i], cs[i])
        BY <1>1, <2>1 DEF Awaits
      <3>2. (n - 1) + i \in 1 .. Len(w) - 1 /\ ((n - 1) + i) + 1 = n + i
        BY <1>2, <1>3, <3>1
      <3>3. x[(n - 1) + i] = w[n + i] BY <1>2, <3>2
      <3> QED BY <1>2, <3>1, <3>2, <3>3
    <2>2. ASSUME \A j \in 1 .. Len(cs) : Answerable(cs[j])
          PROVE  Len(x) = (n - 1) + Len(cs)
      <3>1. Len(w) = n + Len(cs) BY <1>1, <2>2 DEF Awaits
      <3> QED BY <1>2, <1>3, <3>1
    <2> QED BY <2>1, <2>2 DEF Awaits
  <1> QED BY <1>1, <1>4 DEF Session, x

(* A machine as the end of a trace leaves it, if no LR came before. *)
Unreserved(m) == m = [mem |-> m.mem, reservation |-> NoReservation]

(* Only LR makes a reservation, so that without one model_fini gives the   *)
(* machine that a client expects at the start of a trace.                  *)
LEMMA UnreservedFacts ==
  /\ Unreserved(NewMachine)
  /\ \A m : Unreserved(m) => model_fini(m) = NewMachine
  /\ \A m, i : (Unreserved(m) /\ i \in Insn /\ i.op # "lr") => Unreserved(Execute(m, i).mach)
  <1>1. Unreserved(NewMachine) BY DEF Unreserved, NewMachine
  <1>2. ASSUME NEW m, Unreserved(m) PROVE model_fini(m) = NewMachine
    BY <1>2 DEF Unreserved, model_fini, NewMachine
  <1>3. ASSUME NEW m, NEW i \in Insn, Unreserved(m), i.op # "lr"
        PROVE  Unreserved(Execute(m, i).mach)
    <2>1. i.op \in {"alu", "illegal", "unfetched", "load", "store", "sc"} BY <1>3 DEF Insn
    <2>2. CASE i.op \in {"alu", "illegal", "unfetched"}
      BY <1>3, <2>2 DEF Execute, Result
    <2>3. CASE i.op = "load"
      <3>1. Execute(m, i) = mem_read(m, i.addr) BY <2>3 DEF Execute
      <3> QED BY <1>3, <3>1 DEF mem_read, AccessFault, Result
    <2>4. CASE i.op = "store"
      <3>1. Execute(m, i) = mem_write(m, i.addr, i.val) BY <2>4 DEF Execute
      <3>2. Execute(m, i).mach \in {m, [m EXCEPT !.mem[i.addr] = i.val]}
        BY <3>1 DEF mem_write, AccessFault, Result
      <3> QED BY <1>3, <3>2 DEF Unreserved
    <2>5. CASE i.op = "sc"
      <3>1. Execute(m, i) = StoreConditional(m, i.addr, i.val) BY <2>5 DEF Execute
      <3>2. ~match_reservation(m, i.addr) BY <1>3 DEF Unreserved, match_reservation
      <3>3. Execute(m, i).mach = cancel_reservation(m)
        BY <3>1, <3>2 DEF StoreConditional, Result
      <3> QED BY <1>3, <3>3 DEF cancel_reservation, Unreserved
    <2> QED BY <2>1, <2>2, <2>3, <2>4, <2>5
  <1> QED BY <1>1, <1>2, <1>3

(* The two ends of the socket. *)
SocketOK ==
  /\ socket = [cmds |-> socket.cmds, replies |-> socket.replies, hung |-> socket.hung]
  /\ client = [version |-> client.version, mach |-> client.mach, want |-> client.want,
               sent |-> client.sent]
  /\ socket.cmds \in Seq(Command) /\ IsSeq(socket.replies) /\ IsSeq(client.want)

SessionNow ==
  Session(socket.cmds, mach, rvfi_trace_version, client.mach, client.version,
          Len(socket.replies), client.want)

Idle ==
  /\ socket.cmds = <<>> /\ socket.replies = <<>> /\ client.want = <<>>
  /\ client.mach = NewMachine /\ client.version = rvfi_trace_version

RepliesInv ==
  /\ SocketOK /\ RepliesMatch
  /\ phase \in {"args", "logs", "load", "init"} => Idle
  /\ (phase \in {"args", "logs"} \/ (phase \in {"load", "init"} /\ config.rvfi_dii)) =>
       mach = NewMachine
  /\ (phase = "running" /\ config.rvfi_dii) => Unreserved(mach) /\ SessionNow

(* An RVFI session starts on an empty memory and leaves no reservation. *)
SessionsStartFresh ==
  /\ \A i \in ClientInsns : i.op # "lr"
  /\ \A l \in CmdLines : l.build = "rvfi" => Len(l.files) <= 1

FewFiles == build = "rvfi" => Len(files) <= 1

(* The kinds of command, and what the instruction field of each holds. *)
LEMMA CommandFacts ==
  ASSUME NEW c \in Command
  PROVE  /\ c.cmd \in {"insn", "end", "VERS", "unknown", "v"}
         /\ c.cmd = "insn" => c.insn \in ClientInsns
         /\ c.cmd = "v" => c.insn \in 1 .. 3
  BY DEF Command

(* Serving a command: the reply is the one waited for. *)
LEMMA Served ==
  ASSUME SocketOK, RepliesMatch, SessionNow, socket.cmds # <<>>, Answerable(Cmd),
         Answer(ReplyTo(mach, rvfi_trace_version, Cmd)), client' = client,
         mach' = NextMach(mach, Cmd),
         rvfi_trace_version' = NextVersion(rvfi_trace_version, Cmd)
  PROVE  SocketOK' /\ RepliesMatch' /\ SessionNow'
  <1> DEFINE r == ReplyTo(mach, rvfi_trace_version, Cmd)
             n == Len(socket.replies)
  <1>1. /\ socket'.cmds = Tail(socket.cmds) /\ socket'.replies = Append(socket.replies, r)
        /\ socket' = [cmds |-> socket'.cmds, replies |-> socket'.replies, hung |-> socket'.hung]
    BY DEF Answer, SocketOK
  <1>2. IsSeq(socket.cmds) /\ IsSeq(socket.replies) /\ IsSeq(client.want)
    BY DEF SocketOK, IsSeq
  <1>3. Cmd = socket.cmds[1] BY DEF SocketOK, Cmd
  <1>4. n \in Nat BY <1>2, LenFact
  <1>5. /\ Session(Tail(socket.cmds), mach', rvfi_trace_version', client.mach, client.version,
                   n + 1, client.want)
        /\ n + 1 <= Len(client.want) /\ client.want[n + 1] = r
    BY <1>2, <1>3, <1>4, SessionServed DEF SessionNow
  <1> HIDE DEF r
  <1>6. /\ IsSeq(socket'.replies) /\ Len(socket'.replies) = n + 1
        /\ \A k \in 1 .. n : socket'.replies[k] = socket.replies[k]
        /\ socket'.replies[n + 1] = r
    BY <1>1, <1>2, AppendFacts
  <1>7. SocketOK'
    <2>1. Tail(socket.cmds) \in Seq(Command) BY DEF SocketOK
    <2> QED BY <1>1, <1>6, <2>1 DEF SocketOK
  <1>8. RepliesMatch'
    <2>1. \A k \in 1 .. n : socket.replies[k] = client.want[k] BY DEF RepliesMatch
    <2>2. \A k \in 1 .. n + 1 : socket'.replies[k] = client.want[k] BY <1>4, <1>5, <1>6, <2>1
    <2> QED BY <1>5, <1>6, <2>2 DEF RepliesMatch
  <1>9. SessionNow' BY <1>1, <1>5, <1>6 DEF SessionNow
  <1> QED BY <1>7, <1>8, <1>9

(* Each of the four commands that have an answer. *)
LEMMA ServeStep ==
  ASSUME SessionsStartFresh, RepliesInv,
         ServeInsn \/ ServeNegotiation \/ ServeSetVersion \/ ServeEndOfTrace
  PROVE  RepliesInv'
  <1>1. /\ phase = "running" /\ config.rvfi_dii /\ socket.cmds # <<>>
        /\ UNCHANGED <<phase, config, client>>
    BY DEF ServeInsn, ServeNegotiation, ServeSetVersion, ServeEndOfTrace, Serving, startVars
  <1>2. SocketOK /\ RepliesMatch /\ SessionNow /\ Unreserved(mach) BY <1>1 DEF RepliesInv
  <1>3. Cmd \in Command BY <1>1, <1>2 DEF SocketOK, Cmd
  <1>4. /\ Answerable(Cmd) /\ mach' = NextMach(mach, Cmd)
        /\ rvfi_trace_version' = NextVersion(rvfi_trace_version, Cmd)
        /\ Answer(ReplyTo(mach, rvfi_trace_version, Cmd)) /\ Unreserved(mach')
    <2>1. CASE ServeInsn
      <3>1. /\ Cmd.cmd = "insn" /\ mach' = Execute(mach, Cmd.insn).mach
            /\ packet' = Recorded(NoData, Execute(mach, Cmd.insn))
            /\ Answer(rvfi_send_trace(rvfi_trace_version, packet'))
            /\ rvfi_trace_version' = rvfi_trace_version
        BY <2>1 DEF ServeInsn, rvfi_zero_exec_packet
      <3>2. Cmd.insn \in Insn /\ Cmd.insn.op # "lr"
        BY <1>3, <3>1, CommandFacts, EmulatorAssumption DEF SessionsStartFresh
      <3>3. Unreserved(mach') BY <1>2, <3>1, <3>2, UnreservedFacts
      <3>4. ReplyTo(mach, rvfi_trace_version, Cmd) = rvfi_send_trace(rvfi_trace_version, packet')
        BY <3>1 DEF ReplyTo
      <3> QED BY <3>1, <3>3, <3>4 DEF Answerable, NextMach, NextVersion
    <2>2. CASE ServeNegotiation
      <3>1. /\ Cmd.cmd = "VERS" /\ mach' = mach /\ Answer(v2_support_packet)
            /\ rvfi_trace_version' = rvfi_trace_version
        BY <2>2 DEF ServeNegotiation
      <3>2. ReplyTo(mach, rvfi_trace_version, Cmd) = v2_support_packet BY <3>1 DEF ReplyTo
      <3> QED BY <1>2, <3>1, <3>2 DEF Answerable, NextMach, NextVersion
    <2>3. CASE ServeSetVersion
      <3>1. /\ Cmd.cmd = "v" /\ Cmd.insn # 3 /\ mach' = mach
            /\ Answer(version_response(Cmd.insn)) /\ rvfi_trace_version' = Cmd.insn
        BY <2>3 DEF ServeSetVersion
      <3>2. ReplyTo(mach, rvfi_trace_version, Cmd) = version_response(Cmd.insn)
        BY <3>1 DEF ReplyTo
      <3> QED BY <1>2, <3>1, <3>2 DEF Answerable, NextMach, NextVersion
    <2>4. CASE ServeEndOfTrace
      <3>1. /\ Cmd.cmd = "end" /\ mach' = model_fini(mach)
            /\ Answer(rvfi_send_trace(rvfi_trace_version, [NoData EXCEPT !.halt = TRUE]))
            /\ rvfi_trace_version' = rvfi_trace_version
        BY <2>4 DEF ServeEndOfTrace, reinit_sail, rvfi_zero_exec_packet, rvfi_halt_exec_packet
      <3>2. mach' = NewMachine /\ Unreserved(mach') BY <1>2, <3>1, UnreservedFacts
      <3>3. ReplyTo(mach, rvfi_trace_version, Cmd)
              = rvfi_send_trace(rvfi_trace_version, [NoData EXCEPT !.halt = TRUE])
        BY <3>1 DEF ReplyTo
      <3> QED BY <3>1, <3>2, <3>3 DEF Answerable, NextMach, NextVersion
    <2> QED BY <2>1, <2>2, <2>3, <2>4
  <1>5. SocketOK' /\ RepliesMatch' /\ SessionNow' BY <1>1, <1>2, <1>4, Served
  <1> QED BY <1>1, <1>4, <1>5 DEF RepliesInv

(* The client extends the session and what it waits for together. *)
LEMMA SendStep ==
  ASSUME RepliesInv, NEW c \in Command, Send(c)
  PROVE  RepliesInv'
  <1>1. /\ phase = "running" /\ config.rvfi_dii
        /\ UNCHANGED <<phase, config, mach, rvfi_trace_version>>
    BY DEF Send, startVars
  <1>2. SocketOK /\ RepliesMatch /\ SessionNow /\ Unreserved(mach) BY <1>1 DEF RepliesInv
  <1>3. c.cmd \in {"insn", "end", "VERS", "unknown", "v"} BY CommandFacts
  <1>4. IsSeq(socket.cmds) /\ IsSeq(socket.replies) /\ IsSeq(client.want)
        /\ Len(socket.replies) \in Nat
    BY <1>2, LenFact DEF SocketOK, IsSeq
  <1>5. /\ socket'.cmds = Append(socket.cmds, c) /\ socket'.replies = socket.replies
        /\ socket' = [cmds |-> socket'.cmds, replies |-> socket'.replies, hung |-> socket'.hung]
    BY <1>2 DEF Send, SocketOK
  <1>6. /\ client'.mach = NextMach(client.mach, c)
        /\ client'.version = NextVersion(client.version, c)
        /\ client'.want = client.want \o Expected(c)
        /\ client' = [version |-> client'.version, mach |-> client'.mach, want |-> client'.want,
                      sent |-> client'.sent]
    BY DEF Send, NextMach, NextVersion
  <1>7. client'.want = IF Answerable(c)
                       THEN Append(client.want, ReplyTo(client.mach, client.version, c))
                       ELSE client.want
    <2>1. Expected(c) = IF Answerable(c) THEN <<ReplyTo(client.mach, client.version, c)>>
                        ELSE <<>>
      <3>1. CASE c.cmd = "insn" BY <3>1 DEF Expected, Answerable, ReplyTo
      <3>2. CASE c.cmd = "end" BY <3>2 DEF Expected, Answerable, ReplyTo
      <3>3. CASE c.cmd = "VERS" BY <3>3 DEF Expected, Answerable, ReplyTo
      <3>4. CASE c.cmd = "unknown" BY <3>4 DEF Expected, Answerable
      <3>5. CASE c.cmd = "v" BY <3>5 DEF Expected, Answerable, ReplyTo
      <3> QED BY <1>3, <3>1, <3>2, <3>3, <3>4, <3>5
    <2> QED BY <1>4, <1>6, <2>1, LenFact
  <1>8. SessionNow'
    <2>1. Session(Append(socket.cmds, c), mach, rvfi_trace_version, client'.mach,
                  client'.version, Len(socket.replies), client'.want)
      BY <1>2, <1>4, <1>6, <1>7, SessionSent DEF SessionNow
    <2> QED BY <1>1, <1>5, <2>1 DEF SessionNow
  <1>9. /\ IsSeq(client'.want) /\ Len(client.want) <= Len(client'.want)
        /\ Len(client.want) \in Nat /\ Len(client'.want) \in Nat
        /\ \A k \in 1 .. Len(client.want) : client'.want[k] = client.want[k]
    BY <1>4, <1>7, AppendFacts, LenFact
  <1>10. RepliesMatch'
    <2>1. /\ Len(socket.replies) <= Len(client.want)
          /\ \A k \in 1 .. Len(socket.replies) : socket.replies[k] = client.want[k]
      BY <1>2 DEF RepliesMatch
    <2>2. Len(socket.replies) <= Len(client'.want) BY <1>4, <1>9, <2>1
    <2>3. \A k \in 1 .. Len(socket.replies) : socket.replies[k] = client'.want[k]
      BY <1>4, <1>9, <2>1
    <2> QED BY <1>5, <2>2, <2>3 DEF RepliesMatch
  <1>11. SocketOK'
    <2>1. Append(socket.cmds, c) \in Seq(Command) BY <1>2 DEF SocketOK
    <2> QED BY <1>4, <1>5, <1>6, <1>9, <2>1 DEF SocketOK
  <1> QED BY <1>1, <1>2, <1>8, <1>10, <1>11 DEF RepliesInv

(* A reply that is received leaves both ends in step. *)
LEMMA ReceiveStep ==
  ASSUME RepliesInv, Receive
  PROVE  RepliesInv'
  <1>1. /\ socket.replies # <<>> /\ client.want # <<>>
        /\ UNCHANGED <<phase, config, mach, rvfi_trace_version>>
    BY DEF Receive, startVars
  <1>2. /\ socket'.cmds = socket.cmds /\ socket'.replies = Tail(socket.replies)
        /\ socket' = [cmds |-> socket'.cmds, replies |-> socket'.replies, hung |-> socket'.hung]
    BY DEF Receive, RepliesInv, SocketOK
  <1>3. /\ client'.mach = client.mach /\ client'.version = client.version
        /\ client'.want = Tail(client.want)
        /\ client' = [version |-> client'.version, mach |-> client'.mach, want |-> client'.want,
                      sent |-> client'.sent]
    BY DEF Receive, RepliesInv, SocketOK
  <1>4. IsSeq(socket.cmds) /\ IsSeq(socket.replies) /\ IsSeq(client.want)
    BY DEF RepliesInv, SocketOK, IsSeq
  <1>5. /\ IsSeq(socket'.replies) /\ Len(socket.replies) \in Nat \ {0}
        /\ Len(socket'.replies) = Len(socket.replies) - 1
        /\ \A k \in 1 .. Len(socket.replies) - 1 : socket'.replies[k] = socket.replies[k + 1]
    BY <1>1, <1>2, <1>4, TailFacts
  <1>6. /\ IsSeq(client'.want) /\ Len(client.want) \in Nat \ {0}
        /\ Len(client'.want) = Len(client.want) - 1
        /\ \A k \in 1 .. Len(client.want) - 1 : client'.want[k] = client.want[k + 1]
    BY <1>1, <1>3, <1>4, TailFacts
  <1>7. SocketOK' BY <1>2, <1>3, <1>5, <1>6 DEF RepliesInv, SocketOK
  <1>8. RepliesMatch'
    <2>1. /\ Len(socket.replies) <= Len(client.want)
          /\ \A k \in 1 .. Len(socket.replies) : socket.replies[k] = client.want[k]
      BY DEF RepliesInv, RepliesMatch
    <2>2. Len(socket'.replies) <= Len(client'.want) BY <1>5, <1>6, <2>1
    <2>3. ASSUME NEW k \in 1 .. Len(socket'.replies)
          PROVE  socket'.replies[k] = client'.want[k]
      <3>1. /\ k \in 1 .. Len(socket.replies) - 1 /\ k \in 1 .. Len(client.want) - 1
            /\ k + 1 \in 1 .. Len(socket.replies)
        BY <1>5, <1>6, <2>1
      <3> QED BY <1>5, <1>6, <2>1, <3>1
    <2> QED BY <2>2, <2>3 DEF RepliesMatch
  <1>9. ~Idle BY <1>1 DEF Idle
  <1>10. SessionNow => SessionNow'
    <2> SUFFICES ASSUME SessionNow PROVE SessionNow' OBVIOUS
    <2>1. Session(socket.cmds, mach, rvfi_trace_version, client.mach, client.version,
                  Len(socket.replies) - 1, Tail(client.want))
      BY <1>1, <1>4, <1>5, SessionReceived DEF SessionNow
    <2> QED BY <1>1, <1>2, <1>3, <1>5, <2>1 DEF SessionNow
  <1> QED BY <1>1, <1>7, <1>8, <1>9, <1>10 DEF RepliesInv

(* Steps that end the session. *)
LEMMA SessionEnds ==
  ASSUME RepliesInv, UNCHANGED <<socket, client>>, phase' \in {"finish", "exited"}
  PROVE  RepliesInv'
  BY DEF RepliesInv, SocketOK, RepliesMatch

(* Every step of the process or of the client keeps the session. *)
LEMMA RepliesStep ==
  ASSUME SessionsStartFresh, ConfigInv, FewFiles, RepliesInv, [ENext]_evars
  PROVE  RepliesInv'
  <1>1. CASE ProcessOption \/ EndOptions \/ init_logs \/ Connect \/ init_spike
    <2>1. /\ phase \in {"args", "logs", "load"}
          /\ phase' \in {"args", "logs", "load", "init", "exited"}
          /\ phase = "args" => phase' \in {"args", "logs", "exited"}
          /\ UNCHANGED <<socket, client, mach, rvfi_trace_version>>
          /\ phase = "load" => config' = config /\ phase' \in {"load", "init", "exited"}
      BY <1>1 DEF ProcessOption, EndOptions, init_logs, Connect, init_spike, Exit, Enter, rvfiVars
    <2> QED BY <2>1 DEF RepliesInv, SocketOK, RepliesMatch, Idle
  <1>2. CASE LoadFile
    <2>1. /\ phase = "load" /\ phase' \in {"load", "exited"} /\ config' = config
          /\ UNCHANGED <<socket, client, rvfi_trace_version>>
          /\ cmdline.next <= Len(files) /\ (cmdline.next > 1 \/ ~config.rvfi_dii)
      BY <1>2 DEF LoadFile, Exit, Enter, rvfiVars
    <2>2. ~config.rvfi_dii
      <3> SUFFICES ASSUME config.rvfi_dii PROVE FALSE OBVIOUS
      <3>1. build = "rvfi" BY DEF ConfigInv, SettingsOK
      <3>2. Len(files) <= 1 BY <3>1 DEF FewFiles
      <3>3. Len(files) \in Nat /\ cmdline.next \in Nat
        <4>1. LineInv BY DEF ConfigInv
        <4> QED BY <4>1 DEF LineInv, files
      <3> QED BY <2>1, <3>2, <3>3
    <2> QED BY <2>1, <2>2 DEF RepliesInv, SocketOK, RepliesMatch, Idle
  <1>3. CASE init_sail
    <2>1. /\ phase = "init" /\ phase' \in {"running", "finish", "exited"}
          /\ UNCHANGED <<socket, client, mach, rvfi_trace_version>>
          /\ config' = IF config.rvfi_dii THEN [config EXCEPT !.ram_size = Unsigned(8 * 2^20)]
                       ELSE config
      BY <1>3 DEF init_sail, Exit, Enter, rvfiVars
    <2>2. config'.rvfi_dii => config.rvfi_dii BY <2>1
    <2>3. SocketOK' /\ RepliesMatch' BY <2>1 DEF RepliesInv, SocketOK, RepliesMatch
    <2>4. config.rvfi_dii => Unreserved(mach') /\ SessionNow'
      <3> SUFFICES ASSUME config.rvfi_dii PROVE Unreserved(mach') /\ SessionNow' OBVIOUS
      <3>1. mach = NewMachine /\ Idle BY <2>1 DEF RepliesInv
      <3>2. Session(<<>>, mach, rvfi_trace_version, mach, rvfi_trace_version, 0, <<>>)
        BY SessionStarts
      <3>3. SessionNow BY <3>1, <3>2 DEF SessionNow, Idle
      <3> QED BY <2>1, <3>1, <3>3, UnreservedFacts DEF SessionNow
    <2> QED BY <2>1, <2>2, <2>3, <2>4 DEF RepliesInv
  <1>4. CASE Iterate \/ IterateNotStepped
    <2>1. /\ phase = "running" /\ ~config.rvfi_dii /\ config' = config
          /\ UNCHANGED <<socket, client>> /\ phase' \in {"running", "finish", "exited"}
      BY <1>4 DEF Iterate, IterateNotStepped, Running, AfterStep, SpikeStep, Exit, startVars,
                  rvfiVars
    <2> QED BY <2>1 DEF RepliesInv, SocketOK, RepliesMatch
  <1>5. CASE LoopEnds \/ finish \/ ServeUnknown \/ SocketFails \/ EndOfFile
    <2>1. UNCHANGED <<socket, client>> /\ phase' \in {"finish", "exited"}
      BY <1>5 DEF LoopEnds, finish, ServeUnknown, SocketFails, EndOfFile, Exit, rvfiVars
    <2> QED BY <2>1, SessionEnds
  <1>6. CASE SailException
    <2>1. client' = client /\ phase' = "finish" BY <1>6 DEF SailException
    <2>2. CASE UNCHANGED socket BY <2>1, <2>2, SessionEnds
    <2>3. CASE socket.cmds # <<>> /\ socket' = [socket EXCEPT !.cmds = Tail(@)]
      <3>1. Tail(socket.cmds) \in Seq(Command) BY <2>3 DEF RepliesInv, SocketOK
      <3>2. /\ socket'.cmds = Tail(socket.cmds) /\ socket'.replies = socket.replies
            /\ socket' = [cmds |-> socket'.cmds, replies |-> socket'.replies,
                          hung |-> socket'.hung]
        BY <2>3 DEF RepliesInv, SocketOK
      <3>3. SocketOK' /\ RepliesMatch'
        BY <2>1, <3>1, <3>2 DEF RepliesInv, SocketOK, RepliesMatch
      <3> QED BY <2>1, <3>3 DEF RepliesInv
    <2> QED BY <1>6, <2>2, <2>3 DEF SailException, Serving
  <1>7. CASE ServeInsn \/ ServeNegotiation \/ ServeSetVersion \/ ServeEndOfTrace
    BY <1>7, ServeStep
  <1>8. CASE \E c \in Command : Send(c) BY <1>8, SendStep
  <1>9. CASE Receive BY <1>9, ReceiveStep
  <1>10. CASE HangUp
    <2>1. /\ UNCHANGED <<client, phase, config, mach, rvfi_trace_version>>
          /\ socket'.cmds = socket.cmds /\ socket'.replies = socket.replies
          /\ socket' = [cmds |-> socket'.cmds, replies |-> socket'.replies,
                        hung |-> socket'.hung]
      BY <1>10 DEF HangUp, RepliesInv, SocketOK, startVars
    <2> QED BY <2>1 DEF RepliesInv, SocketOK, RepliesMatch, SessionNow, Idle
  <1>11. CASE UNCHANGED evars
    <2>1. UNCHANGED <<socket, client, phase, config, mach, rvfi_trace_version>>
      BY <1>11 DEF evars, startVars, rvfiVars
    <2> QED BY <2>1 DEF RepliesInv, SocketOK, RepliesMatch, SessionNow, Idle
  <1> QED
    BY <1>1, <1>2, <1>3, <1>4, <1>5, <1>6, <1>7, <1>8, <1>9, <1>10, <1>11 DEF ENext, Progress,
       StartUp, Serve, Client

(* However many commands are on their way and however they are split into  *)
(* traces, each reply is the one the client waits for, provided sessions   *)
(* start on an empty memory and the client sends no LR: model_fini keeps   *)
(* the reservation, which the run EmulatorReserve shows to matter.         *)
THEOREM EmulatorReplies ==
  ASSUME SessionsStartFresh
  PROVE  ESpec => []RepliesMatch
  <1>1. EInit => RepliesInv /\ FewFiles
    <2> SUFFICES ASSUME EInit PROVE RepliesInv /\ FewFiles OBVIOUS
    <2>1. /\ socket = [cmds |-> <<>>, replies |-> <<>>, hung |-> FALSE]
          /\ client = [version |-> 1, mach |-> NewMachine, want |-> <<>>, sent |-> 0]
          /\ rvfi_trace_version = 1 /\ phase = "args" /\ mach = NewMachine
      BY DEF EInit
    <2>2. PICK l \in CmdLines :
            cmdline = [build |-> l.build, opts |-> l.opts, files |-> l.files, next |-> 1]
      BY DEF EInit
    <2>3. FewFiles BY <2>2 DEF FewFiles, SessionsStartFresh, build, files
    <2>4. IsSeq(<<>>) /\ <<>> \in Seq(Command)
      <3>1. <<>> \in Seq(Command) OBVIOUS
      <3> QED BY <3>1 DEF IsSeq
    <2>5. SocketOK BY <2>1, <2>4 DEF SocketOK
    <2>6. RepliesMatch BY <2>1 DEF RepliesMatch
    <2>7. Idle BY <2>1 DEF Idle
    <2> QED BY <2>1, <2>3, <2>5, <2>6, <2>7 DEF RepliesInv
  <1>2. ConfigInv /\ FewFiles /\ RepliesInv /\ [ENext]_evars => RepliesInv' /\ FewFiles'
    <2> SUFFICES ASSUME ConfigInv, FewFiles, RepliesInv, [ENext]_evars
                 PROVE  RepliesInv' /\ FewFiles'
      OBVIOUS
    <2>1. build' = build /\ files' = files BY LineStep DEF ConfigInv
    <2>2. FewFiles' BY <2>1 DEF FewFiles
    <2> QED BY <2>2, RepliesStep
  <1>3. RepliesInv => RepliesMatch BY DEF RepliesInv
  <1> QED BY <1>1, <1>2, <1>3, EmulatorConfigInv, Safety, PTL
=============================================================================
