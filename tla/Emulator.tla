------------------------------ MODULE Emulator ------------------------------
(***************************************************************************)
(* The emulator as a process (riscv_sim.c): the command line, loading and  *)
(* start-up, the main loop around the hart of StepLoop and the memory of   *)
(* MemOps, the tandem run with Spike, the test signature, and the RVFI-DII *)
(* server with the client at the other end of its socket.                  *)
(*                                                                         *)
(* A step is one option, one phase of main, one iteration of the loop of   *)
(* run_sail, or a step of the client.  There are three builds: "plain",    *)
(* "rvfi" (RVFI_DII) and "spike" (ENABLE_SPIKE).                           *)
(***************************************************************************)
EXTENDS StepLoop, Options, MemOps

CONSTANTS
  CmdLines,        \* build, options and ELF files the emulator is started with (a bound)
  ProgramInsns,    \* what a program that uses memory executes (a bound)
  ClientInsns,     \* what the RVFI client sends to be executed (a bound)
  MaxCommands,     \* commands the client sends (a bound)
  MaxInFlight      \* commands in the socket at a time (a bound)

Elements(s) == {s[k] : k \in DOMAIN s}

(* Options are numbers where the code converts them, and symbols of ELF    *)
(* files are addresses.                                                    *)
ASSUME EmulatorAssumption ==
  /\ ProgramInsns \subseteq Insn /\ ClientInsns \subseteq Insn
  /\ MaxCommands \in Nat /\ MaxInFlight \in Nat \ {0}
  /\ 0 \in InsnLimits
  /\ \A l \in CmdLines :
       /\ l.opts \in Seq(Elements(l.opts)) /\ l.files \in Seq(Elements(l.files))
       /\ \A o \in Elements(l.opts) :
            /\ o.opt = "l" => o.arg \in InsnLimits
            /\ o.opt = "g" => o.arg \in Int
       /\ \A f \in Elements(l.files) :
            /\ f.begin_signature \in Nat /\ f.end_signature \in Nat
            /\ \A a \in DOMAIN f.image : f.image[a] \in Byte

VARIABLES
  cmdline,      \* build, options still to be processed, files, next file to load
  config,       \* the settings
  phase,        \* where main is
  status,       \* the exit status, once there is one
  tohost,       \* rv_htif_tohost
  region,       \* mem_sig_start and mem_sig_end
  mach,         \* memory and reservation
  signature,    \* the lines of the signature file, <<>> while there is none
  spike,        \* what tv_init has set up
  agreed,       \* ghost: Spike has agreed after every step
  packet,       \* the RVFI registers
  rvfi_trace_version,
  socket,       \* commands, replies, and whether the client has closed its end
  client        \* its trace version, the machine it expects, the replies it waits for

startVars == <<cmdline, config, tohost, region, spike>>
rvfiVars  == <<packet, rvfi_trace_version, socket, client>>
evars     == <<vars, startVars, rvfiVars, phase, status, mach, signature, agreed>>

build  == cmdline.build
files  == cmdline.files
NoExit == -1

Exit(ec) == phase' = "exited" /\ status' = ec
Enter(p) == phase' = p /\ UNCHANGED status
-----------------------------------------------------------------------------
(* Start-up. *)

ProcessOption ==
  /\ phase = "args" /\ cmdline.opts # <<>>
  /\ LET o   == Head(cmdline.opts)
         bad == Rejected(build, o)
     IN  \/ Reports(o) /\ Exit(0) /\ UNCHANGED <<config, insn_limit>>
         \/ bad /\ Exit(1) /\ UNCHANGED <<config, insn_limit>>
         \/ /\ ~Reports(o) /\ ~bad
            /\ config' = Configured(config, o)
            /\ insn_limit' = IF o.opt = "l" THEN o.arg ELSE insn_limit
            /\ UNCHANGED <<phase, status>>
  /\ cmdline' = [cmdline EXCEPT !.opts = Tail(@)]
  /\ UNCHANGED <<hart, expected, insn_cnt, total_insns, htif_done, tohost, region, spike,
                 rvfiVars, mach, signature, agreed>>

dump_dts == config.flag.dump_dts                 \* prints, or says it cannot
read_dtb == config.dtb_file # "unreadable"

(* The rest of process_args: dump_dts, print_usage and read_dtb may end it. *)
EndOptions ==
  /\ phase = "args" /\ cmdline.opts = <<>>
  /\ LET reports == dump_dts \/ (files = <<>> /\ ~config.rvfi_dii)
     IN  \/ reports /\ Exit(0)
         \/ ~reports /\ ~read_dtb /\ Exit(1)
         \/ ~reports /\ read_dtb /\ Enter("logs")
  /\ UNCHANGED <<vars, startVars, rvfiVars, mach, signature, agreed>>

init_logs ==
  /\ phase = "logs"
  /\ IF config.term_log = "unwritable" THEN Exit(1) ELSE Enter("load")
  /\ UNCHANGED <<vars, startVars, rvfiVars, mach, signature, agreed>>

(* RVFI-DII has no main file: the first one named is skipped. *)
Connect ==
  /\ phase = "load" /\ config.rvfi_dii /\ cmdline.next = 1
  /\ Exit(1) \/ Enter("load")
  /\ cmdline' = [cmdline EXCEPT !.next = 2]
  /\ UNCHANGED <<vars, config, tohost, region, spike, rvfiVars, mach, signature, agreed>>

check_elf(f) == f.is32 = xlen32

load_elf(m, f) ==
  [m EXCEPT !.mem = [a \in Addr |-> IF a \in DOMAIN f.image THEN f.image[a] ELSE @[a]]]

(* Mutant: the symbols of every file are looked up. *)
load_sail_Scan(f, main_file) ==
  /\ tohost' = f.tohost
  /\ region' = <<f.begin_signature, f.end_signature>>

(* A signature symbol that is missing leaves its end of the region at 0. *)
load_sail(f, main_file) ==
  IF main_file
  THEN tohost' = f.tohost /\ region' = <<f.begin_signature, f.end_signature>>
  ELSE UNCHANGED <<tohost, region>>

LoadFile ==
  /\ phase = "load" /\ cmdline.next <= Len(files) /\ (cmdline.next > 1 \/ ~config.rvfi_dii)
  /\ LET f == files[cmdline.next]
         main_file == cmdline.next = 1
     IN  /\ mach' = load_elf(mach, f)
         /\ IF check_elf(f) /\ (main_file => f.tohost # 0)
            THEN load_sail(f, main_file) /\ Enter("load")
            ELSE Exit(1) /\ UNCHANGED <<tohost, region>>
  /\ cmdline' = [cmdline EXCEPT !.next = @ + 1]
  /\ UNCHANGED <<vars, config, spike, rvfiVars, signature, agreed>>

SpikeSettings ==
  [dirty_update : BOOLEAN, misaligned : BOOLEAN, ram_size : {config.ram_size, 0},
   dtb : {"", "spike"}]

init_spike ==
  /\ phase = "load" /\ cmdline.next > 1 /\ cmdline.next > Len(files)
  /\ IF build # "spike" THEN Enter("init") /\ UNCHANGED spike
     ELSE \E s \in SpikeSettings :
            /\ spike' = s
            /\ IF /\ s.dirty_update = plat_enable(config, "dirty_update")
                  /\ s.misaligned = plat_enable(config, "misaligned")
                  /\ s.ram_size = plat_ram_size(config)
               THEN Enter("init") ELSE Exit(1)
  /\ UNCHANGED <<vars, cmdline, config, tohost, region, rvfiVars, mach, signature, agreed>>

(* The reset vector is followed by a device tree: one that was given must  *)
(* be Spike's.  The ROM itself is not modelled.                            *)
init_sail_reset_vector ==
  build = "spike" => config.dtb_file \in {"", spike.dtb}

(* The hart is as model_init left it; init_check then asks Spike for misa. *)
init_sail ==
  /\ phase = "init"
  /\ config' = IF config.rvfi_dii THEN [config EXCEPT !.ram_size = Unsigned(8 * 2^20)]
               ELSE config
  /\ IF ~config.rvfi_dii /\ ~init_sail_reset_vector THEN Exit(1)
     ELSE \/ Enter("running")
          \/ build = "spike" /\ phase' = "finish" /\ status' = 1
  /\ UNCHANGED <<vars, cmdline, tohost, region, spike, rvfiVars, mach, signature, agreed>>

StartUp ==
  ProcessOption \/ EndOptions \/ init_logs \/ Connect \/ LoadFile \/ init_spike \/ init_sail
-----------------------------------------------------------------------------
(* The loop of run_sail on a program. *)

Running == phase = "running" /\ ~config.rvfi_dii

(* A program keeps to the clock and the counters, or to memory. *)
ClockStep == files[1].runs = "clock" /\ Executes /\ UNCHANGED mach

MemoryStep ==
  /\ files[1].runs = "memory"
  /\ \/ HtifExit /\ UNCHANGED mach
     \/ \E i \in ProgramInsns :
          LET r == Execute(mach, i)
          IN  /\ IF r.trap THEN Traps ELSE Retires(hart, FALSE)
              /\ mach' = r.mach

(* What the two simulators may differ in after a step, and what of it is   *)
(* compared: Spike is not part of the model, so any part may differ.       *)
Compared == {"priv", "pc", "gpr", "mcause", "mepc", "mtval", "mstatus", "scause", "sepc",
             "stval"}
Differences == {{}} \cup {{part} : part \in Compared \cup {"fpr", "memory"}}

compare_states(differ) == differ \cap Compared = {}

(* Mutant: a difference between the two states is not looked at. *)
SpikeStep_NoCompare ==
  \E done \in BOOLEAN, differ \in Differences :
    /\ agreed' = (agreed /\ done = htif_done' /\ differ \cap Compared = {})
    /\ IF done # htif_done' THEN Exit(1) ELSE UNCHANGED <<phase, status>>

(* Spike takes a step too; a difference ends the run.  The tick of an      *)
(* iteration that ends the run makes no difference any more.               *)
SpikeStep ==
  \E done \in BOOLEAN, differ \in Differences :
    /\ agreed' = (agreed /\ done = htif_done' /\ differ \cap Compared = {})
    /\ CASE done # htif_done' -> Exit(1)
         [] done = htif_done' /\ ~compare_states(differ) -> phase' = "finish" /\ status' = 1
         [] OTHER -> UNCHANGED <<phase, status>>

AfterStep == IF build = "spike" THEN SpikeStep ELSE UNCHANGED <<phase, status, agreed>>

Iterate ==
  /\ Running
  /\ ClockStep \/ MemoryStep
  /\ AfterStep
  /\ UNCHANGED <<startVars, rvfiVars, signature>>

IterateNotStepped ==
  /\ Running
  /\ NotStepped /\ UNCHANGED mach
  /\ AfterStep
  /\ UNCHANGED <<startVars, rvfiVars, signature>>

(* Leaving the loop for finish(diverged). *)
LoopEnds ==
  /\ phase = "running" /\ ~Looping
  /\ phase' = "finish" /\ status' = 0
  /\ UNCHANGED <<vars, startVars, rvfiVars, mach, signature, agreed>>

(* Mutant: the bytes of a word come in the order of their addresses. *)
write_signature_Forward(m, lo, hi, g) ==
  [k \in 1 .. (hi - lo + g - 1) \div g |->
     [j \in 1 .. g |-> LET a == lo + ((k - 1) * g) + j - 1
                       IN  IF a \in Addr THEN m.mem[a] ELSE 0]]

(* Words of g bytes, the most significant byte first. *)
write_signature(m, lo, hi, g) ==
  [k \in 1 .. (hi - lo + g - 1) \div g |->
     [j \in 1 .. g |-> LET a == lo + ((k - 1) * g) + g - j
                       IN  IF a \in Addr THEN m.mem[a] ELSE 0]]

(* model_fini frees the memory; the reservation is not part of the model. *)
model_fini(m) == [m EXCEPT !.mem = Cleared]

(* A file is asked for, the region is valid and fopen succeeds. *)
Signs == config.sig_file \notin {"", "unwritable"} /\ region[1] < region[2]

(* With a granularity of 0 the loop of write_signature does not end. *)
finish ==
  /\ phase = "finish"
  /\ Signs => config.granularity > 0
  /\ signature' = IF Signs
                  THEN write_signature(mach, region[1], region[2], config.granularity)
                  ELSE signature
  /\ mach' = model_fini(mach)
  /\ Exit(status)
  /\ UNCHANGED <<vars, startVars, rvfiVars, agreed>>
-----------------------------------------------------------------------------
(* The RVFI-DII server. *)

NoData == [present |-> {}, rd |-> 0, trap |-> FALSE, halt |-> FALSE]

(* Mutant: the registers of the last command are kept. *)
rvfi_zero_exec_packet_Stale(p) == p

rvfi_zero_exec_packet(p) == NoData

rvfi_halt_exec_packet(p) == [p EXCEPT !.halt = TRUE]

(* What rvfi_wX, rvfi_read, rvfi_write and rvfi_trap add during a step. *)
Recorded(p, r) ==
  [p EXCEPT !.present = @ \cup r.present, !.trap = @ \/ r.trap,
            !.rd = IF "int" \in r.present THEN r.rd ELSE @]

(* A version 1 packet has all fields; in version 2 the integer and memory  *)
(* data follow in packets of their own, if present.                        *)
rvfi_send_trace(version, p) ==
  [kind |-> "trace", version |-> version, halt |-> p.halt, trap |-> p.trap,
   present |-> IF version = 1 THEN {} ELSE p.present,
   rd |-> IF version = 1 \/ "int" \in p.present THEN p.rd ELSE 0]

v2_support_packet    == [kind |-> "support"]
version_response(n)  == [kind |-> "version", version |-> n]

Command == [cmd : {"insn"}, insn : ClientInsns] \cup [cmd : {"end", "VERS", "unknown"}]
             \cup [cmd : {"v"}, insn : 1 .. 3]

(* Mutant: read() waits for two packets. *)
Serving_Buffered == phase = "running" /\ config.rvfi_dii /\ Looping /\ Len(socket.cmds) > 1

Serving == phase = "running" /\ config.rvfi_dii /\ Looping /\ socket.cmds # <<>>
Cmd     == Head(socket.cmds)

Answer(r) == socket' = [socket EXCEPT !.cmds = Tail(@), !.replies = Append(@, r)]

ServeInsn ==
  /\ Serving /\ Cmd.cmd = "insn"
  /\ LET r == Execute(mach, Cmd.insn)
     IN  /\ CASE Cmd.insn.op = "unfetched" -> NotStepped
              [] Cmd.insn.op # "unfetched" /\ r.trap -> Traps
              [] OTHER -> Retires(hart, FALSE)
         /\ mach' = r.mach
         /\ packet' = Recorded(rvfi_zero_exec_packet(packet), r)
  /\ Answer(rvfi_send_trace(rvfi_trace_version, packet'))
  /\ UNCHANGED <<startVars, rvfi_trace_version, client, phase, status, signature, agreed>>

(* A request for the version, which looks like the end of a trace. *)
ServeNegotiation ==
  /\ Serving /\ Cmd.cmd = "VERS"
  /\ packet' = rvfi_zero_exec_packet(packet)
  /\ Answer(v2_support_packet)
  /\ UNCHANGED <<vars, startVars, rvfi_trace_version, client, phase, status, mach, signature,
                 agreed>>

ServeSetVersion ==
  /\ Serving /\ Cmd.cmd = "v" /\ Cmd.insn \in {1, 2}
  /\ packet' = rvfi_zero_exec_packet(packet)
  /\ rvfi_trace_version' = Cmd.insn
  /\ Answer(version_response(Cmd.insn))
  /\ UNCHANGED <<vars, startVars, client, phase, status, mach, signature, agreed>>

(* A new model for the next trace; insn_cnt is local to run_sail. *)
reinit_sail ==
  /\ mach' = model_fini(mach)
  /\ hart' \in ResetHarts /\ expected' = 0 /\ insn_cnt' = 0 /\ htif_done' = FALSE
  /\ packet' = NoData

(* EndOfTrace: the halt packet is sent, run_sail returns and main makes a  *)
(* new model; total_insns goes on.                                         *)
ServeEndOfTrace ==
  /\ Serving /\ Cmd.cmd = "end"
  /\ Answer(rvfi_send_trace(rvfi_trace_version,
                            rvfi_halt_exec_packet(rvfi_zero_exec_packet(packet))))
  /\ reinit_sail
  /\ UNCHANGED <<insn_limit, total_insns, startVars, rvfi_trace_version, client, phase,
                 status, signature, agreed>>

(* An unknown command, an unknown version. *)
ServeUnknown ==
  /\ Serving /\ (Cmd.cmd = "unknown" \/ (Cmd.cmd = "v" /\ Cmd.insn = 3))
  /\ Exit(1)
  /\ UNCHANGED <<vars, startVars, rvfiVars, mach, signature, agreed>>

(* read() returns an error or less than a packet, or a write() fails. *)
SocketFails ==
  /\ Serving
  /\ Exit(1)
  /\ UNCHANGED <<vars, startVars, rvfiVars, mach, signature, agreed>>

(* read() returns 0: main ends, without finish. *)
EndOfFile ==
  /\ phase = "running" /\ config.rvfi_dii /\ Looping
  /\ socket.cmds = <<>> /\ socket.hung
  /\ config' = [config EXCEPT !.rvfi_dii = FALSE]
  /\ mach' = model_fini(mach)
  /\ Exit(0)
  /\ UNCHANGED <<vars, cmdline, tohost, region, spike, rvfiVars, signature, agreed>>

(* An exception of the Sail model: nothing is sent and finish(0) is called. *)
SailException ==
  /\ phase = "running" /\ Looping
  /\ \/ ~config.rvfi_dii /\ UNCHANGED socket
     \/ Serving /\ Cmd.cmd = "insn" /\ socket' = [socket EXCEPT !.cmds = Tail(@)]
  /\ phase' = "finish" /\ status' = 0
  /\ UNCHANGED <<vars, startVars, packet, rvfi_trace_version, client, mach, signature, agreed>>

Serve ==
  \/ ServeInsn \/ ServeNegotiation \/ ServeSetVersion \/ ServeEndOfTrace \/ ServeUnknown
  \/ EndOfFile
-----------------------------------------------------------------------------
(* The client: it may send commands before it has the replies to earlier   *)
(* ones, and expects every trace to start on a new machine.                *)

NewMachine == [mem |-> Cleared, reservation |-> NoReservation]

Expected(c) ==
  CASE c.cmd = "insn" -> <<rvfi_send_trace(client.version,
                                           Recorded(NoData, Execute(client.mach, c.insn)))>>
    [] c.cmd = "end"  -> <<rvfi_send_trace(client.version, [NoData EXCEPT !.halt = TRUE])>>
    [] c.cmd = "VERS" -> <<v2_support_packet>>
    [] c.cmd = "v" /\ c.insn # 3 -> <<version_response(c.insn)>>
    [] OTHER -> <<>>

Send(c) ==
  /\ phase = "running" /\ config.rvfi_dii /\ ~socket.hung
  /\ Len(socket.cmds) < MaxInFlight /\ client.sent < MaxCommands
  /\ socket' = [socket EXCEPT !.cmds = Append(@, c)]
  /\ client' = [version |-> IF c.cmd = "v" /\ c.insn # 3 THEN c.insn ELSE client.version,
                mach    |-> CASE c.cmd = "insn" -> Execute(client.mach, c.insn).mach
                              [] c.cmd = "end"  -> NewMachine
                              [] OTHER -> client.mach,
                want    |-> client.want \o Expected(c),
                sent    |-> client.sent + 1]
  /\ UNCHANGED <<vars, startVars, packet, rvfi_trace_version, phase, status, mach, signature,
                 agreed>>

Receive ==
  /\ socket.replies # <<>> /\ client.want # <<>>
  /\ socket' = [socket EXCEPT !.replies = Tail(@)]
  /\ client' = [client EXCEPT !.want = Tail(@)]
  /\ UNCHANGED <<vars, startVars, packet, rvfi_trace_version, phase, status, mach, signature,
                 agreed>>

HangUp ==
  /\ phase = "running" /\ config.rvfi_dii /\ ~socket.hung
  /\ socket' = [socket EXCEPT !.hung = TRUE]
  /\ UNCHANGED <<vars, startVars, packet, rvfi_trace_version, client, phase, status, mach,
                 signature, agreed>>

Client == (\E c \in Command : Send(c)) \/ Receive \/ HangUp
-----------------------------------------------------------------------------
EInit ==
  /\ \E l \in CmdLines :
       cmdline = [build |-> l.build, opts |-> l.opts, files |-> l.files, next |-> 1]
  /\ config = DefaultConfig
  /\ phase = "args" /\ status = NoExit
  /\ tohost = 0 /\ region = <<0, 0>>
  /\ mach = NewMachine
  /\ signature = <<>>
  /\ spike = [dirty_update |-> FALSE, misaligned |-> FALSE, ram_size |-> 0, dtb |-> ""]
  /\ agreed = TRUE
  /\ packet = NoData /\ rvfi_trace_version = 1
  /\ socket = [cmds |-> <<>>, replies |-> <<>>, hung |-> FALSE]
  /\ client = [version |-> 1, mach |-> NewMachine, want |-> <<>>, sent |-> 0]
  /\ insn_limit = 0 /\ hart \in ResetHarts /\ expected = 0
  /\ insn_cnt = 0 /\ total_insns = 0 /\ htif_done = FALSE

Progress == StartUp \/ Iterate \/ LoopEnds \/ finish \/ Serve

ENext == Progress \/ IterateNotStepped \/ SailException \/ SocketFails \/ Client

(* The process runs: it never stops between two phases, a program that can *)
(* execute an instruction does (unless every fetch faults for ever), and a *)
(* command in the socket is read.  Nothing is assumed of the client.       *)
ESpec == EInit /\ [][ENext]_evars /\ WF_evars(Progress)
-----------------------------------------------------------------------------
(* The program runs only with settings the model accepts: F and Zfinx are  *)
(* never both on (init_sys would fail), the PMP and cache-block settings   *)
(* are legal, the ELF files have the width of the model, tohost is that of *)
(* the main file, and Spike has the same settings, whatever options were   *)
(* given in whatever order.                                                *)
RunningIsConfigured ==
  phase = "running" =>
    /\ ~(sys_enable(config, "fdext") /\ sys_enable(config, "zfinx"))
    /\ sys_pmp_count(config) \in {0, 16, 64} /\ sys_pmp_grain(config) < 64
    /\ plat_cache_block_size_exp(config) <= 12
    /\ \A k \in 1 .. Len(files) : (k > 1 \/ ~config.rvfi_dii) => files[k].is32 = xlen32
    /\ ~config.rvfi_dii => tohost = files[1].tohost /\ tohost # 0
    /\ build = "spike" => /\ spike.dirty_update = plat_enable(config, "dirty_update")
                          /\ spike.misaligned = plat_enable(config, "misaligned")
                          /\ spike.ram_size = plat_ram_size(config)
                          /\ config.dtb_file \in {"", spike.dtb}

(* Byte a of the region, as a reader of the signature finds it. *)
SignedByte(sig, a) ==
  LET g == config.granularity
      k == a - region[1]
  IN  sig[(k \div g) + 1][g - (k % g)]

(* A signature that is written holds, for every address of the region, the *)
(* byte the program left in memory, although finish frees the memory; and  *)
(* it is written whenever finish ends a run that has a signature region.   *)
SignatureIsFinal ==
  [][(phase = "finish" /\ phase' = "exited" /\ Signs) =>
        \A a \in region[1] .. region[2] - 1 :
          SignedByte(signature', a) = IF a \in Addr THEN mach.mem[a] ELSE 0]_evars

(* In tandem, status 0 means that Spike agreed after every step and ended  *)
(* together with the Sail model.                                           *)
ZeroMeansAgreed == (phase = "exited" /\ status = 0) => agreed

(* The replies on their way are, one by one, those the client waits for:   *)
(* none is missing, doubled or out of order, each is in the trace version  *)
(* last asked for (over the ends of traces too), carries only the data of  *)
(* its own instruction, and shows a machine that was new at the start of   *)
(* its trace.                                                              *)
RepliesMatch ==
  /\ Len(socket.replies) <= Len(client.want)
  /\ \A k \in 1 .. Len(socket.replies) : socket.replies[k] = client.want[k]

(* Every command is read in the end, unless the server ends before. *)
CommandsServed == (socket.cmds # <<>>) ~> (socket.cmds = <<>> \/ phase # "running")

(* An expired timer interrupts in the end, unless software moves it or the *)
(* program ends.                                                           *)
TimerFires ==
  (Running /\ hart.mtimecmp <= hart.mtime) ~>
    (hart.MTI = 1 \/ hart.mtime < hart.mtimecmp \/ phase # "running")
=============================================================================
