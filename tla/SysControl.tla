----------------------------- MODULE SysControl -----------------------------
(***************************************************************************)
(* The privileged control flow of the hart: traps and their delegation,    *)
(* interrupt dispatch, MRET and SRET, the CSRs that steer them, and the    *)
(* alignment of the program counter when misa.C can be switched off.       *)
(*                                                                         *)
(* One step of this specification is one call of step() in                 *)
(* riscv_step.sail: either the pending interrupt is taken, or one          *)
(* instruction is fetched and executed; tick_pc() then copies nextPC to    *)
(* PC, so PC' below is the value nextPC has at the end of the call.        *)
(*                                                                         *)
(* Control never reads xcause, xtval and xscratch, so they are left out;   *)
(* the cause of a trap reaches the vector computation as an argument.      *)
(* FS, VS, XS and SD guard extensions that are not modelled; the counters  *)
(* are in StepLoop.                                                        *)
(***************************************************************************)
EXTENDS Integers

CONSTANTS
  NWords,            \* size of the code space, in 4-byte words (a bound)
  sys_enable_rvc,    \* was misa.C set at boot
  sys_enable_writable_misa,
  Lines,             \* the interrupt lines of the instance (a bound)
  Faults,            \* the faults memory and decoding can raise (a bound)
  MstatusInputs,     \* what software writes to mstatus (a bound)
  SstatusInputs,     \* what software writes to sstatus (a bound)
  IntrInputs,        \* what software writes to mip, mie, sip, sie, mideleg
  MedelegInputs,     \* what software writes to medeleg
  TvecInputs         \* what software writes to mtvec and stvec

(* privLevel_to_bits: the encodings are ordered as the privileges are. *)
User       == 0
Supervisor == 1
Machine    == 3
Privilege  == {User, Supervisor, Machine}

(* A code address: the 4-byte word it falls in, and bit 1.  Bit 0 is always 0. *)
Words   == 0 .. NWords - 1
Address == [word : Words, half : 0 .. 1]

(* Bit positions of Minterrupts and numbers of the exceptions. *)
MEI == 11
SEI == 9
MTI == 7
STI == 5
MSI == 3
SSI == 1
MachineLines    == {MEI, MTI, MSI}
SupervisorLines == {SEI, STI, SSI}

E_Fetch_Addr_Align == 0
E_Illegal_Instr    == 2
E_Breakpoint       == 3
E_U_EnvCall        == 8
E_S_EnvCall        == 9
E_M_EnvCall        == 11
ExcCodes           == 0 .. 15

Bit == 0 .. 1

(* The fields of mstatus that steer control; the written MPP may be any    *)
(* two-bit value, the register holds a supported level only.               *)
MstatusFields(mpp) ==
  [MIE : Bit, SIE : Bit, MPIE : Bit, SPIE : Bit, SPP : Bit, MPP : mpp,
   MPRV : Bit, TSR : Bit, TW : Bit]
Mstatus    == MstatusFields(Privilege)
TvecModes  == {0, 1}                 \* TV_Direct, TV_Vector
Tvec       == [base : Words, mode : TvecModes]

ASSUME ConstantsAssumption ==
  /\ NWords \in Nat \ {0}
  /\ sys_enable_rvc \in BOOLEAN
  /\ sys_enable_writable_misa \in BOOLEAN
  /\ Lines \subseteq MachineLines \cup SupervisorLines
  /\ Faults \subseteq ExcCodes
  /\ MstatusInputs \subseteq MstatusFields(0 .. 3)
  /\ SstatusInputs \subseteq MstatusFields(0 .. 3)
  /\ IntrInputs \subseteq SUBSET Lines
  /\ MedelegInputs \subseteq SUBSET ExcCodes
  /\ TvecInputs \subseteq [base : Words, mode : 0 .. 3]

VARIABLES
  cur_privilege,
  mstatus,
  misaC,             \* the C bit of misa
  PC,
  mepc, sepc,
  mtvec, stvec,
  mip, mie,          \* sets of interrupt lines
  mideleg, medeleg   \* sets of lines, and of exception numbers

intrVars == <<mip, mie, mideleg, medeleg>>
vars == <<cur_privilege, mstatus, misaC, PC, mepc, sepc, mtvec, stvec, intrVars>>
-----------------------------------------------------------------------------
(* Program counter arithmetic. *)

PlusWords(a, n) == [a EXCEPT !.word = (a.word + n) % NWords]

PlusTwo(a) ==
  IF a.half = 0 THEN [a EXCEPT !.half = 1]
                ELSE [word |-> (a.word + 1) % NWords, half |-> 0]

(* Both lengths of an instruction; only a hart with Zca runs the short one. *)
Successor(len) == IF len = 2 THEN PlusTwo(PC) ELSE PlusWords(PC, 1)

Ext_Zca == misaC

(* The mask applied to xepc when it is read or jumped to. *)
pc_alignment_mask(a) == IF misaC THEN a ELSE [a EXCEPT !.half = 0]

legalize_xepc(a) ==
  IF (sys_enable_writable_misa /\ sys_enable_rvc) \/ misaC
  THEN a ELSE [a EXCEPT !.half = 0]
-----------------------------------------------------------------------------
(* Interrupts. *)

(* The line findPendingInterrupt picks: M before S; external, software, timer. *)
Rank(i) == CASE i = MEI -> 6 [] i = MSI -> 5 [] i = MTI -> 4
             [] i = SEI -> 3 [] i = SSI -> 2 [] i = STI -> 1

findPendingInterrupt(ip) == CHOOSE i \in ip : \A j \in ip : Rank(j) <= Rank(i)

None == [line |-> 0, priv |-> -1]

(* Mutant: the enable of M is honoured below M too. *)
mIE_AsSetByXIE(priv) == mstatus.MIE = 1

(* Levels above the current one are enabled whatever xIE says, those below *)
(* it are blocked.                                                         *)
mIE(priv) == priv # Machine \/ mstatus.MIE = 1

(* Mutant: the level is not looked at when SIE is set. *)
sIE_AnyLevel(priv) == priv = User \/ mstatus.SIE = 1

sIE(priv) == priv = User \/ (priv = Supervisor /\ mstatus.SIE = 1)

(* processPending at M, then at S on what M delegates. *)
mPending == (mip \cap mie) \ mideleg
sPending == (mip \cap mideleg) \cap mie

dispatchInterrupt(priv) ==
  IF mPending # {} /\ mIE(priv)
  THEN [line |-> findPendingInterrupt(mPending), priv |-> Machine]
  ELSE IF sPending # {} /\ sIE(priv)
  THEN [line |-> findPendingInterrupt(sPending), priv |-> Supervisor]
  ELSE None
-----------------------------------------------------------------------------
(* Traps. *)

(* Mutant: medeleg also lowers the level of traps taken in M. *)
exception_delegatee_Down(e, p) == IF e \in medeleg THEN Supervisor ELSE Machine

exception_delegatee(e, p) ==
  LET deleg == IF e \in medeleg THEN Supervisor ELSE Machine
  IN  IF deleg < p THEN p ELSE deleg

tvec_addr(t, intr, c) ==
  LET base == [word |-> t.base, half |-> 0]
  IN  IF t.mode = 1 /\ intr THEN PlusWords(base, c) ELSE base

(* Mutant: MPIE does not stack MIE. *)
TrapMstatus_NoStack(m, p, del_priv) ==
  IF del_priv = Machine
  THEN [m EXCEPT !.MIE = 0, !.MPIE = 0, !.MPP = p]
  ELSE [m EXCEPT !.SPIE = m.SIE, !.SIE = 0, !.SPP = IF p = User THEN 0 ELSE 1]

TrapMstatus(m, p, del_priv) ==
  IF del_priv = Machine
  THEN [m EXCEPT !.MPIE = m.MIE, !.MIE = 0, !.MPP = p]
  ELSE [m EXCEPT !.SPIE = m.SIE, !.SIE = 0, !.SPP = IF p = User THEN 0 ELSE 1]

trap_handler(del_priv, intr, c) ==
  /\ cur_privilege' = del_priv
  /\ mstatus' = TrapMstatus(mstatus, cur_privilege, del_priv)
  /\ mepc' = IF del_priv = Machine THEN PC ELSE mepc
  /\ sepc' = IF del_priv = Machine THEN sepc ELSE PC
  /\ PC' = tvec_addr(IF del_priv = Machine THEN mtvec ELSE stvec, intr, c)
  /\ UNCHANGED <<misaC, mtvec, stvec, intrVars>>

(* handle_exception, handle_mem_exception and handle_illegal. *)
handle_exception(e) ==
  trap_handler(exception_delegatee(e, cur_privilege), FALSE, e)

TakeInterrupt ==
  LET d == dispatchInterrupt(cur_privilege)
  IN  d # None /\ trap_handler(d.priv, TRUE, d.line)

(* What is true of a call of step() that goes on to fetch: no interrupt    *)
(* is taken.                                                               *)
Fetching == dispatchInterrupt(cur_privilege) = None

(* The alignment check at the head of fetch(). *)
FetchAligned == PC.half = 0 \/ Ext_Zca

Executing == Fetching /\ FetchAligned

(* A fault of the fetch or of the instruction: a misaligned fetch raises   *)
(* nothing else.                                                           *)
Fault ==
  /\ Fetching
  /\ \E e \in IF FetchAligned THEN Faults ELSE {E_Fetch_Addr_Align} :
       handle_exception(e)
-----------------------------------------------------------------------------
(* Instructions that do not touch the privileged state. *)

NextIs(a) ==
  /\ PC' = a
  /\ UNCHANGED <<cur_privilege, mstatus, misaC, mepc, sepc, mtvec, stvec, intrVars>>

Retire(len) == Executing /\ (len = 2 => Ext_Zca) /\ NextIs(Successor(len))

(* F_RVC: the check made once for all compressed instructions. *)
IllegalShort == Executing /\ ~Ext_Zca /\ handle_exception(E_Illegal_Instr)

(* JAL, JALR and taken branches, in their long and short encodings. *)
Jump(target) == Executing /\ (target.half = 1 => Ext_Zca) /\ NextIs(target)

MisalignedJump == Executing /\ ~Ext_Zca /\ handle_exception(E_Fetch_Addr_Align)

Ecall ==
  /\ Executing
  /\ handle_exception(CASE cur_privilege = User       -> E_U_EnvCall
                        [] cur_privilege = Supervisor -> E_S_EnvCall
                        [] cur_privilege = Machine    -> E_M_EnvCall)

Ebreak == Executing /\ handle_exception(E_Breakpoint)

(* What platform_wfi does to the clock is in StepLoop. *)
wfi_illegal ==
  \/ cur_privilege = User
  \/ cur_privilege = Supervisor /\ mstatus.TW = 1

Wfi == Executing /\ ~wfi_illegal /\ NextIs(PlusWords(PC, 1))

IllegalWfi == Executing /\ wfi_illegal /\ handle_exception(E_Illegal_Instr)
-----------------------------------------------------------------------------
(* Returns from traps. *)

(* Mutant: MRET leaves MPRV as it is. *)
MretMstatus_KeepMPRV(m) == [m EXCEPT !.MIE = m.MPIE, !.MPIE = 1, !.MPP = User]

MretMstatus(m) ==
  [m EXCEPT !.MIE = m.MPIE, !.MPIE = 1, !.MPP = User,
            !.MPRV = IF m.MPP # Machine THEN 0 ELSE m.MPRV]

(* Mutant: SRET leaves MPRV as it is. *)
SretMstatus_KeepMPRV(m) == [m EXCEPT !.SIE = m.SPIE, !.SPIE = 1, !.SPP = 0]

SretMstatus(m) ==
  [m EXCEPT !.SIE = m.SPIE, !.SPIE = 1, !.SPP = 0, !.MPRV = 0]

xret(priv, m, epc) ==
  /\ cur_privilege' = priv
  /\ mstatus' = m
  /\ PC' = pc_alignment_mask(epc)
  /\ UNCHANGED <<misaC, mepc, sepc, mtvec, stvec, intrVars>>

Mret ==
  /\ Executing
  /\ cur_privilege = Machine
  /\ xret(mstatus.MPP, MretMstatus(mstatus), mepc)

IllegalMret ==
  Executing /\ cur_privilege # Machine /\ handle_exception(E_Illegal_Instr)

sret_illegal ==
  \/ cur_privilege = User
  \/ cur_privilege = Supervisor /\ mstatus.TSR = 1

Sret ==
  /\ Executing
  /\ ~sret_illegal
  /\ xret(IF mstatus.SPP = 1 THEN Supervisor ELSE User, SretMstatus(mstatus), sepc)

IllegalSret == Executing /\ sret_illegal /\ handle_exception(E_Illegal_Instr)
-----------------------------------------------------------------------------
(* CSR writes.  A CSR's number carries the least privilege that reaches it. *)

csrPriv(csr) == (csr \div 256) % 4

sstatus_csr == 256   \* 0x100
sie_csr     == 260
stvec_csr   == 261
sepc_csr    == 321
sip_csr     == 324
mstatus_csr == 768   \* 0x300
misa_csr    == 769
medeleg_csr == 770
mideleg_csr == 771
mie_csr     == 772
mtvec_csr   == 773
mepc_csr    == 833
mip_csr     == 836
CSRs == {sstatus_csr, sie_csr, stvec_csr, sepc_csr, sip_csr, mstatus_csr, misa_csr,
         medeleg_csr, mideleg_csr, mie_csr, mtvec_csr, mepc_csr, mip_csr}

(* check_CSR_access: none of these CSRs is read-only. *)
check_CSR(csr) == cur_privilege >= csrPriv(csr)

CsrDenied(csr) ==
  /\ Executing
  /\ ~check_CSR(csr)
  /\ handle_exception(E_Illegal_Instr)

(* The part all CSR writes share: the check, and nextPC = PC + 4. *)
CsrWrite(csr) ==
  /\ Executing
  /\ check_CSR(csr)
  /\ PC' = PlusWords(PC, 1)
  /\ UNCHANGED cur_privilege

have_privLevel(p) == p \in Privilege

legalize_mstatus(m) ==
  [m EXCEPT !.MPP = IF have_privLevel(m.MPP) THEN m.MPP ELSE User]

(* Only the fields sstatus shows are taken from the written value. *)
lift_sstatus(m, v) == [m EXCEPT !.SPP = v.SPP, !.SPIE = v.SPIE, !.SIE = v.SIE]

WriteMstatus(v) ==
  /\ CsrWrite(mstatus_csr)
  /\ mstatus' = legalize_mstatus(v)
  /\ UNCHANGED <<misaC, mepc, sepc, mtvec, stvec, intrVars>>

WriteSstatus(v) ==
  /\ CsrWrite(sstatus_csr)
  /\ mstatus' = legalize_mstatus(lift_sstatus(mstatus, v))
  /\ UNCHANGED <<misaC, mepc, sepc, mtvec, stvec, intrVars>>

(* Mutant: C is cleared whatever nextPC is. *)
legalize_misa_NoAlign(v) ==
  IF ~sys_enable_writable_misa \/ ~sys_enable_rvc THEN misaC ELSE v

(* Clearing C is refused when the next instruction is not word aligned. *)
legalize_misa(v) ==
  IF \/ ~sys_enable_writable_misa
     \/ ~v /\ PlusWords(PC, 1).half = 1
     \/ ~sys_enable_rvc
  THEN misaC ELSE v

WriteMisa(v) ==
  /\ CsrWrite(misa_csr)
  /\ misaC' = legalize_misa(v)
  /\ UNCHANGED <<mstatus, mepc, sepc, mtvec, stvec, intrVars>>

(* set_xret_target *)
WriteMepc(a) ==
  /\ CsrWrite(mepc_csr)
  /\ mepc' = legalize_xepc(a)
  /\ UNCHANGED <<mstatus, misaC, sepc, mtvec, stvec, intrVars>>

WriteSepc(a) ==
  /\ CsrWrite(sepc_csr)
  /\ sepc' = legalize_xepc(a)
  /\ UNCHANGED <<mstatus, misaC, mepc, mtvec, stvec, intrVars>>

(* A reserved mode leaves the old one in place. *)
legalize_tvec(o, v) == IF v.mode \in TvecModes THEN v ELSE [v EXCEPT !.mode = o.mode]

WriteMtvec(v) ==
  /\ CsrWrite(mtvec_csr)
  /\ mtvec' = legalize_tvec(mtvec, v)
  /\ UNCHANGED <<mstatus, misaC, mepc, sepc, stvec, intrVars>>

WriteStvec(v) ==
  /\ CsrWrite(stvec_csr)
  /\ stvec' = legalize_tvec(stvec, v)
  /\ UNCHANGED <<mstatus, misaC, mepc, sepc, mtvec, intrVars>>

legalize_mip(o, v) == (o \ SupervisorLines) \cup (v \cap SupervisorLines)

(* Mutant: machine lines can be delegated. *)
legalize_mideleg_Raw(v) == v

legalize_mideleg(v) == v \ MachineLines

legalize_medeleg(v) == v \ {E_M_EnvCall}

(* Of sip only SSI is writable, and only where it is delegated. *)
lift_sip(o, d, v) == IF SSI \in d THEN (o \ {SSI}) \cup (v \cap {SSI}) ELSE o

(* Mutant: sie writes lines that are not delegated. *)
lift_sie_AllS(o, d, v) == (o \ SupervisorLines) \cup (v \cap SupervisorLines)

lift_sie(o, d, v) ==
  LET s == d \cap SupervisorLines IN (o \ s) \cup (v \cap s)

IntrWrite(csr) ==
  /\ CsrWrite(csr)
  /\ UNCHANGED <<mstatus, misaC, mepc, sepc, mtvec, stvec>>

WriteMip(v) ==
  IntrWrite(mip_csr) /\ mip' = legalize_mip(mip, v) /\ UNCHANGED <<mie, mideleg, medeleg>>

WriteMie(v) ==
  IntrWrite(mie_csr) /\ mie' = v /\ UNCHANGED <<mip, mideleg, medeleg>>

WriteMideleg(v) ==
  IntrWrite(mideleg_csr) /\ mideleg' = legalize_mideleg(v) /\ UNCHANGED <<mip, mie, medeleg>>

WriteMedeleg(v) ==
  IntrWrite(medeleg_csr) /\ medeleg' = legalize_medeleg(v) /\ UNCHANGED <<mip, mie, mideleg>>

WriteSip(v) ==
  IntrWrite(sip_csr) /\ mip' = lift_sip(mip, mideleg, v) /\ UNCHANGED <<mie, mideleg, medeleg>>

WriteSie(v) ==
  IntrWrite(sie_csr) /\ mie' = lift_sie(mie, mideleg, v) /\ UNCHANGED <<mip, mideleg, medeleg>>
-----------------------------------------------------------------------------
(* Between two steps the CLINT raises or lowers its two lines. *)
ClintUpdate ==
  /\ \E up \in SUBSET (Lines \cap {MTI, MSI}) :
       mip' = (mip \ {MTI, MSI}) \cup up
  /\ UNCHANGED <<cur_privilege, mstatus, misaC, PC, mepc, sepc, mtvec, stvec,
                 mie, mideleg, medeleg>>

Init ==
  /\ cur_privilege = Machine
  /\ mstatus = [MIE |-> 0, SIE |-> 0, MPIE |-> 0, SPIE |-> 0, SPP |-> 0,
                MPP |-> User, MPRV |-> 0, TSR |-> 0, TW |-> 0]
  /\ misaC = sys_enable_rvc
  /\ PC = [word |-> 0, half |-> 0]
  /\ mepc = [word |-> 0, half |-> 0]
  /\ sepc = [word |-> 0, half |-> 0]
  /\ mtvec = [base |-> 0, mode |-> 0]
  /\ stvec = [base |-> 0, mode |-> 0]
  /\ mip = {} /\ mie = {} /\ mideleg = {} /\ medeleg = {}

(* The writes that touch nothing an xRET reads. *)
WriteOther ==
  \/ \E v \in TvecInputs : WriteMtvec(v) \/ WriteStvec(v)
  \/ \E v \in IntrInputs :
       \/ WriteMip(v) \/ WriteMie(v) \/ WriteMideleg(v)
       \/ WriteSip(v) \/ WriteSie(v)
  \/ \E v \in MedelegInputs : WriteMedeleg(v)

WriteCsr ==
  \/ \E v \in MstatusInputs : WriteMstatus(v)
  \/ \E v \in SstatusInputs : WriteSstatus(v)
  \/ \E v \in BOOLEAN : WriteMisa(v)
  \/ \E a \in Address : WriteMepc(a) \/ WriteSepc(a)
  \/ WriteOther

(* The steps that end in trap_handler. *)
Trap ==
  \/ TakeInterrupt
  \/ Fault
  \/ MisalignedJump
  \/ Ecall
  \/ Ebreak
  \/ IllegalShort
  \/ IllegalWfi
  \/ IllegalMret
  \/ IllegalSret
  \/ \E csr \in CSRs : CsrDenied(csr)

Plain ==
  \/ \E len \in {2, 4} : Retire(len)
  \/ \E a \in Address : Jump(a)
  \/ Wfi

Next == Trap \/ Plain \/ Mret \/ Sret \/ WriteCsr \/ ClintUpdate

Spec == Init /\ [][Next]_vars
-----------------------------------------------------------------------------
(* Every register holds a legal value: MPP a supported level, the vector   *)
(* modes not reserved (prepare_trap_vector's internal_error), and no       *)
(* machine-level line or M-mode environment call delegated.                *)
TypeOK ==
  /\ cur_privilege \in Privilege
  /\ mstatus \in Mstatus
  /\ misaC \in BOOLEAN
  /\ PC \in Address /\ mepc \in Address /\ sepc \in Address
  /\ mtvec \in Tvec /\ stvec \in Tvec
  /\ mip \subseteq Lines /\ mie \subseteq Lines
  /\ mideleg \subseteq Lines \ MachineLines
  /\ medeleg \subseteq ExcCodes \ {E_M_EnvCall}

(* effectivePrivilege applies MPRV whatever the current privilege is, so a *)
(* stray MPRV below M would let S or U code access memory with the rights  *)
(* in MPP.  Nothing but the xRETs keeps it clear.                          *)
MPRVOnlyInMachine == cur_privilege # Machine => mstatus.MPRV = 0

(* The PC is word aligned whenever compressed instructions are off, over   *)
(* every order of misa writes, jumps, traps and returns through an xepc    *)
(* that was captured while they were still on.                             *)
PCAligned == ~misaC => PC.half = 0

(* S code can never hold off an enabled, undelegated interrupt.            *)
MachineInterruptsUnmaskable ==
  (cur_privilege # Machine /\ mPending # {})
    => dispatchInterrupt(cur_privilege).priv = Machine

(* An interrupt is never taken at a level below the current one, and an    *)
(* undelegated line never at S: the unreachable cases of trap_handler.     *)
DispatchLegal ==
  LET d == dispatchInterrupt(cur_privilege)
  IN  d # None => /\ d.priv >= cur_privilege
                  /\ (d.priv = Supervisor) = (d.line \in mideleg)
                  /\ d.line \in mip \cap mie

(* Only MRET and SRET lower the privilege. *)
PrivilegeDropsOnlyByXret ==
  [][cur_privilege' < cur_privilege => Mret \/ Sret]_vars

(* What machine mode has set up, and S and U code must not change. *)
MachineFields == {"MIE", "MPIE", "MPP", "MPRV", "TSR", "TW"}
MachineState ==
  <<[f \in MachineFields |-> mstatus[f]], misaC, mepc, mtvec, mideleg, medeleg,
    mie \ mideleg, mip \cap (SupervisorLines \ mideleg)>>

(* A step below M that does not trap to M changes no machine-level state:  *)
(* sstatus, sie and sip are windows that open on their own bits only.      *)
MachineStateIsolated ==
  [][(cur_privilege # Machine /\ cur_privilege' # Machine)
       => MachineState' = MachineState]_vars
=============================================================================
