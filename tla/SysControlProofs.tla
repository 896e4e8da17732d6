-------------------------- MODULE SysControlProofs --------------------------
(***************************************************************************)
(* Theorems about SysControl and TrapFrames, for any size of the code      *)
(* space, any set of interrupt lines and any values software may write.    *)
(***************************************************************************)
EXTENDS TrapFrames, TLAPS

(* Advancing a code address by whole words keeps it an address and keeps   *)
(* bit 1; advancing it by two bytes keeps it an address (PC + 4, PC + 2).  *)
LEMMA PlusWordsType ==
  ASSUME NEW a \in Address, NEW n \in Nat
  PROVE  PlusWords(a, n) \in Address /\ PlusWords(a, n).half = a.half
  <1>1. a.word + n \in Int /\ NWords \in Int /\ NWords > 0
    BY ConstantsAssumption DEF Address, Words
  <1>2. (a.word + n) % NWords \in Words
    BY <1>1 DEF Words
  <1> QED BY <1>2 DEF PlusWords, Address

(* The address of the second half of an instruction wraps. *)
LEMMA PlusTwoType ==
  ASSUME NEW a \in Address
  PROVE  PlusTwo(a) \in Address
  <1>1. a.word + 1 \in Int /\ NWords \in Int /\ NWords > 0
    BY ConstantsAssumption DEF Address, Words
  <1>2. (a.word + 1) % NWords \in Words
    BY <1>1 DEF Words
  <1> QED BY <1>2 DEF PlusTwo, Address

(* The trap vector is a word-aligned code address (tvec_addr). *)
LEMMA TvecAddrType ==
  ASSUME NEW t \in Tvec, NEW intr \in BOOLEAN, NEW c \in Nat
  PROVE  tvec_addr(t, intr, c) \in Address /\ tvec_addr(t, intr, c).half = 0
  <1> DEFINE base == [word |-> t.base, half |-> 0]
  <1>1. base \in Address /\ base.half = 0
    BY DEF Tvec, Address
  <1>2. PlusWords(base, c) \in Address /\ PlusWords(base, c).half = 0
    BY <1>1, PlusWordsType
  <1> QED BY <1>1, <1>2 DEF tvec_addr

(* What a trap does to mstatus keeps it legal (trap_handler). *)
LEMMA TrapMstatusType ==
  ASSUME NEW m \in Mstatus, NEW p \in Privilege, NEW d \in Privilege
  PROVE  TrapMstatus(m, p, d) \in Mstatus /\ TrapMstatus(m, p, d).MPRV = m.MPRV
  <1> DEFINE spp == IF p = User THEN 0 ELSE 1
  <1>0. 0 \in Bit /\ spp \in Bit BY DEF Bit
  <1>1. CASE d = Machine
    <2>1. TrapMstatus(m, p, d) = [m EXCEPT !.MPIE = m.MIE, !.MIE = 0, !.MPP = p]
      BY <1>1 DEF TrapMstatus
    <2> QED BY <1>0, <2>1 DEF Mstatus, MstatusFields
  <1>2. CASE d # Machine
    <2>1. TrapMstatus(m, p, d) =
            [m EXCEPT !.SPIE = m.SIE, !.SIE = 0, !.SPP = spp]
      BY <1>2 DEF TrapMstatus
    <2> HIDE DEF spp
    <2> QED BY <1>0, <2>1 DEF Mstatus, MstatusFields
  <1> QED BY <1>1, <1>2

(* A trap to M or S from the current privilege keeps the registers legal,  *)
(* lands on an aligned vector and never lowers the privilege.              *)
LEMMA TrapStep ==
  ASSUME TypeOK, NEW d \in {Machine, Supervisor}, NEW intr \in BOOLEAN, NEW c \in Nat,
         trap_handler(d, intr, c)
  PROVE  TypeOK' /\ PC'.half = 0 /\ misaC' = misaC /\ mstatus'.MPRV = mstatus.MPRV
         /\ cur_privilege' = d
  <1> USE DEF TypeOK, trap_handler
  <1>1. d \in Privilege BY DEF Privilege
  <1>2. mstatus' \in Mstatus /\ mstatus'.MPRV = mstatus.MPRV BY <1>1, TrapMstatusType
  <1>3. PC' \in Address /\ PC'.half = 0
    <2>1. (IF d = Machine THEN mtvec ELSE stvec) \in Tvec OBVIOUS
    <2> QED BY <2>1, TvecAddrType
  <1> QED BY <1>1, <1>2, <1>3 DEF intrVars

(* The level an exception is delegated to is never below the current one   *)
(* (exception_delegatee).                                                  *)
LEMMA DelegateeType ==
  ASSUME cur_privilege \in Privilege, NEW e
  PROVE  /\ exception_delegatee(e, cur_privilege) \in {Machine, Supervisor}
         /\ exception_delegatee(e, cur_privilege) >= cur_privilege
  BY DEF exception_delegatee, Privilege, Machine, Supervisor, User

(* Of a non-empty set of lines, findPendingInterrupt picks a member.       *)
LEMMA FindPending ==
  ASSUME NEW ip, ip \subseteq Lines, ip # {}
  PROVE  findPendingInterrupt(ip) \in ip
  <1> DEFINE top(i) == \A j \in ip : Rank(j) <= Rank(i)
  <1>1. ip \subseteq {11, 9, 7, 5, 3, 1}
    BY ConstantsAssumption
       DEF MachineLines, SupervisorLines, MEI, SEI, MTI, STI, MSI, SSI
  <1>2. \E i \in ip : top(i)
    BY <1>1 DEF Rank, MEI, SEI, MTI, STI, MSI, SSI
  <1> QED BY <1>2 DEF findPendingInterrupt

(* An interrupt is dispatched to a level at or above the current one, to S *)
(* exactly when it is delegated, and only if pending and enabled           *)
(* (getPendingSet, dispatchInterrupt).                                     *)
LEMMA DispatchType ==
  ASSUME TypeOK
  PROVE  DispatchLegal
  <1> DEFINE d == dispatchInterrupt(cur_privilege)
  <1>0. cur_privilege \in {0, 1, 3} /\ mip \subseteq Lines
    BY DEF TypeOK, Privilege, User, Supervisor, Machine
  <1>1. CASE mPending # {} /\ mIE(cur_privilege)
    <2>1. mPending \subseteq Lines BY <1>0 DEF mPending
    <2>2. findPendingInterrupt(mPending) \in mPending BY <1>1, <2>1, FindPending
    <2>3. d = [line |-> findPendingInterrupt(mPending), priv |-> Machine]
      BY <1>1 DEF dispatchInterrupt
    <2>4. d.priv = 3 /\ d.line \in mPending BY <2>2, <2>3 DEF Machine
    <2> QED BY <1>0, <2>4 DEF DispatchLegal, mPending, Supervisor
  <1>2. CASE /\ ~(mPending # {} /\ mIE(cur_privilege))
             /\ sPending # {} /\ sIE(cur_privilege)
    <2>1. sPending \subseteq Lines BY <1>0 DEF sPending
    <2>2. findPendingInterrupt(sPending) \in sPending BY <1>2, <2>1, FindPending
    <2>3. d = [line |-> findPendingInterrupt(sPending), priv |-> Supervisor]
      BY <1>2 DEF dispatchInterrupt
    <2>4. d.priv = 1 /\ d.line \in sPending BY <2>2, <2>3 DEF Supervisor
    <2>5. cur_privilege \in {0, 1}
      BY <1>2 DEF sIE, User, Supervisor
    <2> QED BY <2>4, <2>5 DEF DispatchLegal, sPending, Supervisor
  <1>3. CASE /\ ~(mPending # {} /\ mIE(cur_privilege))
             /\ ~(sPending # {} /\ sIE(cur_privilege))
    BY <1>3 DEF DispatchLegal, dispatchInterrupt
  <1> QED BY <1>1, <1>2, <1>3

(* Every trapping step is one call of trap_handler, at a level at or above *)
(* the current one.                                                        *)
LEMMA TrapIsHandler ==
  ASSUME TypeOK, Trap
  PROVE  \E d \in {Machine, Supervisor}, intr \in BOOLEAN, c \in Nat :
           trap_handler(d, intr, c) /\ d >= cur_privilege
  <1> DEFINE Goal == \E d \in {Machine, Supervisor}, intr \in BOOLEAN, c \in Nat :
                       trap_handler(d, intr, c) /\ d >= cur_privilege
  <1>1. ASSUME NEW e \in ExcCodes, handle_exception(e) PROVE Goal
    <2>1. cur_privilege \in Privilege BY DEF TypeOK
    <2>2. e \in Nat BY DEF ExcCodes
    <2> DEFINE d == exception_delegatee(e, cur_privilege)
    <2>3. d \in {Machine, Supervisor} /\ d >= cur_privilege BY <2>1, DelegateeType
    <2>4. trap_handler(d, FALSE, e) BY <1>1 DEF handle_exception
    <2> HIDE DEF d
    <2> QED BY <2>2, <2>3, <2>4
  <1>2. CASE TakeInterrupt
    <2> DEFINE d == dispatchInterrupt(cur_privilege)
    <2>1. d # None /\ trap_handler(d.priv, TRUE, d.line) BY <1>2 DEF TakeInterrupt
    <2>2. d.priv >= cur_privilege /\ d.line \in mip
      BY <2>1, DispatchType DEF DispatchLegal
    <2>3. d.priv \in {Machine, Supervisor} BY <2>1 DEF dispatchInterrupt
    <2> HIDE DEF d
    <2>4. mip \subseteq {11, 9, 7, 5, 3, 1}
      BY ConstantsAssumption
         DEF TypeOK, MachineLines, SupervisorLines, MEI, SEI, MTI, STI, MSI, SSI
    <2>5. \A i \in mip : i \in Nat BY <2>4
    <2>6. d.line \in Nat BY <2>2, <2>5, Zenon
    <2> QED BY <2>1, <2>2, <2>3, <2>6
  <1>3. CASE \E e \in ExcCodes : handle_exception(e) BY <1>1, <1>3
  <1>4. TakeInterrupt \/ \E e \in ExcCodes : handle_exception(e)
    BY ConstantsAssumption
       DEF Trap, Fault, MisalignedJump, Ecall, Ebreak, IllegalShort, IllegalWfi,
           IllegalMret, IllegalSret, CsrDenied, ExcCodes, E_Fetch_Addr_Align,
           E_Illegal_Instr, E_Breakpoint, E_U_EnvCall, E_S_EnvCall, E_M_EnvCall,
           TypeOK, Privilege
  <1> QED BY <1>2, <1>3, <1>4

(* What the two returns leave in mstatus is legal (exception_handler). *)
LEMMA XretMstatusType ==
  ASSUME NEW m \in Mstatus
  PROVE  /\ MretMstatus(m) \in Mstatus
         /\ m.MPP # Machine => MretMstatus(m).MPRV = 0
         /\ SretMstatus(m) \in Mstatus
         /\ SretMstatus(m).MPRV = 0
  <1> DEFINE mprv == IF m.MPP # Machine THEN 0 ELSE m.MPRV
  <1>0. 0 \in Bit /\ 1 \in Bit /\ User \in Privilege BY DEF Bit, Privilege
  <1>1. mprv \in Bit BY <1>0 DEF Mstatus, MstatusFields
  <1>2. MretMstatus(m) = [m EXCEPT !.MIE = m.MPIE, !.MPIE = 1, !.MPP = User, !.MPRV = mprv]
    BY DEF MretMstatus
  <1>3. m.MPP # Machine => mprv = 0 OBVIOUS
  <1> HIDE DEF mprv
  <1>4. MretMstatus(m) \in Mstatus /\ MretMstatus(m).MPRV = mprv
    BY <1>0, <1>1, <1>2 DEF Mstatus, MstatusFields
  <1>5. SretMstatus(m) \in Mstatus /\ SretMstatus(m).MPRV = 0
    BY <1>0 DEF SretMstatus, Mstatus, MstatusFields
  <1> QED BY <1>3, <1>4, <1>5

(* A write to mstatus leaves a supported level in MPP (legalize_mstatus).  *)
LEMMA LegalizeMstatusType ==
  ASSUME NEW v \in MstatusFields(0 .. 3)
  PROVE  legalize_mstatus(v) \in Mstatus
  <1> DEFINE mpp == IF have_privLevel(v.MPP) THEN v.MPP ELSE User
  <1>1. mpp \in Privilege BY DEF have_privLevel, Privilege
  <1>2. legalize_mstatus(v) = [v EXCEPT !.MPP = mpp] BY DEF legalize_mstatus
  <1> HIDE DEF mpp
  <1> QED BY <1>1, <1>2 DEF Mstatus, MstatusFields

(* A write to sstatus legalizes to mstatus with three fields replaced: MPP *)
(* is already legal (legalize_sstatus).                                    *)
LEMMA LiftSstatusType ==
  ASSUME NEW m \in Mstatus, NEW v \in MstatusFields(0 .. 3)
  PROVE  legalize_mstatus(lift_sstatus(m, v)) \in Mstatus /\
         legalize_mstatus(lift_sstatus(m, v)).MPRV = m.MPRV
  <1> DEFINE w == lift_sstatus(m, v)
  <1>1. w \in Mstatus /\ w.MPRV = m.MPRV
    BY DEF lift_sstatus, Mstatus, MstatusFields
  <1>2. legalize_mstatus(w) = [w EXCEPT !.MPP = w.MPP]
    BY <1>1 DEF legalize_mstatus, have_privLevel, Mstatus, MstatusFields
  <1> HIDE DEF w
  <1>3. legalize_mstatus(w) \in Mstatus /\ legalize_mstatus(w).MPRV = m.MPRV
    BY <1>1, <1>2 DEF Mstatus, MstatusFields
  <1> QED BY <1>3 DEF w

(* The inductive invariant: the three parts need one another only through  *)
(* the types.                                                              *)
Inv == TypeOK /\ MPRVOnlyInMachine /\ PCAligned

(* One call of step(), or a change of the CLINT lines, keeps the           *)
(* invariant: one case per group of actions.                               *)
LEMMA InvStep ==
  ASSUME Inv, [Next]_vars
  PROVE  Inv'
  <1> USE DEF Inv
  <1>0. TypeOK /\ PC \in Address /\ mstatus \in Mstatus /\ misaC \in BOOLEAN
    BY DEF TypeOK
  <1>1. CASE Trap
    <2>1. PICK d \in {Machine, Supervisor}, intr \in BOOLEAN, c \in Nat :
            trap_handler(d, intr, c) /\ d >= cur_privilege
      BY <1>1, TrapIsHandler
    <2>2. TypeOK' /\ PC'.half = 0 /\ mstatus'.MPRV = mstatus.MPRV /\ cur_privilege' = d
      BY <2>1, TrapStep
    <2>3. cur_privilege' # Machine => cur_privilege # Machine
      BY <2>1, <2>2, <1>0 DEF TypeOK, Privilege, Machine, Supervisor, User
    <2> QED BY <2>2, <2>3 DEF MPRVOnlyInMachine, PCAligned
  <1>2. CASE Plain
    <2>1. PICK a \in Address : NextIs(a) /\ (a.half = 1 => misaC \/ PC.half = 1)
      <3>1. PlusWords(PC, 1) \in Address /\ PlusWords(PC, 1).half = PC.half
        BY <1>0, PlusWordsType
      <3>2. PlusTwo(PC) \in Address BY <1>0, PlusTwoType
      <3> QED BY <1>2, <3>1, <3>2 DEF Plain, Retire, Jump, Wfi, Successor, Ext_Zca
    <2>2. a.half \in {0, 1} BY DEF Address
    <2> QED BY <2>1, <2>2 DEF NextIs, TypeOK, MPRVOnlyInMachine, PCAligned, intrVars
  <1>3. CASE Mret \/ Sret
    <2>1. PICK p \in Privilege, m \in Mstatus, epc \in Address :
            xret(p, m, epc) /\ (p # Machine => m.MPRV = 0)
      <3>1. mstatus.MPP \in Privilege BY <1>0 DEF Mstatus, MstatusFields
      <3>2. (IF mstatus.SPP = 1 THEN Supervisor ELSE User) \in Privilege BY DEF Privilege
      <3>3. mepc \in Address /\ sepc \in Address BY DEF TypeOK
      <3> QED BY <1>0, <1>3, <3>1, <3>2, <3>3, XretMstatusType DEF Mret, Sret
    <2>2. pc_alignment_mask(epc) \in Address /\ (~misaC => pc_alignment_mask(epc).half = 0)
      BY DEF pc_alignment_mask, Address
    <2> QED BY <2>1, <2>2 DEF xret, TypeOK, MPRVOnlyInMachine, PCAligned, intrVars
  <1>4. CASE WriteCsr
    <2>0. PlusWords(PC, 1) \in Address /\ PlusWords(PC, 1).half = PC.half
      BY <1>0, PlusWordsType
    <2>1. ASSUME NEW csr, CsrWrite(csr)
          PROVE  PC' \in Address /\ PC'.half = PC.half /\ cur_privilege' = cur_privilege
      BY <2>0, <2>1 DEF CsrWrite
    <2>2. CASE \E v \in MstatusInputs : WriteMstatus(v)
      <3>1. PICK v \in MstatusInputs : WriteMstatus(v) BY <2>2
      <3>2. mstatus' \in Mstatus
        BY <3>1, LegalizeMstatusType, ConstantsAssumption DEF WriteMstatus
      <3>3. csrPriv(mstatus_csr) = 3 BY DEF csrPriv, mstatus_csr
      <3>4. cur_privilege = Machine
        BY <3>1, <3>3
           DEF WriteMstatus, CsrWrite, check_CSR, TypeOK, Privilege, Machine, User, Supervisor
      <3> QED BY <2>1, <3>1, <3>2, <3>4
              DEF WriteMstatus, TypeOK, MPRVOnlyInMachine, PCAligned, intrVars
    <2>3. CASE \E v \in SstatusInputs : WriteSstatus(v)
      <3>1. PICK v \in SstatusInputs : WriteSstatus(v) BY <2>3
      <3>2. mstatus' \in Mstatus /\ mstatus'.MPRV = mstatus.MPRV
        BY <1>0, <3>1, LiftSstatusType, ConstantsAssumption DEF WriteSstatus
      <3> QED BY <2>1, <3>1, <3>2
              DEF WriteSstatus, TypeOK, MPRVOnlyInMachine, PCAligned, intrVars
    <2>4. CASE \E v \in BOOLEAN : WriteMisa(v)
      <3>1. PICK v \in BOOLEAN : WriteMisa(v) BY <2>4
      <3>2. misaC' \in BOOLEAN BY <1>0, <3>1 DEF WriteMisa, legalize_misa
      <3>3. ~misaC' => PC.half = 0
        BY <1>0, <2>0, <3>1 DEF WriteMisa, legalize_misa, PCAligned, Address
      <3> QED BY <2>1, <3>1, <3>2, <3>3
              DEF WriteMisa, TypeOK, MPRVOnlyInMachine, PCAligned, intrVars
    <2>5. CASE \E a \in Address : WriteMepc(a) \/ WriteSepc(a)
      <3>1. PICK a \in Address : WriteMepc(a) \/ WriteSepc(a) BY <2>5
      <3>2. legalize_xepc(a) \in Address BY DEF legalize_xepc, Address
      <3> QED BY <2>1, <3>1, <3>2
              DEF WriteMepc, WriteSepc, TypeOK, MPRVOnlyInMachine, PCAligned, intrVars
    <2>6. CASE \E v \in TvecInputs : WriteMtvec(v) \/ WriteStvec(v)
      <3>1. PICK v \in TvecInputs : WriteMtvec(v) \/ WriteStvec(v) BY <2>6
      <3>2. \A o \in Tvec : legalize_tvec(o, v) \in Tvec
        BY ConstantsAssumption DEF legalize_tvec, Tvec
      <3> QED BY <2>1, <3>1, <3>2
              DEF WriteMtvec, WriteStvec, TypeOK, MPRVOnlyInMachine, PCAligned, intrVars
    <2>7. CASE \E v \in IntrInputs : \/ WriteMip(v) \/ WriteMie(v) \/ WriteMideleg(v)
                                     \/ WriteSip(v) \/ WriteSie(v)
      <3>1. PICK v \in IntrInputs : \/ WriteMip(v) \/ WriteMie(v) \/ WriteMideleg(v)
                                    \/ WriteSip(v) \/ WriteSie(v)
        BY <2>7
      <3>2. v \subseteq Lines BY ConstantsAssumption
      <3>3. mip' \subseteq Lines /\ mie' \subseteq Lines /\ mideleg' \subseteq Lines \ MachineLines
        BY <3>1, <3>2 DEF WriteMip, WriteMie, WriteMideleg, WriteSip, WriteSie, TypeOK,
             legalize_mip, legalize_mideleg, lift_sip, lift_sie
      <3>4. \E csr : IntrWrite(csr) /\ UNCHANGED medeleg
        BY <3>1 DEF WriteMip, WriteMie, WriteMideleg, WriteSip, WriteSie
      <3> QED BY <2>1, <3>3, <3>4 DEF IntrWrite, TypeOK, MPRVOnlyInMachine, PCAligned
    <2>8. CASE \E v \in MedelegInputs : WriteMedeleg(v)
      BY <2>1, <2>8, ConstantsAssumption
         DEF WriteMedeleg, IntrWrite, legalize_medeleg, TypeOK, MPRVOnlyInMachine, PCAligned
    <2> QED BY <1>4, <2>2, <2>3, <2>4, <2>5, <2>6, <2>7, <2>8 DEF WriteCsr, WriteOther
  <1>5. CASE ClintUpdate
    BY <1>5 DEF ClintUpdate, TypeOK, MPRVOnlyInMachine, PCAligned
  <1>6. CASE UNCHANGED vars
    BY <1>6 DEF vars, intrVars, TypeOK, MPRVOnlyInMachine, PCAligned
  <1> QED BY <1>1, <1>2, <1>3, <1>4, <1>5, <1>6 DEF Next

(* The reset state of init_sys satisfies the invariant. *)
LEMMA InvInit == Init => Inv
  <1> SUFFICES ASSUME Init PROVE Inv OBVIOUS
  <1>1. 0 \in Bit /\ 0 \in Words /\ User \in Privilege /\ Machine \in Privilege
    BY ConstantsAssumption DEF Bit, Words, Privilege
  <1>2. mstatus \in Mstatus BY <1>1 DEF Init, Mstatus, MstatusFields
  <1>3. PC \in Address /\ mepc \in Address /\ sepc \in Address /\ PC.half = 0
    BY <1>1 DEF Init, Address
  <1>4. mtvec \in Tvec /\ stvec \in Tvec BY <1>1 DEF Init, Tvec, TvecModes
  <1> QED BY <1>1, <1>2, <1>3, <1>4, ConstantsAssumption
          DEF Init, Inv, TypeOK, MPRVOnlyInMachine, PCAligned

(* In every reachable state the registers hold legal values, MPRV is clear *)
(* below M, and the PC is word aligned when compressed instructions are    *)
(* off.                                                                    *)
THEOREM SysInvariant == Spec => []Inv
  BY InvInit, InvStep, PTL DEF Spec

(* Register legality: no reserved MPP or vector mode, nothing machine-level *)
(* delegated.                                                              *)
THEOREM SysTypeCorrect == Spec => []TypeOK
  BY SysInvariant, PTL DEF Inv

(* MPRV below M is always clear, so effectivePrivilege never lends S or U  *)
(* code the rights in MPP.                                                 *)
THEOREM SysMPRV == Spec => []MPRVOnlyInMachine
  BY SysInvariant, PTL DEF Inv

(* fetch() never sees a misaligned PC when misa.C is clear.                *)
THEOREM SysPCAligned == Spec => []PCAligned
  BY SysInvariant, PTL DEF Inv

(* Interrupts are dispatched upwards only, and to S only when delegated:   *)
(* the internal errors of trap_handler are unreachable.                    *)
THEOREM SysDispatchLegal == Spec => []DispatchLegal
  BY SysTypeCorrect, DispatchType, PTL

(* While the hart is below M an undelegated pending interrupt reaches M    *)
(* whatever S code put in sstatus: mIE does not look at it.                *)
THEOREM SysUnmaskable == Spec => []MachineInterruptsUnmaskable
  <1>1. MachineInterruptsUnmaskable
    BY DEF MachineInterruptsUnmaskable, dispatchInterrupt, mIE
  <1> QED BY <1>1, PTL

(* Of the actions only the two returns can lower the privilege: a trap     *)
(* goes up or stays, and nothing else assigns cur_privilege.               *)
LEMMA DropStep ==
  ASSUME TypeOK, [Next]_vars, cur_privilege' < cur_privilege
  PROVE  Mret \/ Sret
  <1>0. cur_privilege \in {0, 1, 3} BY DEF TypeOK, Privilege, User, Supervisor, Machine
  <1>1. ASSUME Trap PROVE FALSE
    <2>1. PICK d \in {Machine, Supervisor}, intr \in BOOLEAN, c \in Nat :
            trap_handler(d, intr, c) /\ d >= cur_privilege
      BY <1>1, TrapIsHandler
    <2>2. cur_privilege' = d BY <2>1 DEF trap_handler
    <2> QED BY <1>0, <2>1, <2>2 DEF Machine, Supervisor
  <1>2. ASSUME Plain \/ WriteCsr \/ ClintUpdate \/ UNCHANGED vars
        PROVE  cur_privilege' = cur_privilege
    BY <1>2 DEF Plain, Retire, Jump, Wfi, NextIs, WriteCsr, WriteOther, WriteMstatus,
         WriteSstatus, WriteMisa, WriteMepc, WriteSepc, WriteMtvec, WriteStvec, WriteMip,
         WriteMie, WriteMideleg, WriteMedeleg, WriteSip, WriteSie, IntrWrite, CsrWrite,
         ClintUpdate, vars
  <1> QED BY <1>0, <1>1, <1>2 DEF Next

(* Privilege is lowered by MRET and SRET alone. *)
THEOREM SysDropsOnlyByXret == Spec => PrivilegeDropsOnlyByXret
  <1>1. TypeOK /\ [Next]_vars => [cur_privilege' < cur_privilege => Mret \/ Sret]_vars
    BY DropStep
  <1> QED BY <1>1, SysTypeCorrect, PTL DEF Spec, PrivilegeDropsOnlyByXret

(* What sstatus, a trap to S and SRET do to mstatus leaves its machine     *)
(* fields alone, once MPRV is clear (lift_sstatus, trap_handler,           *)
(* exception_handler).                                                     *)
LEMMA SupervisorKeepsFields ==
  ASSUME NEW m \in Mstatus, NEW f \in MachineFields
  PROVE  /\ \A p \in Privilege : TrapMstatus(m, p, Supervisor)[f] = m[f]
         /\ m.MPRV = 0 => SretMstatus(m)[f] = m[f]
         /\ \A v \in MstatusFields(0 .. 3) : legalize_mstatus(lift_sstatus(m, v))[f] = m[f]
  <1> USE DEF Mstatus, MstatusFields
  <1>0. f \in {"MIE", "MPIE", "MPP", "MPRV", "TSR", "TW"} BY DEF MachineFields
  <1>1. ASSUME NEW p \in Privilege PROVE TrapMstatus(m, p, Supervisor)[f] = m[f]
    <2> DEFINE spp == IF p = User THEN 0 ELSE 1
    <2>1. TrapMstatus(m, p, Supervisor) = [m EXCEPT !.SPIE = m.SIE, !.SIE = 0, !.SPP = spp]
      BY DEF TrapMstatus, Supervisor, Machine
    <2> HIDE DEF spp
    <2> QED BY <1>0, <2>1
  <1>2. m.MPRV = 0 => SretMstatus(m)[f] = m[f] BY <1>0 DEF SretMstatus
  <1>3. ASSUME NEW v \in MstatusFields(0 .. 3)
        PROVE  legalize_mstatus(lift_sstatus(m, v))[f] = m[f]
    <2> DEFINE w == lift_sstatus(m, v)
    <2>1. w \in Mstatus /\ w[f] = m[f] BY <1>0 DEF lift_sstatus
    <2>2. legalize_mstatus(w) = [w EXCEPT !.MPP = w.MPP]
      BY <2>1 DEF legalize_mstatus, have_privLevel
    <2> HIDE DEF w
    <2>3. legalize_mstatus(w)[f] = m[f] BY <1>0, <2>1, <2>2
    <2> QED BY <2>3 DEF w
  <1> QED BY <1>1, <1>2, <1>3

(* A step that starts and ends below M keeps the machine-level state: one  *)
(* case per group of actions.  The machine CSRs cannot be written there,   *)
(* and the windows sstatus, sie and sip reach their own bits only.         *)
LEMMA IsolationStep ==
  ASSUME Inv, [Next]_vars, cur_privilege # Machine, cur_privilege' # Machine
  PROVE  MachineState' = MachineState
  <1> DEFINE Rest == UNCHANGED <<misaC, mepc, mtvec, mideleg, medeleg>>
             Fields == \A f \in MachineFields : mstatus'[f] = mstatus[f]
             Intr == /\ mie' \ mideleg = mie \ mideleg
                     /\ mip' \cap (SupervisorLines \ mideleg)
                          = mip \cap (SupervisorLines \ mideleg)
  <1>0. TypeOK /\ mstatus \in Mstatus /\ cur_privilege \in Privilege /\ mstatus.MPRV = 0
    BY DEF Inv, TypeOK, MPRVOnlyInMachine
  <1>1. SUFFICES Rest /\ Fields /\ Intr
    BY DEF MachineState
  <1> USE DEF intrVars
  <1>2. CASE Trap
    <2>1. PICK d \in {Machine, Supervisor}, intr \in BOOLEAN, c \in Nat : trap_handler(d, intr, c)
      BY <1>0, <1>2, TrapIsHandler
    <2>2. d = Supervisor /\ d # Machine BY <2>1 DEF trap_handler, Machine, Supervisor
    <2>3. mstatus' = TrapMstatus(mstatus, cur_privilege, Supervisor) BY <2>1, <2>2 DEF trap_handler
    <2>4. Fields BY <1>0, <2>3, SupervisorKeepsFields
    <2> QED BY <2>1, <2>2, <2>4 DEF trap_handler
  <1>3. CASE Plain
    BY <1>3 DEF Plain, Retire, Jump, Wfi, NextIs
  <1>4. CASE Mret BY <1>4 DEF Mret
  <1>5. CASE Sret
    <2>1. Fields BY <1>0, <1>5, SupervisorKeepsFields DEF Sret, xret
    <2> QED BY <1>5, <2>1 DEF Sret, xret
  <1>6. CASE WriteCsr
    <2>1. ASSUME NEW csr, csr \in {mstatus_csr, misa_csr, medeleg_csr, mideleg_csr, mie_csr,
                                   mtvec_csr, mepc_csr, mip_csr}
          PROVE  ~CsrWrite(csr)
      <3>1. csrPriv(csr) = 3
        BY <2>1 DEF csrPriv, mstatus_csr, misa_csr, medeleg_csr, mideleg_csr, mie_csr,
             mtvec_csr, mepc_csr, mip_csr
      <3> QED BY <1>0, <3>1 DEF CsrWrite, check_CSR, Privilege, Machine, Supervisor, User
    <2>2. \/ \E v \in SstatusInputs : WriteSstatus(v)
          \/ \E a \in Address : WriteSepc(a)
          \/ \E v \in TvecInputs : WriteStvec(v)
          \/ \E v \in IntrInputs : WriteSip(v) \/ WriteSie(v)
      BY <1>6, <2>1 DEF WriteCsr, WriteOther, WriteMstatus, WriteMisa, WriteMepc, WriteMtvec,
           WriteMip, WriteMie, WriteMideleg, WriteMedeleg, IntrWrite
    <2>3. CASE \E v \in SstatusInputs : WriteSstatus(v)
      <3>1. PICK v \in SstatusInputs : WriteSstatus(v) BY <2>3
      <3>2. v \in MstatusFields(0 .. 3) BY ConstantsAssumption
      <3>3. Fields BY <1>0, <3>1, <3>2, SupervisorKeepsFields DEF WriteSstatus
      <3> QED BY <3>1, <3>3 DEF WriteSstatus
    <2>4. CASE \/ \E a \in Address : WriteSepc(a)
               \/ \E v \in TvecInputs : WriteStvec(v)
      BY <2>4 DEF WriteSepc, WriteStvec
    <2>5. CASE \E v \in IntrInputs : WriteSip(v) \/ WriteSie(v)
      BY <2>5 DEF WriteSip, WriteSie, IntrWrite, lift_sip, lift_sie
    <2> QED BY <2>2, <2>3, <2>4, <2>5
  <1>7. CASE ClintUpdate
    BY <1>7 DEF ClintUpdate, SupervisorLines, SEI, STI, SSI, MTI, MSI
  <1>8. CASE UNCHANGED vars
    BY <1>8 DEF vars
  <1> QED BY <1>2, <1>3, <1>4, <1>5, <1>6, <1>7, <1>8 DEF Next

(* S and U code cannot change what machine mode has set up. *)
THEOREM SysMachineStateIsolated == Spec => MachineStateIsolated
  <1>1. Inv /\ [Next]_vars
          => [(cur_privilege # Machine /\ cur_privilege' # Machine)
                => MachineState' = MachineState]_vars
    BY IsolationStep
  <1> QED BY <1>1, SysInvariant, PTL DEF Spec, MachineStateIsolated
-----------------------------------------------------------------------------
(* TrapFrames: what a trap saves is what the matching return gives back.    *)

(* The two levels that take traps each have a frame. *)
FrameType == DOMAIN frame = {Machine, Supervisor}

FInv == Inv /\ FrameType /\ FrameHeld

(* The history variable adds nothing to the hart's steps. *)
LEMMA FNextIsNext == ASSUME FNext PROVE Next
  BY DEF FNext, FTrap, FMret, FSret, FWriteMstatus, FWriteSstatus, FWriteMisa,
         FWriteMepc, FWriteSepc, FOther, Next, WriteCsr

(* The two halves of FrameHeld, each about one level's registers. *)
MachineFrameHeld(f) ==
  f # NoFrame => /\ mstatus.MPP = f.priv
                 /\ mstatus.MPIE = f.ie
                 /\ mepc = f.pc
                 /\ ~misaC => f.pc.half = 0
                 /\ f.priv # Machine => f.mprv = 0
                 /\ f.priv = Machine /\ cur_privilege = Machine => mstatus.MPRV = f.mprv

SupervisorFrameHeld(f) ==
  f # NoFrame => /\ f.priv = IF mstatus.SPP = 1 THEN Supervisor ELSE User
                 /\ mstatus.SPIE = f.ie
                 /\ sepc = f.pc
                 /\ ~misaC => f.pc.half = 0
                 /\ f.mprv = 0

(* What the two levels have saved, each by itself. *)
LEMMA FrameHalves ==
  FrameHeld <=> MachineFrameHeld(frame[Machine]) /\ SupervisorFrameHeld(frame[Supervisor])
  BY DEF FrameHeld, MachineFrameHeld, SupervisorFrameHeld

(* A level that forgets its frame promises nothing, the other keeps it. *)
LEMMA ForgetFrames ==
  ASSUME NEW levels, frame' = Forget(levels)
  PROVE  /\ FrameType'
         /\ Machine \in levels => frame'[Machine] = NoFrame
         /\ Machine \notin levels => frame'[Machine] = frame[Machine]
         /\ Supervisor \in levels => frame'[Supervisor] = NoFrame
         /\ Supervisor \notin levels => frame'[Supervisor] = frame[Supervisor]
  BY DEF Forget, FrameType

(* The fields of mstatus after a trap: the level's own stack is pushed,    *)
(* the other level's fields stay (trap_handler).                           *)
LEMMA TrapFields ==
  ASSUME NEW m \in Mstatus, NEW p \in Privilege
  PROVE  /\ TrapMstatus(m, p, Machine).MPP = p
         /\ TrapMstatus(m, p, Machine).MPIE = m.MIE
         /\ TrapMstatus(m, p, Machine).SPP = m.SPP
         /\ TrapMstatus(m, p, Machine).SPIE = m.SPIE
         /\ TrapMstatus(m, p, Supervisor).SPP = IF p = User THEN 0 ELSE 1
         /\ TrapMstatus(m, p, Supervisor).SPIE = m.SIE
         /\ TrapMstatus(m, p, Supervisor).MPP = m.MPP
         /\ TrapMstatus(m, p, Supervisor).MPIE = m.MPIE
  <1> DEFINE spp == IF p = User THEN 0 ELSE 1
  <1>1. TrapMstatus(m, p, Machine) = [m EXCEPT !.MPIE = m.MIE, !.MIE = 0, !.MPP = p]
    BY DEF TrapMstatus
  <1>2. TrapMstatus(m, p, Supervisor) = [m EXCEPT !.SPIE = m.SIE, !.SIE = 0, !.SPP = spp]
    BY DEF TrapMstatus, Supervisor, Machine
  <1> HIDE DEF spp
  <1>3. /\ TrapMstatus(m, p, Supervisor).SPP = spp
        /\ TrapMstatus(m, p, Supervisor).SPIE = m.SIE
        /\ TrapMstatus(m, p, Supervisor).MPP = m.MPP
        /\ TrapMstatus(m, p, Supervisor).MPIE = m.MPIE
    BY <1>2 DEF Mstatus, MstatusFields
  <1>4. /\ TrapMstatus(m, p, Machine).MPP = p
        /\ TrapMstatus(m, p, Machine).MPIE = m.MIE
        /\ TrapMstatus(m, p, Machine).SPP = m.SPP
        /\ TrapMstatus(m, p, Machine).SPIE = m.SPIE
    BY <1>1 DEF Mstatus, MstatusFields
  <1> QED BY <1>3, <1>4 DEF spp

(* The fields of mstatus after a return: the level's own stack is popped,  *)
(* the other level's fields stay (exception_handler).                      *)
LEMMA XretFields ==
  ASSUME NEW m \in Mstatus
  PROVE  /\ MretMstatus(m).MIE = m.MPIE
         /\ MretMstatus(m).MPRV = IF m.MPP # Machine THEN 0 ELSE m.MPRV
         /\ MretMstatus(m).SPP = m.SPP
         /\ MretMstatus(m).SPIE = m.SPIE
         /\ SretMstatus(m).SIE = m.SPIE
         /\ SretMstatus(m).MPRV = 0
         /\ SretMstatus(m).MPP = m.MPP
         /\ SretMstatus(m).MPIE = m.MPIE
  <1> DEFINE mprv == IF m.MPP # Machine THEN 0 ELSE m.MPRV
  <1>1. MretMstatus(m) = [m EXCEPT !.MIE = m.MPIE, !.MPIE = 1, !.MPP = User, !.MPRV = mprv]
    BY DEF MretMstatus
  <1> HIDE DEF mprv
  <1>2. /\ MretMstatus(m).MIE = m.MPIE /\ MretMstatus(m).MPRV = mprv
        /\ MretMstatus(m).SPP = m.SPP /\ MretMstatus(m).SPIE = m.SPIE
    BY <1>1 DEF Mstatus, MstatusFields
  <1>3. /\ SretMstatus(m).SIE = m.SPIE /\ SretMstatus(m).MPRV = 0
        /\ SretMstatus(m).MPP = m.MPP /\ SretMstatus(m).MPIE = m.MPIE
    BY DEF SretMstatus, Mstatus, MstatusFields
  <1> QED BY <1>2, <1>3 DEF mprv

(* The frames stay held: one case per action, with the level the action    *)
(* works on first.                                                         *)
LEMMA FrameStep ==
  ASSUME FInv, [FNext]_allVars
  PROVE  FrameType' /\ FrameHeld'
  <1> DEFINE MGoal == MachineFrameHeld(frame[Machine])'
             SGoal == SupervisorFrameHeld(frame[Supervisor])'
             Regs  == UNCHANGED <<cur_privilege, mstatus, misaC, mepc, sepc>>
  <1>0. /\ Inv /\ TypeOK /\ mstatus \in Mstatus /\ cur_privilege \in Privilege
        /\ FrameType /\ Machine # Supervisor /\ User # Supervisor
        /\ MachineFrameHeld(frame[Machine]) /\ SupervisorFrameHeld(frame[Supervisor])
    BY FrameHalves DEF FInv, Inv, TypeOK, Machine, Supervisor, User
  <1>1. SUFFICES FrameType' /\ MGoal /\ SGoal
    <2>1. MGoal /\ SGoal => FrameHeld'
      BY DEF FrameHeld, MachineFrameHeld, SupervisorFrameHeld
    <2> QED BY <2>1
  <1>2. ASSUME Regs, FrameType', frame'[Machine] = frame[Machine] PROVE MGoal
    BY <1>0, <1>2 DEF MachineFrameHeld
  <1>3. ASSUME Regs, FrameType', frame'[Supervisor] = frame[Supervisor] PROVE SGoal
    BY <1>0, <1>3 DEF SupervisorFrameHeld
  <1>4. CASE FTrap
    <2>1. PICK d \in {Machine, Supervisor}, intr \in BOOLEAN, c \in Nat :
            trap_handler(d, intr, c) /\ d >= cur_privilege
      BY <1>0, <1>4, TrapIsHandler DEF FTrap
    <2>2. cur_privilege' = d /\ misaC' = misaC /\ mstatus' = TrapMstatus(mstatus, cur_privilege, d)
      BY <2>1 DEF trap_handler
    <2>3. frame' = [frame EXCEPT ![d] = Context(d)]
      BY <1>4, <2>2 DEF FTrap, Context
    <2>4. FrameType' /\ frame'[d] = Context(d) BY <1>0, <2>3 DEF FrameType
    <2>5. mstatus'.MPRV = mstatus.MPRV BY <1>0, <2>1, TrapStep
    <2>6. PC \in Address /\ (~misaC => PC.half = 0) /\ (cur_privilege # Machine => mstatus.MPRV = 0)
      BY <1>0 DEF Inv, TypeOK, PCAligned, MPRVOnlyInMachine
    <2>7. CASE d = Machine
      <3>1. /\ mepc' = PC /\ sepc' = sepc /\ frame'[Supervisor] = frame[Supervisor]
            /\ frame'[Machine] = [priv |-> cur_privilege, ie |-> mstatus.MIE,
                                  mprv |-> mstatus.MPRV, pc |-> PC]
        BY <1>0, <2>1, <2>3, <2>4, <2>7 DEF trap_handler, FrameType, Context
      <3>2. /\ mstatus'.MPP = cur_privilege /\ mstatus'.MPIE = mstatus.MIE
            /\ mstatus'.SPP = mstatus.SPP /\ mstatus'.SPIE = mstatus.SPIE
        BY <1>0, <2>2, <2>7, TrapFields
      <3>3. MGoal BY <2>2, <2>5, <2>6, <3>1, <3>2 DEF MachineFrameHeld
      <3>4. SGoal BY <1>0, <2>2, <3>1, <3>2 DEF SupervisorFrameHeld
      <3> QED BY <2>4, <3>3, <3>4
    <2>8. CASE d = Supervisor
      <3>0. cur_privilege \in {User, Supervisor} /\ cur_privilege # Machine
        BY <1>0, <2>1, <2>8 DEF Privilege, Machine, Supervisor, User
      <3>1. /\ sepc' = PC /\ mepc' = mepc /\ frame'[Machine] = frame[Machine]
            /\ frame'[Supervisor] = [priv |-> cur_privilege, ie |-> mstatus.SIE,
                                     mprv |-> mstatus.MPRV, pc |-> PC]
        BY <1>0, <2>1, <2>3, <2>4, <2>8 DEF trap_handler, FrameType, Context
      <3>2. /\ mstatus'.SPP = IF cur_privilege = User THEN 0 ELSE 1
            /\ mstatus'.SPIE = mstatus.SIE
            /\ mstatus'.MPP = mstatus.MPP /\ mstatus'.MPIE = mstatus.MPIE
        BY <1>0, <2>2, <2>8, TrapFields
      <3>3. MGoal BY <1>0, <2>2, <2>8, <3>1, <3>2 DEF MachineFrameHeld
      <3>4. SGoal BY <1>0, <2>2, <2>6, <3>0, <3>1, <3>2 DEF SupervisorFrameHeld
      <3> QED BY <2>4, <3>3, <3>4
    <2> QED BY <2>7, <2>8
  <1>5. CASE FMret
    <2>1. FrameType' /\ frame'[Machine] = NoFrame /\ frame'[Supervisor] = frame[Supervisor]
      BY <1>0, <1>5, ForgetFrames DEF FMret
    <2>2. UNCHANGED <<misaC, sepc>> /\ mstatus' = MretMstatus(mstatus)
      BY <1>5 DEF FMret, Mret, xret
    <2>3. mstatus'.SPP = mstatus.SPP /\ mstatus'.SPIE = mstatus.SPIE BY <1>0, <2>2, XretFields
    <2>4. MGoal BY <2>1 DEF MachineFrameHeld
    <2>5. SGoal BY <1>0, <2>1, <2>2, <2>3 DEF SupervisorFrameHeld
    <2> QED BY <2>1, <2>4, <2>5
  <1>6. CASE FSret
    <2>1. FrameType' /\ frame'[Supervisor] = NoFrame /\ frame'[Machine] = frame[Machine]
      BY <1>0, <1>6, ForgetFrames DEF FSret
    <2>2. /\ UNCHANGED <<misaC, mepc>> /\ mstatus' = SretMstatus(mstatus)
          /\ cur_privilege' # Machine
      BY <1>6 DEF FSret, Sret, xret, Machine, Supervisor, User
    <2>3. mstatus'.MPP = mstatus.MPP /\ mstatus'.MPIE = mstatus.MPIE BY <1>0, <2>2, XretFields
    <2>4. SGoal BY <2>1 DEF SupervisorFrameHeld
    <2>5. MGoal BY <1>0, <2>1, <2>2, <2>3 DEF MachineFrameHeld
    <2> QED BY <2>1, <2>4, <2>5
  <1>7. CASE FWriteMstatus \/ FWriteMisa
    <2>1. FrameType' /\ frame'[Machine] = NoFrame /\ frame'[Supervisor] = NoFrame
      BY <1>7, ForgetFrames DEF FWriteMstatus, FWriteMisa
    <2> QED BY <2>1 DEF MachineFrameHeld, SupervisorFrameHeld
  <1>8. CASE FWriteSstatus
    <2>1. FrameType' /\ frame'[Supervisor] = NoFrame /\ frame'[Machine] = frame[Machine]
      BY <1>0, <1>8, ForgetFrames DEF FWriteSstatus
    <2>2. PICK v \in SstatusInputs : WriteSstatus(v) BY <1>8 DEF FWriteSstatus
    <2>3. v \in MstatusFields(0 .. 3) BY ConstantsAssumption
    <2>4. \A f \in MachineFields : mstatus'[f] = mstatus[f]
      BY <1>0, <2>2, <2>3, SupervisorKeepsFields DEF WriteSstatus
    <2>5. mstatus'.MPP = mstatus.MPP /\ mstatus'.MPIE = mstatus.MPIE /\ mstatus'.MPRV = mstatus.MPRV
      BY <2>4 DEF MachineFields
    <2>6. UNCHANGED <<cur_privilege, misaC, mepc>> BY <2>2 DEF WriteSstatus, CsrWrite
    <2>7. MGoal BY <1>0, <2>1, <2>5, <2>6 DEF MachineFrameHeld
    <2>8. SGoal BY <2>1 DEF SupervisorFrameHeld
    <2> QED BY <2>1, <2>7, <2>8
  <1>9. CASE FWriteMepc
    <2>1. FrameType' /\ frame'[Machine] = NoFrame /\ frame'[Supervisor] = frame[Supervisor]
      BY <1>0, <1>9, ForgetFrames DEF FWriteMepc
    <2>2. UNCHANGED <<mstatus, misaC, sepc>> BY <1>9 DEF FWriteMepc, WriteMepc
    <2>3. MGoal BY <2>1 DEF MachineFrameHeld
    <2>4. SGoal BY <1>0, <2>1, <2>2 DEF SupervisorFrameHeld
    <2> QED BY <2>1, <2>3, <2>4
  <1>10. CASE FWriteSepc
    <2>1. FrameType' /\ frame'[Supervisor] = NoFrame /\ frame'[Machine] = frame[Machine]
      BY <1>0, <1>10, ForgetFrames DEF FWriteSepc
    <2>2. UNCHANGED <<cur_privilege, mstatus, misaC, mepc>>
      BY <1>10 DEF FWriteSepc, WriteSepc, CsrWrite
    <2>3. SGoal BY <2>1 DEF SupervisorFrameHeld
    <2>4. MGoal BY <1>0, <2>1, <2>2 DEF MachineFrameHeld
    <2> QED BY <2>1, <2>3, <2>4
  <1>11. CASE FOther
    <2>1. Regs /\ UNCHANGED frame
      BY <1>11 DEF FOther, Plain, Retire, Jump, Wfi, NextIs, WriteOther, WriteMtvec, WriteStvec,
           WriteMip, WriteMie, WriteMideleg, WriteMedeleg, WriteSip, WriteSie, IntrWrite,
           CsrWrite, ClintUpdate
    <2> QED BY <1>0, <1>2, <1>3, <2>1 DEF FrameType
  <1>12. CASE UNCHANGED allVars
    <2>1. Regs /\ UNCHANGED frame BY <1>12 DEF allVars, vars
    <2> QED BY <1>0, <1>2, <1>3, <2>1 DEF FrameType
  <1> QED BY <1>4, <1>5, <1>6, <1>7, <1>8, <1>9, <1>10, <1>11, <1>12 DEF FNext

(* At reset no frame has been saved. *)
LEMMA FInvInit == FInit => FInv
  <1> SUFFICES ASSUME FInit PROVE FInv OBVIOUS
  <1>1. Inv BY InvInit DEF FInit
  <1>2. FrameType /\ frame[Machine] = NoFrame /\ frame[Supervisor] = NoFrame
    BY DEF FInit, FrameType
  <1> QED BY <1>1, <1>2 DEF FInv, FrameHeld

(* Every step of the hart or of a handler keeps what the frames promise. *)
LEMMA FInvStep == FInv /\ [FNext]_allVars => FInv'
  <1> SUFFICES ASSUME FInv, [FNext]_allVars PROVE FInv' OBVIOUS
  <1>1. [Next]_vars BY FNextIsNext DEF allVars
  <1>2. Inv' BY <1>1, InvStep DEF FInv
  <1> QED BY <1>2, FrameStep DEF FInv

(* The invariant behind both results on trap frames. *)
THEOREM FrameInvariant == FSpec => []FInv
  BY FInvInit, FInvStep, PTL DEF FSpec

(* The CSRs hold the context of the last trap to each level until software *)
(* writes one of them: nested traps to the other level, and returns        *)
(* through it, do not disturb it.                                          *)
THEOREM FramesHeld == FSpec => []FrameHeld
  BY FrameInvariant, PTL DEF FInv

(* A return at a level whose context is still held restores it. *)
LEMMA RestoreStep ==
  ASSUME FInv
  PROVE  /\ frame[Machine] # NoFrame /\ FMret => Restored(Machine)
         /\ frame[Supervisor] # NoFrame /\ FSret => Restored(Supervisor)
  <1>0. /\ mstatus \in Mstatus /\ mepc \in Address /\ sepc \in Address
        /\ Machine # Supervisor
        /\ MachineFrameHeld(frame[Machine]) /\ SupervisorFrameHeld(frame[Supervisor])
    BY FrameHalves DEF FInv, Inv, TypeOK, Machine, Supervisor
  <1>1. ASSUME NEW a \in Address, ~misaC => a.half = 0
        PROVE  pc_alignment_mask(a) = a
    BY <1>1 DEF pc_alignment_mask, Address
  <1>2. ASSUME frame[Machine] # NoFrame, FMret PROVE Restored(Machine)
    <2>1. /\ cur_privilege = Machine /\ cur_privilege' = mstatus.MPP
          /\ mstatus' = MretMstatus(mstatus) /\ PC' = pc_alignment_mask(mepc)
      BY <1>2 DEF FMret, Mret, xret
    <2>2. PC' = mepc BY <1>0, <1>1, <1>2, <2>1 DEF MachineFrameHeld
    <2>3. /\ mstatus'.MIE = mstatus.MPIE
          /\ mstatus'.MPRV = IF mstatus.MPP # Machine THEN 0 ELSE mstatus.MPRV
      BY <1>0, <2>1, XretFields
    <2> QED BY <1>0, <1>2, <2>1, <2>2, <2>3 DEF Restored, MachineFrameHeld
  <1>3. ASSUME frame[Supervisor] # NoFrame, FSret PROVE Restored(Supervisor)
    <2>1. /\ cur_privilege' = IF mstatus.SPP = 1 THEN Supervisor ELSE User
          /\ mstatus' = SretMstatus(mstatus) /\ PC' = pc_alignment_mask(sepc)
      BY <1>3 DEF FSret, Sret, xret
    <2>2. PC' = sepc BY <1>0, <1>1, <1>3, <2>1 DEF SupervisorFrameHeld
    <2>3. mstatus'.SIE = mstatus.SPIE /\ mstatus'.MPRV = 0 BY <1>0, <2>1, XretFields
    <2> QED BY <1>0, <1>3, <2>1, <2>2, <2>3 DEF Restored, SupervisorFrameHeld
  <1> QED BY <1>2, <1>3

(* MRET and SRET return to the interrupted privilege, PC, interrupt enable *)
(* and MPRV, over any nesting of traps and any handler that leaves the     *)
(* CSRs of its own level alone.                                            *)
THEOREM ReturnsRestore == FSpec => ReturnRestoresContext
  <1>1. FInv => [/\ frame[Machine] # NoFrame /\ FMret => Restored(Machine)
                 /\ frame[Supervisor] # NoFrame /\ FSret => Restored(Supervisor)]_allVars
    BY RestoreStep
  <1> QED BY <1>1, FrameInvariant, PTL DEF ReturnRestoresContext
=============================================================================
