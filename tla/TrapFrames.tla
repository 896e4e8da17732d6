----------------------------- MODULE TrapFrames -----------------------------
(***************************************************************************)
(* SysControl with a history variable: for each level that takes traps,    *)
(* the context the last trap to it interrupted, forgotten as soon as       *)
(* software writes one of the CSRs that hold it or switches misa.C.  A     *)
(* trap handler that writes none of them must get that context back.       *)
(***************************************************************************)
EXTENDS SysControl

VARIABLE frame    \* history: the interrupted context per trap level

allVars == <<vars, frame>>

NoFrame == [priv |-> -1]

Context(level) ==
  [priv |-> cur_privilege,
   ie   |-> IF level = Machine THEN mstatus.MIE ELSE mstatus.SIE,
   mprv |-> mstatus.MPRV,
   pc   |-> PC]

Forget(levels) ==
  [l \in {Machine, Supervisor} |-> IF l \in levels THEN NoFrame ELSE frame[l]]

FInit == Init /\ frame = [l \in {Machine, Supervisor} |-> NoFrame]

FTrap ==
  Trap /\ frame' = [frame EXCEPT ![cur_privilege'] = Context(cur_privilege')]

FMret == Mret /\ frame' = Forget({Machine})
FSret == Sret /\ frame' = Forget({Supervisor})

FWriteMstatus ==
  (\E v \in MstatusInputs : WriteMstatus(v)) /\ frame' = Forget({Machine, Supervisor})
FWriteSstatus ==
  (\E v \in SstatusInputs : WriteSstatus(v)) /\ frame' = Forget({Supervisor})
FWriteMisa ==
  (\E v \in BOOLEAN : WriteMisa(v)) /\ frame' = Forget({Machine, Supervisor})
FWriteMepc ==
  (\E a \in Address : WriteMepc(a)) /\ frame' = Forget({Machine})
FWriteSepc ==
  (\E a \in Address : WriteSepc(a)) /\ frame' = Forget({Supervisor})

FOther == (Plain \/ WriteOther \/ ClintUpdate) /\ UNCHANGED frame

FNext ==
  \/ FTrap \/ FMret \/ FSret
  \/ FWriteMstatus \/ FWriteSstatus \/ FWriteMisa \/ FWriteMepc \/ FWriteSepc
  \/ FOther

FSpec == FInit /\ [][FNext]_allVars
-----------------------------------------------------------------------------
(* The next state is the interrupted one, as far as the handler's level    *)
(* can see it.                                                             *)
Restored(level) ==
  /\ cur_privilege' = frame[level].priv
  /\ PC' = frame[level].pc
  /\ mstatus'.MPRV = frame[level].mprv
  /\ frame[level].ie = IF level = Machine THEN mstatus'.MIE ELSE mstatus'.SIE

(* MRET and SRET bring back exactly the context the matching trap          *)
(* interrupted: privilege, PC, interrupt enable and MPRV, whatever the     *)
(* handler did in between (nested traps to the other level, returns        *)
(* through it, mideleg or stvec writes) short of writing xstatus, xepc or  *)
(* misa.                                                                   *)
ReturnRestoresContext ==
  [][/\ frame[Machine] # NoFrame /\ FMret => Restored(Machine)
     /\ frame[Supervisor] # NoFrame /\ FSret => Restored(Supervisor)]_allVars

(* The CSRs still hold a context that is not forgotten. *)
FrameHeld ==
  /\ LET f == frame[Machine]
     IN  f # NoFrame => /\ mstatus.MPP = f.priv
                        /\ mstatus.MPIE = f.ie
                        /\ mepc = f.pc
                        /\ ~misaC => f.pc.half = 0
                        /\ f.priv # Machine => f.mprv = 0
                        /\ f.priv = Machine /\ cur_privilege = Machine
                             => mstatus.MPRV = f.mprv
  /\ LET f == frame[Supervisor]
     IN  f # NoFrame => /\ f.priv = IF mstatus.SPP = 1 THEN Supervisor ELSE User
                        /\ mstatus.SPIE = f.ie
                        /\ sepc = f.pc
                        /\ ~misaC => f.pc.half = 0
                        /\ f.mprv = 0
=============================================================================
