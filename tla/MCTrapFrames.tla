---------------------------- MODULE MCTrapFrames ----------------------------
(* A small instance of TrapFrames: one machine and one supervisor          *)
(* interrupt line, and a code space of two addresses, one of them only     *)
(* halfword aligned.                                                       *)
EXTENDS TrapFrames

(* Software writes the fields that traps and returns move together, MPRV   *)
(* with the two that make instructions illegal in S, and any MPP (the      *)
(* reserved one included) that is not what legalization makes of it; traps *)
(* and returns reach the other combinations by themselves.                 *)
Fields(stack, control, mpp) ==
  [MIE |-> stack, SIE |-> stack, MPIE |-> stack, SPIE |-> stack, SPP |-> stack,
   MPP |-> mpp, MPRV |-> control, TSR |-> control, TW |-> control]
FrameMstatus == {Fields(b, c, mpp) : b, c \in Bit, mpp \in 1 .. 3}
FrameSstatus == {Fields(b, 0, Machine) : b \in Bit}

TwoLines == {MTI, SEI}
IntrValues == {{}, TwoLines}
SomeFaults == {E_Illegal_Instr}
MedelegValues == {{}, {E_Illegal_Instr, E_U_EnvCall, E_M_EnvCall}}
ReservedTvec == {[base |-> 0, mode |-> 2]}
=============================================================================
