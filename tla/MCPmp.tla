------------------------------- MODULE MCPmp --------------------------------
(* Every mode, locked and not, readable or with the reserved combination   *)
(* W = 1, R = 0, which is stored as no permission at all.                  *)
EXTENDS Pmp

CfgValues == {c \in Cfg : <<c.R, c.W, c.X>> \in {<<1, 0, 0>>, <<0, 1, 1>>}}
CfgFew    == {c \in CfgValues : c.L = 0}

(* With bits to spare above an address, as on RV64, its arithmetic holds. *)
ASSUME ArithmeticAssumption == SpareBits => RegisterArithmetic

EveryAddr == 0 .. 2^XlenBits - 1
EvenAddrs == {a \in EveryAddr : a % 2 = 0}
=============================================================================
