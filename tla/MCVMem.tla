------------------------------- MODULE MCVMem -------------------------------
(* Tables of two entries: one root per address space (pages 8 and 9) and a *)
(* table of leaves (page 10) that the address spaces can share.            *)
EXTENDS VMem

LeafPte(ppn, w, u, g) ==
  [V |-> 1, R |-> 1, W |-> w, X |-> 1 - w, U |-> u, G |-> g, A |-> 0, D |-> 0, ppn |-> ppn]
Pointer(ppn) ==
  [V |-> 1, R |-> 0, W |-> 0, X |-> 0, U |-> 0, G |-> 0, A |-> 0, D |-> 0, ppn |-> ppn]
Invalid == [Pointer(0) EXCEPT !.V = 0]

OwnRoots == [a \in Asids |-> 7 + a]

(* Pages 0 and 1 are a superpage of address space 1, which it may split;   *)
(* pages 2 and 3 are mapped through a table that the address spaces share, *)
(* where page 2 can be made global and page 3 is an executable one.        *)
SharedPtes == [s \in Slots |-> CASE s = <<8, 0>>  -> LeafPte(2, 1, 0, 0)
                                 [] s = <<10, 0>> -> LeafPte(1, 1, 1, 0)
                                 [] s = <<10, 1>> -> [LeafPte(2, 0, 1, 0) EXCEPT !.A = 1]
                                 [] s[1] # 10 /\ s[2] = 1 -> Pointer(10)
                                 [] OTHER -> Invalid]
SharedInputs ==
  [s \in {<<8, 0>>, <<10, 0>>} |->
     IF s = <<8, 0>> THEN {LeafPte(2, 1, 0, 0), Pointer(10)}
                     ELSE {LeafPte(1, 1, 1, 0), LeafPte(3, 0, 1, 1)}]

(* A page of tables that may be read and not written, its entries marked   *)
(* accessed and not dirty.                                                 *)
AccessedPtes == [s \in Slots |-> [SharedPtes[s] EXCEPT !.A = SharedPtes[s].R]]
NoInputs == [s \in {} |-> {}]
=============================================================================
