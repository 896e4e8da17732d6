------------------------------- MODULE MCHtif -------------------------------
(* The syscall proxy, the terminal and an unknown device; payloads that    *)
(* exit and payloads that do not; every other value comes from the         *)
(* configurations.                                                         *)
EXTENDS Htif
=============================================================================
