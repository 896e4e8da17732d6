------------------------------- MODULE MemOps -------------------------------
(***************************************************************************)
(* Memory and the reservation of LR and SC, as one hart without            *)
(* translation and without PMP entries sees them, and what an instruction  *)
(* records for RVFI while it executes.                                     *)
(*                                                                         *)
(* A machine is a record of the bytes of memory and the reservation.       *)
(* Address 0 stands for the addresses outside of RAM; the accesses are     *)
(* one byte wide (words and doublewords in the code).                      *)
(***************************************************************************)
EXTENDS Integers

CONSTANT RamSize   \* bytes of RAM (a bound)

ASSUME MemAssumption == RamSize \in Nat \ {0}

Ram  == 1 .. RamSize
Addr == 0 .. RamSize
Byte == 0 .. 1         \* two of the 256 values (a bound)

NoReservation == 0     \* no LR succeeds outside of RAM

Machine == [mem : [Addr -> Byte], reservation : Addr]

Cleared == [a \in Addr |-> 0]

Insn == [op : {"alu", "illegal", "unfetched", "load", "store", "lr", "sc"},
         addr : Addr, val : Byte]

(* What executing an instruction gives: the machine, the value of rd, the  *)
(* packets rvfi_wX, rvfi_read and rvfi_write mark as present, and whether  *)
(* it traps.                                                               *)
Result(m, rd, present, trap) == [mach |-> m, rd |-> rd, present |-> present, trap |-> trap]

within_phys_mem(a) == a \in Ram

(* A failing access is recorded too, with its address only. *)
AccessFault(m) == Result(m, 0, {"mem"}, TRUE)

mem_read(m, a) ==
  IF within_phys_mem(a) THEN Result(m, m.mem[a], {"int", "mem"}, FALSE) ELSE AccessFault(m)

mem_write(m, a, v) ==
  IF within_phys_mem(a) THEN Result([m EXCEPT !.mem[a] = v], 0, {"mem"}, FALSE)
  ELSE AccessFault(m)

load_reservation(m, a) == [m EXCEPT !.reservation = a]
cancel_reservation(m)  == [m EXCEPT !.reservation = NoReservation]
match_reservation(m, a) == m.reservation # NoReservation /\ m.reservation = a

LoadReserved(m, a) ==
  LET r == mem_read(m, a)
  IN  IF r.trap THEN r ELSE [r EXCEPT !.mach = load_reservation(m, a)]

(* The reservation is looked at before the access is checked: without one, *)
(* SC fails and does not fault.  A fault would keep the reservation.       *)
StoreConditional(m, a, v) ==
  IF ~match_reservation(m, a) THEN Result(cancel_reservation(m), 1, {"int"}, FALSE)
  ELSE LET r == mem_write(m, a, v)
       IN  IF r.trap THEN r
           ELSE Result(cancel_reservation(r.mach), 0, {"int", "mem"}, FALSE)

Execute(m, i) ==
  CASE i.op = "alu"     -> Result(m, i.val, {"int"}, FALSE)
    [] i.op \in {"illegal", "unfetched"} -> Result(m, 0, {}, TRUE)
    [] i.op = "load"    -> mem_read(m, i.addr)
    [] i.op = "store"   -> mem_write(m, i.addr, i.val)
    [] i.op = "lr"      -> LoadReserved(m, i.addr)
    [] i.op = "sc"      -> StoreConditional(m, i.addr, i.val)
=============================================================================
