-------------------------------- MODULE Htif --------------------------------
(***************************************************************************)
(* The HTIF port tohost: a device with one 64-bit register that programs   *)
(* write in one store or in two halves, and that guesses from a counter of *)
(* payload writes when a command is complete.                              *)
(*                                                                         *)
(* One step is one store to the port.  A word of the port is its high half *)
(* (device and bits 47..32 of the payload) and its low half; the payload   *)
(* is told apart only by its lowest bit, by whether it is repeated and by  *)
(* the exit code it gives.  The command number only selects what the       *)
(* terminal prints and is left out.                                        *)
(***************************************************************************)
EXTENDS Integers

CONSTANTS
  Devices,           \* device numbers programs use (a bound)
  LoRange, MidRange, \* values of payload bits 31..0 and 47..32 (a bound)
  CounterRange       \* 2^4, the range of htif_payload_writes

Lo == 0 .. LoRange - 1
Hi == [device : Devices, mid : 0 .. MidRange - 1]

ASSUME HtifAssumption ==
  /\ Devices \subseteq Nat /\ 0 \in Devices
  /\ LoRange \in Nat \ {0} /\ MidRange \in Nat \ {0}
  /\ CounterRange \in Nat \ {0, 1}

VARIABLES
  htif_tohost,           \* its halves hi and lo
  htif_cmd_write,
  htif_payload_writes,
  htif_done,
  htif_exit_code,
  since                  \* history: what the program stored since the port was empty

port == <<htif_tohost, htif_cmd_write, htif_payload_writes>>
vars == <<port, htif_done, htif_exit_code, since>>

Zero == [hi |-> [device |-> 0, mid |-> 0], lo |-> 0]

Port == [tohost : [hi : Hi, lo : Lo], cmd_write : 0 .. 1, writes : 0 .. CounterRange - 1]

Empty == [tohost |-> Zero, cmd_write |-> 0, writes |-> 0]
-----------------------------------------------------------------------------
Counted(n) == (n + 1) % CounterRange

(* The three stores that are counted, and the ones that are not: each is   *)
(* the port after the store, before a command is looked for.               *)
Doubleword(hi, lo) ==
  [tohost |-> [hi |-> hi, lo |-> lo], cmd_write |-> 1,
   writes |-> Counted(htif_payload_writes)]

(* Mutant: a different payload does not restart the count. *)
LowWord_Restart(lo) ==
  [tohost |-> [htif_tohost EXCEPT !.lo = lo], cmd_write |-> htif_cmd_write,
   writes |-> Counted(htif_payload_writes)]

LowWord(lo) ==
  [tohost |-> [htif_tohost EXCEPT !.lo = lo], cmd_write |-> htif_cmd_write,
   writes |-> IF lo = htif_tohost.lo THEN Counted(htif_payload_writes) ELSE 1]

(* Mutant: a different half restarts the count at zero. *)
HighWord_FromZero(hi) ==
  [tohost |-> [htif_tohost EXCEPT !.hi = hi], cmd_write |-> 1,
   writes |-> IF hi.mid = htif_tohost.hi.mid
              THEN Counted(htif_payload_writes) ELSE 0]

HighWord(hi) ==
  [tohost |-> [htif_tohost EXCEPT !.hi = hi], cmd_write |-> 1,
   writes |-> IF hi.mid = htif_tohost.hi.mid
              THEN Counted(htif_payload_writes) ELSE 1]

Narrow(lo) ==
  [tohost |-> [Zero EXCEPT !.lo = lo], cmd_write |-> htif_cmd_write,
   writes |-> htif_payload_writes]
-----------------------------------------------------------------------------
Complete(p) == (p.cmd_write = 1 /\ p.writes > 0) \/ p.writes > 2

Payload(w) == (w.hi.mid * LoRange) + w.lo

IsExit(w)     == w.hi.device = 0 /\ w.lo % 2 = 1
IsTerminal(w) == w.hi.device = 1

(* Only the terminal resets the port. *)
AfterCommand(p) ==
  IF IsTerminal(p.tohost) THEN Empty ELSE p

SetPort(p) ==
  /\ htif_tohost' = p.tohost
  /\ htif_cmd_write' = p.cmd_write
  /\ htif_payload_writes' = p.writes

(* The end of htif_store: execute the command if the port p holds one. *)
Finish(p) ==
  /\ ~htif_done
  /\ SetPort(IF Complete(p) THEN AfterCommand(p) ELSE p)
  /\ IF Complete(p) /\ IsExit(p.tohost)
     THEN htif_done' = TRUE /\ htif_exit_code' = Payload(p.tohost) \div 2
     ELSE UNCHANGED <<htif_done, htif_exit_code>>

(* The history reads nothing of the device but that it is empty again.    *)
(* halves and word are the halves the program has stored and their last    *)
(* values, times how often in a row it has stored the same low half,       *)
(* stores how many stores it made (up to a full turn of the counter); a    *)
(* byte or a halfword spoils the record.                                   *)
Nothing ==
  [halves |-> {}, word |-> Zero, times |-> 0, stores |-> 0, narrow |-> FALSE]

Record(h) ==
  since' = IF <<htif_tohost', htif_cmd_write', htif_payload_writes'>> =
                <<Empty.tohost, Empty.cmd_write, Empty.writes>>
           THEN Nothing
           ELSE IF since.narrow THEN since ELSE h

OneMore == IF since.stores < CounterRange THEN since.stores + 1 ELSE CounterRange

StoreDoubleword(hi, lo) ==
  /\ Finish(Doubleword(hi, lo))
  /\ Record([halves |-> {"hi", "lo"}, word |-> [hi |-> hi, lo |-> lo], times |-> 0,
             stores |-> OneMore, narrow |-> FALSE])

StoreLow(lo) ==
  /\ Finish(LowWord(lo))
  /\ Record([halves |-> since.halves \cup {"lo"}, word |-> [since.word EXCEPT !.lo = lo],
             times |-> IF since.times > 0 /\ since.word.lo = lo
                       THEN Counted(since.times) ELSE 1,
             stores |-> OneMore, narrow |-> FALSE])

StoreHigh(hi) ==
  /\ Finish(HighWord(hi))
  /\ Record([halves |-> since.halves \cup {"hi"}, word |-> [since.word EXCEPT !.hi = hi],
             times |-> 0, stores |-> OneMore, narrow |-> FALSE])

(* Bytes and halfwords: "not supported and will not be detected". *)
StoreNarrow(lo) ==
  Finish(Narrow(lo)) /\ Record([Nothing EXCEPT !.narrow = TRUE])

(* init_platform *)
Init ==
  /\ htif_tohost = Zero /\ htif_cmd_write = 0 /\ htif_payload_writes = 0
  /\ htif_done = FALSE /\ htif_exit_code = 0
  /\ since = Nothing

(* The loop of the emulator ends when htif_done is set. *)
Next ==
  \/ \E hi \in Hi, lo \in Lo : StoreDoubleword(hi, lo)
  \/ \E lo \in Lo : StoreLow(lo)
  \/ \E hi \in Hi : StoreHigh(hi)
  \/ \E lo \in Lo : StoreNarrow(lo)

Spec == Init /\ [][Next]_vars
-----------------------------------------------------------------------------
TypeOK ==
  /\ [tohost |-> htif_tohost, cmd_write |-> htif_cmd_write,
      writes |-> htif_payload_writes] \in Port
  /\ htif_done \in BOOLEAN /\ htif_exit_code \in 0 .. LoRange * MidRange
  /\ since \in [halves : SUBSET {"hi", "lo"}, word : [hi : Hi, lo : Lo],
                 times : 0 .. CounterRange - 1, stores : 0 .. CounterRange, narrow : BOOLEAN]

(* The payload alone is executed only when it is repeated: unless bytes or *)
(* halfwords were stored, and while no control half was written, the       *)
(* counter is the number of equal low halves stored in a row, so two       *)
(* different payloads never add up to a command.                           *)
CounterCountsRepeats ==
  (~since.narrow /\ htif_cmd_write = 0 /\ htif_payload_writes > 0) =>
    htif_payload_writes = since.times

(* A command as the comments of the code have it: both halves were stored, *)
(* in whichever order and width, or the same payload "a few times".        *)
Given == since.halves = {"hi", "lo"} \/ since.times > 2

(* What was given is served: fewer than a turn of the counter ago the port *)
(* was empty, so a terminal command would have been acknowledged, and an   *)
(* exit has stopped the machine.                                           *)
GivenIsServed ==
  (~since.narrow /\ since.stores < CounterRange /\ Given) =>
    ~IsTerminal(since.word) /\ (IsExit(since.word) => htif_done)

(* Nothing else stops the machine, and it stops with the code of the       *)
(* halves the program stored.                                              *)
StoppedAsGiven ==
  (htif_done /\ ~since.narrow) =>
    Given /\ IsExit(since.word) /\ htif_exit_code = Payload(since.word) \div 2

(* htif_store guesses from its counter and its command bit; judged by what *)
(* the program stored since the port was empty it neither misses a command *)
(* nor stops the machine for half of one.                                  *)
CommandsAsGiven == GivenIsServed /\ StoppedAsGiven

(* A complete htif command is executed (the comment in htif_store): a      *)
(* doubleword that asks for the exit stops the machine.                    *)
ExitCommandHalts ==
  [][\A hi \in Hi, lo \in Lo :
       (StoreDoubleword(hi, lo) /\ IsExit([hi |-> hi, lo |-> lo])) => htif_done']_vars
=============================================================================
