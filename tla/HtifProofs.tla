----------------------------- MODULE HtifProofs -----------------------------
(***************************************************************************)
(* Theorems about the HTIF port, for any devices, payload width and range  *)
(* of the write counter.                                                   *)
(***************************************************************************)
EXTENDS Htif, TLAPS

Current == [tohost |-> htif_tohost, cmd_write |-> htif_cmd_write,
            writes |-> htif_payload_writes]

History == [halves : SUBSET {"hi", "lo"}, word : [hi : Hi, lo : Lo],
            times : 0 .. CounterRange - 1, stores : 0 .. CounterRange, narrow : BOOLEAN]

(* What the registers of a port p remember of the history h.  The command  *)
(* bit is the control half; without it the counter is the number of equal  *)
(* payloads, also when both wrap; and before a full turn the counter is    *)
(* not zero.                                                               *)
Matches(p, h) ==
  /\ p.tohost = h.word
  /\ p.cmd_write = 1 <=> "hi" \in h.halves
  /\ "lo" \notin h.halves => h.word.lo = 0 /\ h.times = 0
  /\ p.cmd_write = 0 => p.writes = h.times
  /\ h.stores < CounterRange => p.writes <= h.stores
  /\ h.stores \in 1 .. CounterRange - 1 => p.writes > 0
  /\ h.stores = 0 => h.halves = {}

Remembered == ~since.narrow => Matches(Current, since)

HInv ==
  /\ TypeOK
  /\ Remembered
  /\ GivenIsServed
  /\ StoppedAsGiven

(* Counting a write stays within the register. *)
LEMMA CountedType ==
  ASSUME NEW n \in Nat
  PROVE  Counted(n) \in 0 .. CounterRange - 1
  <1>1. n + 1 \in Int /\ CounterRange \in Int /\ CounterRange > 0 BY HtifAssumption
  <1> QED BY <1>1 DEF Counted

(* The exit code is half of a payload, so it fits (htif_exit_code).        *)
LEMMA ExitCodeType ==
  ASSUME NEW hi \in Hi, NEW lo \in Lo
  PROVE  Payload([hi |-> hi, lo |-> lo]) \div 2 \in 0 .. LoRange * MidRange
  <1> DEFINE w == [hi |-> hi, lo |-> lo]
  <1>0. LoRange \in Nat /\ MidRange \in Nat BY HtifAssumption
  <1>1. hi.mid \in 0 .. MidRange - 1 /\ lo \in 0 .. LoRange - 1 BY DEF Hi, Lo
  <1>2. PICK k \in Nat : k = MidRange - 1 - hi.mid BY <1>0, <1>1
  <1>3. hi.mid * LoRange + k * LoRange + LoRange = LoRange * MidRange
    <2>1. \A a, b, c \in Nat : a * c + b * c + c = c * (a + b + 1) OBVIOUS
    <2>2. MidRange = hi.mid + k + 1 /\ hi.mid \in Nat BY <1>0, <1>1, <1>2
    <2> QED BY <1>0, <2>1, <2>2
  <1>4. k * LoRange \in Nat /\ hi.mid * LoRange \in Nat BY <1>0, <1>1, <1>2
  <1>5. Payload(w) = hi.mid * LoRange + lo BY DEF Payload
  <1>6. Payload(w) \in Nat /\ Payload(w) <= LoRange * MidRange
    BY <1>0, <1>1, <1>3, <1>4, <1>5
  <1>7. LoRange * MidRange \in Nat BY <1>0
  <1> HIDE DEF w
  <1>8. ASSUME NEW x \in Nat, NEW y \in Nat, x <= y PROVE x \div 2 \in 0 .. y BY <1>8
  <1> QED BY <1>6, <1>7, <1>8 DEF w

(* The port after any of the four stores is a legal port. *)
LEMMA StorePorts ==
  ASSUME TypeOK, NEW hi \in Hi, NEW lo \in Lo
  PROVE  /\ Doubleword(hi, lo) \in Port /\ LowWord(lo) \in Port
         /\ HighWord(hi) \in Port /\ Narrow(lo) \in Port
  <1>0. /\ htif_tohost \in [hi : Hi, lo : Lo] /\ htif_cmd_write \in 0 .. 1
        /\ htif_payload_writes \in 0 .. CounterRange - 1
    BY DEF TypeOK, Port
  <1>1. Counted(htif_payload_writes) \in 0 .. CounterRange - 1 BY <1>0, CountedType
  <1>2. 1 \in 0 .. CounterRange - 1 BY HtifAssumption
  <1>3. Zero.hi \in Hi BY HtifAssumption DEF Zero, Hi
  <1>4. [htif_tohost EXCEPT !.lo = lo] \in [hi : Hi, lo : Lo] BY <1>0
  <1>5. [htif_tohost EXCEPT !.hi = hi] \in [hi : Hi, lo : Lo] BY <1>0
  <1>6. [Zero EXCEPT !.lo = lo] \in [hi : Hi, lo : Lo] BY <1>3 DEF Zero
  <1>7. Doubleword(hi, lo) \in Port BY <1>1 DEF Doubleword, Port
  <1>8. LowWord(lo) \in Port BY <1>0, <1>1, <1>2, <1>4 DEF LowWord, Port
  <1>9. HighWord(hi) \in Port BY <1>0, <1>1, <1>2, <1>5 DEF HighWord, Port
  <1>10. Narrow(lo) \in Port BY <1>0, <1>6 DEF Narrow, Port
  <1> QED BY <1>7, <1>8, <1>9, <1>10

(* A port that has been emptied matches the empty history.                 *)
LEMMA NothingMatches ==
  Empty \in Port /\ Nothing \in History /\ Matches(Empty, Nothing)
  <1>1. Zero \in [hi : Hi, lo : Lo] /\ 0 \in 0 .. CounterRange - 1 /\ 0 \in 0 .. CounterRange
    BY HtifAssumption DEF Zero, Hi, Lo
  <1>2. Empty \in Port BY <1>1 DEF Empty, Port
  <1>3. Nothing \in History BY <1>1 DEF Nothing, History
  <1>4. Zero.lo = 0 BY DEF Zero
  <1> QED BY <1>2, <1>3, <1>4, HtifAssumption DEF Matches, Empty, Nothing

(* The end of htif_store leaves a legal port.                              *)
LEMMA FinishStep ==
  ASSUME TypeOK, NEW p \in Port, Finish(p)
  PROVE  /\ Current' \in Port
         /\ Current' = IF Complete(p) /\ IsTerminal(p.tohost) THEN Empty ELSE p
         /\ htif_exit_code' \in 0 .. LoRange * MidRange /\ htif_done' \in BOOLEAN
  <1> DEFINE q == IF Complete(p) /\ IsTerminal(p.tohost) THEN Empty ELSE p
  <1>1. q \in Port BY NothingMatches
  <1>2. q = IF Complete(p) THEN AfterCommand(p) ELSE p BY DEF AfterCommand
  <1>3. htif_tohost' = q.tohost /\ htif_cmd_write' = q.cmd_write /\ htif_payload_writes' = q.writes
    BY <1>2 DEF Finish, SetPort
  <1> HIDE DEF q
  <1>4. q = [tohost |-> q.tohost, cmd_write |-> q.cmd_write, writes |-> q.writes]
    BY <1>1 DEF Port
  <1>5. Current' = q BY <1>3, <1>4 DEF Current
  <1>6. htif_exit_code' \in 0 .. LoRange * MidRange /\ htif_done' \in BOOLEAN
    <2>1. p.tohost = [hi |-> p.tohost.hi, lo |-> p.tohost.lo]
          /\ p.tohost.hi \in Hi /\ p.tohost.lo \in Lo
      BY DEF Port
    <2>2. Payload(p.tohost) \div 2 \in 0 .. LoRange * MidRange BY <2>1, ExitCodeType
    <2> QED BY <2>2 DEF Finish, TypeOK
  <1> QED BY <1>1, <1>5, <1>6 DEF q

(* A port that matches a history with a command in it is complete, if the  *)
(* counter has not made a full turn.                                       *)
LEMMA GivenIsComplete ==
  ASSUME NEW p \in Port, NEW h \in History, Matches(p, h), h.stores < CounterRange,
         h.halves = {"hi", "lo"} \/ h.times > 2
  PROVE  Complete(p)
  <1>1. /\ p.cmd_write \in 0 .. 1 /\ p.writes \in Nat /\ h.stores \in Nat /\ h.times \in Nat
        /\ CounterRange \in Nat
    BY HtifAssumption DEF Port, History
  <1>2. CASE p.cmd_write = 1
    <2>1. h.halves # {} BY <1>2 DEF Matches
    <2>2. h.stores \in 1 .. CounterRange - 1 BY <1>1, <2>1 DEF Matches
    <2> QED BY <1>2, <2>2 DEF Complete, Matches
  <1>3. CASE p.cmd_write = 0
    <2>1. "hi" \notin h.halves BY <1>3 DEF Matches
    <2>2. h.times > 2 BY <2>1
    <2> QED BY <1>1, <1>3, <2>2 DEF Complete, Matches
  <1> QED BY <1>1, <1>2, <1>3

(* A complete exit in a port was given by the program: the empty port      *)
(* holds no exit, so its low half was stored.                              *)
LEMMA ExitIsGiven ==
  ASSUME NEW p \in Port, NEW h \in History, Matches(p, h), Complete(p), IsExit(p.tohost)
  PROVE  /\ h.halves = {"hi", "lo"} \/ h.times > 2
         /\ IsExit(h.word) /\ Payload(h.word) = Payload(p.tohost)
  <1>1. p.tohost = h.word BY DEF Matches
  <1>2. p.tohost.lo # 0 BY DEF IsExit
  <1>3. "lo" \in h.halves BY <1>1, <1>2 DEF Matches
  <1>4. p.cmd_write \in 0 .. 1 /\ h.halves \subseteq {"hi", "lo"} BY DEF Port, History
  <1>5. CASE p.cmd_write = 1
    <2>1. h.halves = {"hi", "lo"} BY <1>3, <1>4, <1>5 DEF Matches
    <2> QED BY <1>1, <2>1
  <1>6. CASE p.cmd_write = 0
    <2>1. h.times > 2 BY <1>6 DEF Matches, Complete
    <2> QED BY <1>1, <2>1
  <1> QED BY <1>4, <1>5, <1>6

(* A store that leaves the port p and is recorded as h keeps the invariant *)
(* if p matches h.                                                         *)
LEMMA RecordStep ==
  ASSUME HInv, NEW p \in Port, NEW h \in History, Finish(p), Record(h),
         ~since.narrow => h.narrow \/ Matches(p, h)
  PROVE  HInv'
  <1> DEFINE q == IF Complete(p) /\ IsTerminal(p.tohost) THEN Empty ELSE p
  <1>0. TypeOK /\ since \in History BY DEF HInv, TypeOK, History
  <1>1. /\ Current' \in Port /\ Current' = q
        /\ htif_exit_code' \in 0 .. LoRange * MidRange /\ htif_done' \in BOOLEAN
    BY <1>0, FinishStep
  <1>2. /\ htif_tohost' = Current'.tohost /\ htif_cmd_write' = Current'.cmd_write
        /\ htif_payload_writes' = Current'.writes
    BY DEF Current
  <1>3. Empty = [tohost |-> Empty.tohost, cmd_write |-> Empty.cmd_write, writes |-> Empty.writes]
        /\ Current' = [tohost |-> Current'.tohost, cmd_write |-> Current'.cmd_write,
                       writes |-> Current'.writes]
    BY DEF Empty, Current
  <1>4. since' = IF Current' = Empty THEN Nothing ELSE IF since.narrow THEN since ELSE h
    BY <1>2, <1>3 DEF Record
  <1>5. since' \in History BY <1>0, <1>4, NothingMatches
  <1>6. TypeOK' BY <1>1, <1>5 DEF TypeOK, Current, History
  <1>7. CASE since'.narrow
    BY <1>6, <1>7 DEF HInv, Remembered, GivenIsServed, StoppedAsGiven
  <1>8. CASE ~since'.narrow /\ Current' = Empty
    <2>1. since' = Nothing /\ Current' = Empty BY <1>4, <1>8
    <2>2. Remembered' BY <2>1, NothingMatches DEF Remembered
    <2>3. ~Given' /\ GivenIsServed' BY <2>1 DEF Given, GivenIsServed, Nothing
    <2>4. ~htif_done'
      <3>1. ~IsExit(Zero) BY DEF IsExit, Zero
      <3>2. Complete(p) /\ IsExit(p.tohost) => ~IsTerminal(p.tohost) BY DEF IsExit, IsTerminal
      <3>3. p = Empty => p.tohost = Zero BY DEF Empty
      <3> QED BY <1>1, <2>1, <3>1, <3>2, <3>3 DEF Finish
    <2> QED BY <1>6, <2>2, <2>3, <2>4 DEF HInv, StoppedAsGiven
  <1>9. CASE ~since'.narrow /\ Current' # Empty
    <2>1. since' = h /\ Matches(p, h) BY <1>4, <1>9
    <2>2. Current' = p /\ ~(Complete(p) /\ IsTerminal(p.tohost)) BY <1>1, <1>9
    <2>3. Remembered' BY <2>1, <2>2 DEF Remembered
    <2>4. h.word = p.tohost BY <2>1 DEF Matches
    <2>5. GivenIsServed'
      <3> SUFFICES ASSUME Given', h.stores < CounterRange
                   PROVE  ~IsTerminal(p.tohost) /\ (IsExit(p.tohost) => htif_done')
        BY <2>1, <2>4 DEF GivenIsServed
      <3>1. Complete(p) BY <2>1, GivenIsComplete DEF Given
      <3> QED BY <2>2, <3>1 DEF Finish
    <2>6. StoppedAsGiven'
      <3> SUFFICES ASSUME htif_done'
                   PROVE  Given' /\ IsExit(h.word) /\ htif_exit_code' = Payload(h.word) \div 2
        BY <2>1 DEF StoppedAsGiven
      <3>1. Complete(p) /\ IsExit(p.tohost) /\ htif_exit_code' = Payload(p.tohost) \div 2
        BY DEF Finish
      <3> QED BY <2>1, <3>1, ExitIsGiven DEF Given
    <2> QED BY <1>6, <2>3, <2>5, <2>6 DEF HInv
  <1> QED BY <1>7, <1>8, <1>9

(* One more store is still counted below a full turn. *)
LEMMA OneMoreType ==
  ASSUME since \in History
  PROVE  /\ OneMore \in 1 .. CounterRange
         /\ OneMore < CounterRange => OneMore = since.stores + 1
  BY HtifAssumption DEF OneMore, History

(* Below a full turn the counter goes up. *)
LEMMA CountedUp ==
  ASSUME NEW n \in 0 .. CounterRange - 2
  PROVE  Counted(n) = n + 1
  BY HtifAssumption DEF Counted

(* Each of the four stores leaves the port its history describes, and so   *)
(* keeps the invariant.                                                    *)
LEMMA HInvStep ==
  ASSUME HInv, [Next]_vars
  PROVE  HInv'
  <1>0. /\ TypeOK /\ since \in History /\ Current \in Port /\ since.halves \subseteq {"hi", "lo"}
        /\ since.word \in [hi : Hi, lo : Lo] /\ since.times \in 0 .. CounterRange - 1
        /\ since.stores \in 0 .. CounterRange /\ since.narrow \in BOOLEAN
        /\ htif_cmd_write \in 0 .. 1 /\ htif_payload_writes \in 0 .. CounterRange - 1
        /\ CounterRange \in Nat /\ CounterRange > 1
    BY HtifAssumption DEF HInv, TypeOK, Current, Port, History
  <1>1. /\ OneMore \in 1 .. CounterRange
        /\ OneMore < CounterRange => OneMore = since.stores + 1
    BY <1>0, OneMoreType
  <1>2. Counted(since.times) \in 0 .. CounterRange - 1 /\ 1 \in 0 .. CounterRange - 1
        /\ 0 \in 0 .. CounterRange - 1 /\ Counted(0) = 1
    BY <1>0, CountedType DEF Counted
  (* What the registers remember, and what counting one more store gives.  *)
  <1>3. ASSUME ~since.narrow
        PROVE  /\ htif_tohost = since.word
               /\ htif_cmd_write = 1 <=> "hi" \in since.halves
               /\ "lo" \notin since.halves => since.word.lo = 0 /\ since.times = 0
               /\ htif_cmd_write = 0 => htif_payload_writes = since.times
               /\ OneMore < CounterRange =>
                    /\ Counted(htif_payload_writes) = htif_payload_writes + 1
                    /\ htif_payload_writes + 1 <= OneMore
    <2>1. /\ htif_tohost = since.word
          /\ htif_cmd_write = 1 <=> "hi" \in since.halves
          /\ "lo" \notin since.halves => since.word.lo = 0 /\ since.times = 0
          /\ htif_cmd_write = 0 => htif_payload_writes = since.times
          /\ since.stores < CounterRange => htif_payload_writes <= since.stores
      BY <1>3 DEF HInv, Remembered, Matches, Current
    <2>2. ASSUME OneMore < CounterRange
          PROVE  /\ Counted(htif_payload_writes) = htif_payload_writes + 1
                 /\ htif_payload_writes + 1 <= OneMore
      <3>1. OneMore = since.stores + 1 /\ htif_payload_writes <= since.stores
        BY <1>0, <1>1, <2>1, <2>2
      <3>2. htif_payload_writes \in 0 .. CounterRange - 2 BY <1>0, <2>2, <3>1
      <3> QED BY <1>0, <3>1, <3>2, CountedUp
    <2> QED BY <2>1, <2>2
  <1>4. CASE \E hi \in Hi, lo \in Lo : StoreDoubleword(hi, lo)
    <2>1. PICK hi \in Hi, lo \in Lo : StoreDoubleword(hi, lo) BY <1>4
    <2> DEFINE p == Doubleword(hi, lo)
               h == [halves |-> {"hi", "lo"}, word |-> [hi |-> hi, lo |-> lo], times |-> 0,
                     stores |-> OneMore, narrow |-> FALSE]
    <2>2. p \in Port /\ Finish(p) /\ Record(h) BY <1>0, <2>1, StorePorts DEF StoreDoubleword
    <2>3. h \in History BY <1>0, <1>1, <1>2 DEF History
    <2>4. ASSUME ~since.narrow PROVE Matches(p, h)
      BY <1>0, <1>1, <1>3, <2>4 DEF Matches, Doubleword
    <2> HIDE DEF p, h
    <2> QED BY <2>2, <2>3, <2>4, RecordStep
  <1>5. CASE \E hi \in Hi : StoreHigh(hi)
    <2>1. PICK hi \in Hi : StoreHigh(hi) BY <1>5
    <2> DEFINE p == HighWord(hi)
               h == [halves |-> since.halves \cup {"hi"}, word |-> [since.word EXCEPT !.hi = hi],
                     times |-> 0, stores |-> OneMore, narrow |-> FALSE]
    <2>2. p \in Port /\ Finish(p) /\ Record(h)
      <3>1. 0 \in Lo BY HtifAssumption DEF Lo
      <3> QED BY <1>0, <2>1, <3>1, StorePorts DEF StoreHigh
    <2>3. h \in History
      <3>1. since.halves \cup {"hi"} \in SUBSET {"hi", "lo"} BY <1>0
      <3>2. [since.word EXCEPT !.hi = hi] \in [hi : Hi, lo : Lo] BY <1>0
      <3> QED BY <1>0, <1>1, <1>2, <3>1, <3>2 DEF History
    <2>4. ASSUME ~since.narrow PROVE Matches(p, h)
      <3>1. p.tohost = h.word /\ h.word.lo = since.word.lo BY <1>0, <1>3, <2>4 DEF HighWord
      <3>2. p.cmd_write = 1 /\ "hi" \in h.halves /\ h.stores = OneMore /\ h.times = 0
        BY DEF HighWord
      <3>3. "lo" \notin h.halves => h.word.lo = 0 BY <1>3, <2>4, <3>1
      <3>4. p.writes = Counted(htif_payload_writes) \/ p.writes = 1 BY DEF HighWord
      <3>5. OneMore < CounterRange => p.writes <= OneMore /\ p.writes > 0
        BY <1>0, <1>1, <1>3, <2>4, <3>4
      <3> HIDE DEF p, h
      <3> QED BY <1>0, <1>1, <3>1, <3>2, <3>3, <3>5 DEF Matches
    <2> HIDE DEF p, h
    <2> QED BY <2>2, <2>3, <2>4, RecordStep
  <1>6. CASE \E lo \in Lo : StoreLow(lo)
    <2>1. PICK lo \in Lo : StoreLow(lo) BY <1>6
    <2> DEFINE p == LowWord(lo)
               t == IF since.times > 0 /\ since.word.lo = lo THEN Counted(since.times) ELSE 1
               h == [halves |-> since.halves \cup {"lo"}, word |-> [since.word EXCEPT !.lo = lo],
                     times |-> t, stores |-> OneMore, narrow |-> FALSE]
    <2>2. p \in Port /\ Finish(p) /\ Record(h)
      <3>1. Zero.hi \in Hi BY HtifAssumption DEF Zero, Hi
      <3> QED BY <1>0, <2>1, <3>1, StorePorts DEF StoreLow
    <2>3. h \in History
      <3>1. since.halves \cup {"lo"} \in SUBSET {"hi", "lo"} BY <1>0
      <3>2. [since.word EXCEPT !.lo = lo] \in [hi : Hi, lo : Lo] BY <1>0
      <3> QED BY <1>0, <1>1, <1>2, <3>1, <3>2 DEF History
    <2>4. ASSUME ~since.narrow PROVE Matches(p, h)
      <3>1. p.tohost = h.word BY <1>0, <1>3, <2>4 DEF LowWord
      <3>2. p.cmd_write = htif_cmd_write /\ h.stores = OneMore /\ h.times = t /\ "lo" \in h.halves
            /\ ("hi" \in h.halves <=> "hi" \in since.halves)
        BY DEF LowWord
      <3>3. p.writes = IF lo = since.word.lo THEN Counted(htif_payload_writes) ELSE 1
        BY <1>3, <2>4 DEF LowWord
      <3>4. OneMore < CounterRange => p.writes <= OneMore /\ p.writes > 0
        BY <1>0, <1>1, <1>3, <2>4, <3>3
      <3>5. htif_cmd_write = 0 => p.writes = t
        <4>1. CASE since.times = 0 BY <1>0, <1>2, <1>3, <2>4, <3>3, <4>1
        <4>2. CASE since.times > 0 BY <1>0, <1>3, <2>4, <3>3, <4>2
        <4> QED BY <1>0, <4>1, <4>2
      <3>6. p.cmd_write = 1 <=> "hi" \in h.halves BY <1>3, <2>4, <3>2
      <3> HIDE DEF p, h, t
      <3> QED BY <1>0, <1>1, <3>1, <3>2, <3>4, <3>5, <3>6 DEF Matches
    <2> HIDE DEF p, h
    <2> QED BY <2>2, <2>3, <2>4, RecordStep
  <1>7. CASE \E lo \in Lo : StoreNarrow(lo)
    <2>1. PICK lo \in Lo : StoreNarrow(lo) BY <1>7
    <2> DEFINE h == [Nothing EXCEPT !.narrow = TRUE]
    <2>2. Narrow(lo) \in Port /\ Finish(Narrow(lo)) /\ Record(h)
      <3>1. Zero.hi \in Hi BY HtifAssumption DEF Zero, Hi
      <3> QED BY <1>0, <2>1, <3>1, StorePorts DEF StoreNarrow
    <2>3. h \in History /\ h.narrow BY NothingMatches DEF History, Nothing
    <2> HIDE DEF h
    <2> QED BY <2>2, <2>3, RecordStep
  <1>8. CASE UNCHANGED vars
    BY <1>8 DEF vars, port, HInv, TypeOK, Remembered, Current, GivenIsServed, StoppedAsGiven,
                Given
  <1> QED BY <1>4, <1>5, <1>6, <1>7, <1>8 DEF Next

(* init_platform leaves an empty port. *)
LEMMA HInvInit == Init => HInv
  <1> SUFFICES ASSUME Init PROVE HInv OBVIOUS
  <1>1. Current = Empty /\ since = Nothing BY DEF Init, Current, Empty
  <1>2. TypeOK
    <2>1. LoRange * MidRange \in Nat BY HtifAssumption
    <2>2. Current \in Port /\ since \in History BY <1>1, NothingMatches
    <2>3. \A n \in Nat : 0 \in 0 .. n OBVIOUS
    <2>4. htif_exit_code \in 0 .. LoRange * MidRange BY <2>1, <2>3 DEF Init
    <2>5. htif_done \in BOOLEAN BY DEF Init
    <2> QED BY <2>2, <2>4, <2>5 DEF TypeOK, Current, History
  <1>3. Remembered BY <1>1, NothingMatches DEF Remembered
  <1>4. ~Given BY <1>1 DEF Given, Nothing
  <1>5. GivenIsServed BY <1>4 DEF GivenIsServed
  <1>6. StoppedAsGiven BY DEF Init, StoppedAsGiven
  <1> QED BY <1>2, <1>3, <1>5, <1>6 DEF HInv

(* Every store to the port, a word or a doubleword, keeps the invariant. *)
THEOREM HtifInvariant == Spec => []HInv
  BY HInvInit, HInvStep, PTL DEF Spec

(* Every store leaves the port's fields in range, the four-bit counter and *)
(* the exit code included.                                                 *)
THEOREM HtifTypeCorrect == Spec => []TypeOK
  BY HtifInvariant, PTL DEF HInv

(* Two different payloads never add up to a command: the counter counts    *)
(* equal low halves, whatever was stored before.                           *)
THEOREM HtifCounter == Spec => []CounterCountsRepeats
  <1>1. HInv => CounterCountsRepeats
    BY DEF HInv, Remembered, Matches, Current, CounterCountsRepeats
  <1> QED BY <1>1, HtifInvariant, PTL

(* For every range of the counter: what the program gave since the port   *)
(* was empty, in halves of either order, as a doubleword or by repeating   *)
(* the payload, htif_store has executed before a full turn of the counter; *)
(* and it stops the machine for nothing else, with the code that was given. *)
THEOREM HtifAsGiven == Spec => []CommandsAsGiven
  <1>1. HInv => CommandsAsGiven BY DEF HInv, CommandsAsGiven
  <1> QED BY <1>1, HtifInvariant, PTL

(* How far the comment in htif_store is true: a doubleword that asks for   *)
(* the exit stops the machine unless the four-bit counter of payload       *)
(* writes is at its largest value and wraps to 0.                          *)
ExitHaltsUnlessWrapped ==
  [][\A hi \in Hi, lo \in Lo :
       (/\ StoreDoubleword(hi, lo)
        /\ IsExit([hi |-> hi, lo |-> lo])
        /\ htif_payload_writes # CounterRange - 1)
          => htif_done']_vars

(* A doubleword that asks for the exit halts the program, unless the       *)
(* counter of repeated writes is about to wrap.                            *)
THEOREM HtifExitHalts == Spec => ExitHaltsUnlessWrapped
  <1>1. ASSUME HInv, NEW hi \in Hi, NEW lo \in Lo, StoreDoubleword(hi, lo),
               IsExit([hi |-> hi, lo |-> lo]), htif_payload_writes # CounterRange - 1
        PROVE  htif_done'
    <2>1. htif_payload_writes \in 0 .. CounterRange - 2 /\ CounterRange \in Nat
      BY <1>1, HtifAssumption DEF HInv, TypeOK, Port
    <2>2. Counted(htif_payload_writes) > 0 BY <2>1 DEF Counted
    <2>3. Complete(Doubleword(hi, lo)) BY <2>2 DEF Complete, Doubleword
    <2> QED BY <1>1, <2>3 DEF StoreDoubleword, Finish, Doubleword
  <1>2. HInv => [\A hi \in Hi, lo \in Lo :
                   (/\ StoreDoubleword(hi, lo)
                    /\ IsExit([hi |-> hi, lo |-> lo])
                    /\ htif_payload_writes # CounterRange - 1)
                      => htif_done']_vars
    BY <1>1
  <1> QED BY <1>2, HtifInvariant, PTL DEF ExitHaltsUnlessWrapped
=============================================================================
