-------------------------------- MODULE Pmp ---------------------------------
(***************************************************************************)
(* Physical memory protection: the pmpcfg and pmpaddr registers with their *)
(* legalization and locks, and the check made on every physical access.    *)
(*                                                                         *)
(* One step is one CSR write by machine-mode software.  The check itself   *)
(* changes nothing; its result is what the properties are about.           *)
(* Registers are small: PmpaddrBits stands for 54 (RV64) or 32 (RV32) and  *)
(* XlenBits for xlen, so the two are equal on RV32 only.                   *)
(***************************************************************************)
EXTENDS Integers, FiniteSets, FiniteSetsExt

CONSTANTS
  NEntries,         \* 64 in the code (a bound)
  PerReg,           \* entries packed in one pmpcfg register (8 or 4 in the code)
  sys_pmp_count,    \* entries said to be implemented
  Grains,           \* the values --pmp-grain may have been given (a bound)
  PmpaddrBits, XlenBits,
  CfgInputs,        \* what software writes to an entry of pmpcfg (a bound)
  Addrs, Widths,    \* byte addresses and sizes of the accesses checked (a bound)
  AccessTypes       \* of "Read", "Write", "ReadWrite", "Execute"

Entries   == 0 .. NEntries - 1
CfgRegs   == 0 .. (NEntries \div PerReg) - 1
Pmpaddr   == 0 .. 2^PmpaddrBits - 1
Bit       == 0 .. 1
Modes     == {"OFF", "TOR", "NA4", "NAPOT"}
Cfg       == [L : Bit, A : Modes, R : Bit, W : Bit, X : Bit]
Privilege == {"User", "Supervisor", "Machine"}

ASSUME PmpAssumption ==
  /\ NEntries \in Nat \ {0} /\ PerReg \in Nat \ {0}
  /\ NEntries % PerReg = 0
  /\ sys_pmp_count \in 0 .. NEntries
  /\ Grains \subseteq Nat
  /\ PmpaddrBits \in Nat \ {0} /\ XlenBits \in Nat /\ PmpaddrBits <= XlenBits
  /\ 0 \in Pmpaddr   \* that is, 2^PmpaddrBits > 0
  /\ CfgInputs \subseteq Cfg
  /\ Addrs \subseteq 0 .. 2^XlenBits - 1 /\ Widths \subseteq Nat \ {0}
  /\ AccessTypes \subseteq {"Read", "Write", "ReadWrite", "Execute"}

(* The law of powers that the width of a register rests on. *)
ASSUME PowerLaw == \A n \in 0 .. XlenBits : 2^(n + 1) = 2 * 2^n

VARIABLES
  sys_pmp_grain,        \* fixed when the emulator starts
  pmpcfg_n, pmpaddr_n

vars == <<sys_pmp_grain, pmpcfg_n, pmpaddr_n>>
-----------------------------------------------------------------------------
(* Reading and writing the registers. *)

Truncate(v, n)  == (v \div 2^n) * 2^n                 \* v & ~ones(n)
FillOnes(v, n)  == Truncate(v, n) + 2^n - 1           \* v | ones(n)
HighMode(c)     == c.A \in {"NA4", "NAPOT"}           \* the upper bit of A

(* The low bits of an address register read as the grain makes them. *)
pmpReadAddrReg(i) ==
  IF HighMode(pmpcfg_n[i])
  THEN IF sys_pmp_grain >= 2 THEN FillOnes(pmpaddr_n[i], sys_pmp_grain - 1) ELSE pmpaddr_n[i]
  ELSE IF sys_pmp_grain >= 1 THEN Truncate(pmpaddr_n[i], sys_pmp_grain) ELSE pmpaddr_n[i]

pmpLocked(c)    == c.L = 1
pmpTORLocked(c) == c.L = 1 /\ c.A = "TOR"

(* Mutant: only R and X are cleared. *)
NoPerms_KeepW(c) == [c EXCEPT !.R = 0, !.X = 0]

NoPerms(c) == [c EXCEPT !.R = 0, !.W = 0, !.X = 0]

(* Mutant: the lock is not looked at. *)
pmpWriteCfg_Unlocked(c, v) ==
  LET perms == IF v.W = 1 /\ v.R = 0 THEN NoPerms(v) ELSE v
  IN  IF sys_pmp_grain >= 1 /\ v.A = "NA4" THEN [perms EXCEPT !.A = "OFF"] ELSE perms

pmpWriteCfg(c, v) ==
  IF pmpLocked(c) THEN c
  ELSE LET perms == IF v.W = 1 /\ v.R = 0 THEN NoPerms(v) ELSE v
       IN  IF sys_pmp_grain >= 1 /\ v.A = "NA4" THEN [perms EXCEPT !.A = "OFF"] ELSE perms

(* Mutant: the lower bound of a locked TOR entry can be moved. *)
AddrLocked_NoTOR(i) == pmpLocked(pmpcfg_n[i])

AddrLocked(i) ==
  \/ pmpLocked(pmpcfg_n[i])
  \/ i + 1 \in Entries /\ pmpTORLocked(pmpcfg_n[i + 1])

(* is_CSR_defined for pmpcfg compares the count with the number of the     *)
(* register, for pmpaddr with the number of the entry.  RV64 numbers its   *)
(* registers 0, 2, 4 ...: with the counts init_pmp accepts, 0, 16 and 64,  *)
(* the same ones are defined as with r.                                    *)
CfgRegDefined(r)  == sys_pmp_count > r
AddrRegDefined(i) == sys_pmp_count > i

EntriesOf(r) == {i \in Entries : i \div PerReg = r}

WritePmpcfg(r, v) ==
  /\ CfgRegDefined(r)
  /\ pmpcfg_n' = [i \in Entries |->
                    IF i \in EntriesOf(r) THEN pmpWriteCfg(pmpcfg_n[i], v[i % PerReg])
                                          ELSE pmpcfg_n[i]]
  /\ UNCHANGED <<sys_pmp_grain, pmpaddr_n>>

WritePmpaddr(i, v) ==
  /\ AddrRegDefined(i)
  /\ pmpaddr_n' = IF AddrLocked(i) THEN pmpaddr_n ELSE [pmpaddr_n EXCEPT ![i] = v]
  /\ UNCHANGED <<sys_pmp_grain, pmpcfg_n>>
-----------------------------------------------------------------------------
(* The check. *)

BitOf(v, b)  == (v \div 2^b) % 2
XlenMod(v)   == v % 2^XlenBits

(* The number with the given bits, added up from the lowest. *)
FromBits(bit) ==
  LET below[n \in 0 .. XlenBits] == IF n = 0 THEN 0 ELSE below[n - 1] + 2^(n - 1) * bit[n - 1]
  IN  below[XlenBits]

BitXor(a, b) ==
  FromBits([n \in 0 .. XlenBits - 1 |-> (BitOf(a, n) + BitOf(b, n)) % 2])
BitAndNot(a, b) ==
  FromBits([n \in 0 .. XlenBits - 1 |-> BitOf(a, n) * (1 - BitOf(b, n))])

(* The NAPOT range in words, by the bit trick of pmpAddrRange, in xlen bits. *)
NapotRange ==
  [a \in Pmpaddr |->
     LET mask == BitXor(a, XlenMod(a + 1))
         lo   == BitAndNot(a, mask)
     IN  <<lo, XlenMod(lo + XlenMod(mask + 1))>>]

prev_pmpaddr(i) == IF i > 0 THEN pmpReadAddrReg(i - 1) ELSE 0

(* Some((lo, hi)), or <<0, 0>> for None(): both match nothing. *)
pmpAddrRange(i) ==
  LET a == pmpReadAddrReg(i)
  IN  CASE pmpcfg_n[i].A = "OFF"   -> <<0, 0>>
        [] pmpcfg_n[i].A = "TOR"   -> <<prev_pmpaddr(i), a>>
        [] pmpcfg_n[i].A = "NA4"   -> <<a, XlenMod(a + 1)>>
        [] pmpcfg_n[i].A = "NAPOT" -> NapotRange[a]

pmpCheckRWX(c, acc) ==
  CASE acc = "Read"      -> c.R = 1
    [] acc = "Write"     -> c.W = 1
    [] acc = "ReadWrite" -> c.R = 1 /\ c.W = 1
    [] acc = "Execute"   -> c.X = 1

pmpCheckPerms(c, acc, priv) ==
  (priv = "Machine" /\ ~pmpLocked(c)) \/ pmpCheckRWX(c, acc)

(* Mutant: an access that is only partly in the range passes to the next. *)
pmpMatchAddr_Partial(addr, width, rng) ==
  IF 4 * rng[1] <= addr /\ addr + width <= 4 * rng[2] THEN "Match" ELSE "NoMatch"

pmpMatchAddr(addr, width, rng) ==
  LET lo == 4 * rng[1]
      hi == 4 * rng[2]
  IN  IF hi <= lo \/ addr + width <= lo \/ hi <= addr THEN "NoMatch"
      ELSE IF lo <= addr /\ addr + width <= hi THEN "Match"
      ELSE "PartialMatch"

Matching(addr, width) ==
  {i \in Entries : pmpMatchAddr(addr, width, pmpAddrRange(i)) # "NoMatch"}

(* pmpMatchEntry on the entry that decides. *)
EntrySucceeds(i, addr, width, acc, priv) ==
  /\ pmpMatchAddr(addr, width, pmpAddrRange(i)) = "Match"
  /\ pmpCheckPerms(pmpcfg_n[i], acc, priv)

(* TRUE where pmpCheck returns None(): the first entry that matches at all *)
(* decides.                                                                *)
pmpCheck(addr, width, acc, priv) ==
  LET m == Matching(addr, width)
  IN  IF m = {} THEN priv = "Machine" ELSE EntrySucceeds(Min(m), addr, width, acc, priv)
-----------------------------------------------------------------------------
(* init_pmp: A and L are reset; the other fields are zero at power-on. *)
Init ==
  /\ sys_pmp_grain \in Grains
  /\ pmpcfg_n = [i \in Entries |-> [L |-> 0, A |-> "OFF", R |-> 0, W |-> 0, X |-> 0]]
  /\ pmpaddr_n = [i \in Entries |-> 0]

Next ==
  \/ \E r \in CfgRegs, v \in [0 .. PerReg - 1 -> CfgInputs] : WritePmpcfg(r, v)
  \/ \E i \in Entries, v \in Pmpaddr : WritePmpaddr(i, v)

Spec == Init /\ [][Next]_vars
-----------------------------------------------------------------------------
(* The registers hold legal values only: write permission comes with read  *)
(* permission, and NA4 is not selected with a grain, so the assertion in   *)
(* pmpAddrRange cannot fail.                                               *)
TypeOK ==
  /\ sys_pmp_grain \in Grains
  /\ pmpcfg_n \in [Entries -> Cfg]
  /\ pmpaddr_n \in [Entries -> Pmpaddr]
  /\ \A i \in Entries : pmpcfg_n[i].W = 1 => pmpcfg_n[i].R = 1
  /\ \A i \in Entries : pmpcfg_n[i].A = "NA4" => sys_pmp_grain < 1

(* The words a NAPOT address names: "last 0 dictates region size and       *)
(* alignment", without a limit on the width of the arithmetic.             *)
LastZero(a) == Min({n \in 0 .. PmpaddrBits : BitOf(a, n) = 0})
NapotWords(a) ==
  LET size == 2^(LastZero(a) + 1)
  IN  Truncate(a, LastZero(a) + 1) .. Truncate(a, LastZero(a) + 1) + size - 1

RegionWords(i) ==
  LET a == pmpReadAddrReg(i)
  IN  CASE pmpcfg_n[i].A = "OFF"   -> {}
        [] pmpcfg_n[i].A = "TOR"   -> prev_pmpaddr(i) .. a - 1
        [] pmpcfg_n[i].A = "NA4"   -> {a}
        [] pmpcfg_n[i].A = "NAPOT" -> NapotWords(a)

(* The arithmetic of one address register: what is read with any grain is  *)
(* an address again, counting one up does not wrap, and the mask trick     *)
(* gives the words the address names.                                      *)
RegisterArithmetic ==
  /\ 2^XlenBits \in Nat
  /\ \A a \in Pmpaddr : /\ a + 1 < 2^XlenBits
                        /\ NapotRange[a] \in Nat \X Nat
                        /\ NapotRange[a][1] .. NapotRange[a][2] - 1 = NapotWords(a)
  /\ \A a \in Pmpaddr, g \in Grains : /\ g >= 1 => Truncate(a, g) \in Pmpaddr
                                      /\ g >= 2 => FillOnes(a, g - 1) \in Pmpaddr

(* A register has two bits to spare above an address, as on RV64 (54 of    *)
(* 64), and no grain is larger than the whole address space.               *)
SpareBits ==
  /\ PmpaddrBits + 1 < XlenBits
  /\ \A g \in Grains : g <= PmpaddrBits + 1

Bytes(addr, width) == addr .. addr + width - 1
WordsOf(addr, width) == {b \div 4 : b \in Bytes(addr, width)}

(* What the check promises: the lowest entry that covers any byte of the   *)
(* access decides it, and grants it only if it covers every byte.          *)
Granted(addr, width, acc, priv) ==
  LET touched == {i \in Entries : RegionWords(i) \cap WordsOf(addr, width) # {}}
      first   == Min(touched)
  IN  IF touched = {} THEN priv = "Machine"
      ELSE /\ WordsOf(addr, width) \subseteq RegionWords(first)
           /\ pmpCheckPerms(pmpcfg_n[first], acc, priv)

Accesses == Addrs \X Widths

(* pmpCheck decides every access as the regions of the entries say it      *)
(* should: priorities, partial matches, empty TOR ranges and the NAPOT     *)
(* mask trick included.                                                    *)
CheckIsSpecified ==
  \A x \in Accesses, acc \in AccessTypes, priv \in {"User", "Machine"} :
    pmpCheck(x[1], x[2], acc, priv) = Granted(x[1], x[2], acc, priv)

(* The lower bound of a TOR entry is read back from the register before    *)
(* it, and with a grain what is read depends on the mode of that entry,    *)
(* which its neighbour's lock does not protect.                            *)
LowerBoundKept(i) ==
  \/ sys_pmp_grain = 0
  \/ pmpcfg_n[i].A # "TOR"
  \/ i > 0 => HighMode(pmpcfg_n[i - 1])' = HighMode(pmpcfg_n[i - 1])

(* A locked entry keeps its permissions and its range, the lower bound it  *)
(* takes from the entry before it included, whatever software writes       *)
(* (pmpWriteCfg, pmpWriteAddr), short of a mode change before it.          *)
LockedEntryFrozen ==
  [][\A i \in Entries : pmpLocked(pmpcfg_n[i]) =>
        /\ pmpcfg_n'[i] = pmpcfg_n[i]
        /\ LowerBoundKept(i) => pmpAddrRange(i)' = pmpAddrRange(i)]_vars

(* Entries that are locked together with all entries before them. *)
LockedPrefix == {k \in Entries : \A j \in 0 .. k : pmpLocked(pmpcfg_n[j])}

Decides(k, addr, width) ==
  /\ k \in Matching(addr, width)
  /\ \A j \in 0 .. k - 1 : j \notin Matching(addr, width)

(* With every grain: an access decided by an entry that is locked together *)
(* with all entries before it is decided in the same way for ever.         *)
LockedPrefixDecides ==
  [][\A k \in LockedPrefix, x \in Accesses :
       Decides(k, x[1], x[2]) =>
         /\ Decides(k, x[1], x[2])'
         /\ \A acc \in AccessTypes : EntrySucceeds(k, x[1], x[2], acc, "Machine")'
                                        = EntrySucceeds(k, x[1], x[2], acc, "Machine")]_vars
=============================================================================
