----------------------------- MODULE PmpProofs ------------------------------
(***************************************************************************)
(* The PMP registers and their locks, for every number of entries, every   *)
(* width and every grain.                                                  *)
(***************************************************************************)
EXTENDS Pmp, WellFoundedInduction, TLAPS
-----------------------------------------------------------------------------
(* The entries a pmpcfg write legalizes. *)
LEMMA WriteCfgLegal ==
  ASSUME NEW c \in Cfg, NEW v \in Cfg,
         sys_pmp_grain \in Nat, c.W = 1 => c.R = 1, c.A = "NA4" => sys_pmp_grain < 1
  PROVE  /\ pmpWriteCfg(c, v) \in Cfg
         /\ pmpWriteCfg(c, v).W = 1 => pmpWriteCfg(c, v).R = 1
         /\ pmpWriteCfg(c, v).A = "NA4" => sys_pmp_grain < 1
         /\ pmpLocked(c) => pmpWriteCfg(c, v) = c
<1> DEFINE perms == IF v.W = 1 /\ v.R = 0 THEN NoPerms(v) ELSE v
           w     == IF sys_pmp_grain >= 1 /\ v.A = "NA4"
                    THEN [perms EXCEPT !.A = "OFF"] ELSE perms
<1>1. perms \in Cfg /\ (perms.W = 1 => perms.R = 1) /\ perms.A = v.A
  <2>1. CASE v.W = 1 /\ v.R = 0
    <3>1. perms = [v EXCEPT !.R = 0, !.W = 0, !.X = 0]
      BY <2>1 DEF NoPerms
    <3>2. perms \in Cfg /\ perms.W = 0 /\ perms.A = v.A
      BY <3>1 DEF Cfg, Bit
    <3> QED BY <3>2
  <2>2. CASE ~(v.W = 1 /\ v.R = 0)
    <3>1. perms = v
      BY <2>2
    <3> QED BY <2>2, <3>1 DEF Cfg, Bit
  <2> QED BY <2>1, <2>2
<1>2. w \in Cfg /\ w.W = perms.W /\ w.R = perms.R
  BY <1>1 DEF Cfg, Modes
<1>3. w.A = "NA4" => sys_pmp_grain < 1
  BY <1>1, PmpAssumption DEF Cfg, Modes
<1>4. pmpWriteCfg(c, v) = IF pmpLocked(c) THEN c ELSE w
  BY DEF pmpWriteCfg
<1> HIDE DEF perms, w
<1> QED BY <1>1, <1>2, <1>3, <1>4

(* One pmpcfg write, entry by entry. *)
LEMMA CfgStep ==
  ASSUME TypeOK, NEW r \in CfgRegs, NEW v \in [0 .. PerReg - 1 -> CfgInputs], WritePmpcfg(r, v),
         NEW i \in Entries
  PROVE  /\ pmpcfg_n'[i] \in Cfg
         /\ pmpcfg_n'[i].W = 1 => pmpcfg_n'[i].R = 1
         /\ pmpcfg_n'[i].A = "NA4" => sys_pmp_grain < 1
         /\ pmpLocked(pmpcfg_n[i]) => pmpcfg_n'[i] = pmpcfg_n[i]
<1>1. sys_pmp_grain \in Nat /\ pmpcfg_n[i] \in Cfg /\ (pmpcfg_n[i].W = 1 => pmpcfg_n[i].R = 1)
      /\ (pmpcfg_n[i].A = "NA4" => sys_pmp_grain < 1)
  BY PmpAssumption DEF TypeOK
<1>2. i % PerReg \in 0 .. PerReg - 1
  BY PmpAssumption DEF Entries
<1>3. v[i % PerReg] \in Cfg
  BY <1>2, PmpAssumption
<1>4. pmpcfg_n'[i] = pmpWriteCfg(pmpcfg_n[i], v[i % PerReg]) \/ pmpcfg_n'[i] = pmpcfg_n[i]
  BY DEF WritePmpcfg
<1>5. CASE pmpcfg_n'[i] = pmpWriteCfg(pmpcfg_n[i], v[i % PerReg])
  BY <1>1, <1>3, <1>5, WriteCfgLegal
<1>6. CASE pmpcfg_n'[i] = pmpcfg_n[i]
  BY <1>1, <1>6
<1> QED BY <1>4, <1>5, <1>6

(* The PMP registers only ever hold legal values, whatever is written. *)
THEOREM PmpTypeCorrect == Spec => []TypeOK
<1>1. Init => TypeOK
  <2> SUFFICES ASSUME Init PROVE TypeOK
    OBVIOUS
  <2> DEFINE off == [L |-> 0, A |-> "OFF", R |-> 0, W |-> 0, X |-> 0]
  <2>1. off \in Cfg
    BY DEF Cfg, Bit, Modes
  <2>2. 0 \in Pmpaddr
    BY PmpAssumption
  <2> QED BY <2>1, <2>2 DEF Init, TypeOK
<1>2. TypeOK /\ [Next]_vars => TypeOK'
  <2> SUFFICES ASSUME TypeOK, [Next]_vars PROVE TypeOK'
    OBVIOUS
  <2>1. ASSUME NEW r \in CfgRegs, NEW v \in [0 .. PerReg - 1 -> CfgInputs], WritePmpcfg(r, v)
        PROVE  TypeOK'
    <3>1. \A i \in Entries : /\ pmpcfg_n'[i] \in Cfg
                             /\ pmpcfg_n'[i].W = 1 => pmpcfg_n'[i].R = 1
                             /\ pmpcfg_n'[i].A = "NA4" => sys_pmp_grain < 1
      BY <2>1, CfgStep
    <3>2. pmpcfg_n' = [i \in Entries |-> pmpcfg_n'[i]]
      BY <2>1 DEF WritePmpcfg
    <3>3. pmpcfg_n' \in [Entries -> Cfg]
      BY <3>1, <3>2
    <3> QED BY <2>1, <3>1, <3>3 DEF WritePmpcfg, TypeOK
  <2>2. ASSUME NEW i \in Entries, NEW v \in Pmpaddr, WritePmpaddr(i, v)
        PROVE  TypeOK'
    BY <2>2 DEF WritePmpaddr, TypeOK
  <2>3. CASE UNCHANGED vars
    BY <2>3 DEF vars, TypeOK
  <2> QED BY <2>1, <2>2, <2>3 DEF Next
<1> QED BY <1>1, <1>2, PTL DEF Spec
-----------------------------------------------------------------------------
(* Locks. *)

(* What a lock keeps over any step: the configuration, the address, and    *)
(* for a TOR entry the address before it.                                  *)
LEMMA LockKeeps ==
  ASSUME TypeOK, [Next]_vars, NEW i \in Entries, pmpLocked(pmpcfg_n[i])
  PROVE  /\ pmpcfg_n'[i] = pmpcfg_n[i]
         /\ pmpaddr_n'[i] = pmpaddr_n[i]
         /\ (pmpcfg_n[i].A = "TOR" /\ i > 0) => pmpaddr_n'[i - 1] = pmpaddr_n[i - 1]
<1>1. ASSUME NEW r \in CfgRegs, NEW v \in [0 .. PerReg - 1 -> CfgInputs], WritePmpcfg(r, v)
      PROVE  pmpcfg_n'[i] = pmpcfg_n[i] /\ pmpaddr_n' = pmpaddr_n
  BY <1>1, CfgStep DEF WritePmpcfg
<1>2. ASSUME NEW j \in Entries, NEW v \in Pmpaddr, WritePmpaddr(j, v)
      PROVE  /\ pmpcfg_n' = pmpcfg_n
             /\ pmpaddr_n'[i] = pmpaddr_n[i]
             /\ (pmpcfg_n[i].A = "TOR" /\ i > 0) => pmpaddr_n'[i - 1] = pmpaddr_n[i - 1]
  <2>1. CASE AddrLocked(j)
    BY <1>2, <2>1 DEF WritePmpaddr
  <2>2. CASE ~AddrLocked(j)
    <3>1. j # i
      BY <2>2 DEF AddrLocked
    <3>2. (pmpcfg_n[i].A = "TOR" /\ i > 0) => j # i - 1
      BY <2>2 DEF AddrLocked, pmpTORLocked, pmpLocked, Entries
    <3> QED BY <1>2, <2>2, <3>1, <3>2 DEF WritePmpaddr, TypeOK
  <2> QED BY <2>1, <2>2
<1>3. CASE UNCHANGED vars
  BY <1>3 DEF vars
<1> QED BY <1>1, <1>2, <1>3 DEF Next

(* What is read from an address register is a function of its content, of  *)
(* the upper bit of its mode and of the grain, which never changes.        *)
LEMMA ReadIsKept ==
  ASSUME [Next]_vars, NEW i, pmpaddr_n'[i] = pmpaddr_n[i],
         sys_pmp_grain = 0 \/ HighMode(pmpcfg_n[i])' = HighMode(pmpcfg_n[i])
  PROVE  pmpReadAddrReg(i)' = pmpReadAddrReg(i)
<1>1. sys_pmp_grain' = sys_pmp_grain
  BY DEF Next, WritePmpcfg, WritePmpaddr, vars
<1> QED BY <1>1 DEF pmpReadAddrReg

(* The range is a function of what the lock keeps and, with a grain, of    *)
(* the upper bit of the mode before it.                                    *)
LEMMA LockKeepsRange ==
  ASSUME TypeOK, [Next]_vars, NEW i \in Entries, pmpLocked(pmpcfg_n[i]), LowerBoundKept(i)
  PROVE  pmpAddrRange(i)' = pmpAddrRange(i)
<1>1. /\ pmpcfg_n'[i] = pmpcfg_n[i] /\ pmpaddr_n'[i] = pmpaddr_n[i]
      /\ (pmpcfg_n[i].A = "TOR" /\ i > 0) => pmpaddr_n'[i - 1] = pmpaddr_n[i - 1]
  BY LockKeeps
<1>2. pmpReadAddrReg(i)' = pmpReadAddrReg(i)
  BY <1>1, ReadIsKept DEF HighMode
<1>3. pmpcfg_n[i].A = "TOR" => prev_pmpaddr(i)' = prev_pmpaddr(i)
  BY <1>1, ReadIsKept DEF LowerBoundKept, prev_pmpaddr
<1>4. pmpcfg_n[i].A \in Modes
  BY DEF TypeOK, Cfg
<1>5. CASE pmpcfg_n[i].A = "OFF"
  BY <1>1, <1>5 DEF pmpAddrRange
<1>6. CASE pmpcfg_n[i].A = "TOR"
  BY <1>1, <1>2, <1>3, <1>6 DEF pmpAddrRange
<1>7. CASE pmpcfg_n[i].A = "NA4"
  BY <1>1, <1>2, <1>7 DEF pmpAddrRange
<1>8. CASE pmpcfg_n[i].A = "NAPOT"
  BY <1>1, <1>2, <1>8 DEF pmpAddrRange
<1> QED BY <1>4, <1>5, <1>6, <1>7, <1>8 DEF Modes

(* A locked entry keeps its permissions for ever, and its range as long as *)
(* the mode before it keeps its upper bit (or there is no grain), whatever *)
(* machine-mode software writes to any PMP register.                       *)
THEOREM PmpLockedFrozen == Spec => LockedEntryFrozen
<1>1. TypeOK /\ [Next]_vars =>
        [\A i \in Entries : pmpLocked(pmpcfg_n[i]) =>
           /\ pmpcfg_n'[i] = pmpcfg_n[i]
           /\ LowerBoundKept(i) => pmpAddrRange(i)' = pmpAddrRange(i)]_vars
  BY LockKeeps, LockKeepsRange
<1> QED BY <1>1, PmpTypeCorrect, PTL DEF Spec, LockedEntryFrozen

(* The entry that decides exists: a nonempty set of entries has a least. *)
LEMMA MinEntry ==
  ASSUME NEW S, S \subseteq Entries, S # {}
  PROVE  Min(S) \in S /\ \A y \in S : Min(S) <= y
<1>1. S \subseteq Nat
  BY DEF Entries
<1>2. PICK x \in S : \A y \in S : ~(<<y, x>> \in OpToRel(<, Nat))
  BY <1>1, WFMin, NatLessThanWellFounded
<1>3. \A y \in S : ~(y < x)
  BY <1>1, <1>2 DEF OpToRel
<1>4. \A y \in S : x <= y
  BY <1>1, <1>3
<1> QED BY <1>4 DEF Min

(* An entry that is no larger than any other is the first one. *)
LEMMA MinUnique ==
  ASSUME NEW S, S \subseteq Entries, NEW k \in S, \A y \in S : k <= y
  PROVE  Min(S) = k
<1>1. Min(S) \in S /\ Min(S) <= k
  BY MinEntry
<1>2. Min(S) \in Int /\ k \in Int
  <2>1. \A y \in S : y \in Int
    BY DEF Entries
  <2> QED BY <1>1, <2>1
<1>3. k <= Min(S)
  BY <1>1
<1> QED BY <1>1, <1>2, <1>3

(* The entry that decides is the one pmpCheck asks. *)
LEMMA DecidesIsCheck ==
  ASSUME NEW a, NEW w, NEW k \in Entries, Decides(k, a, w)
  PROVE  \A acc, priv : pmpCheck(a, w, acc, priv) = EntrySucceeds(k, a, w, acc, priv)
<1>1. Matching(a, w) \subseteq Entries /\ k \in Matching(a, w)
  BY DEF Matching, Decides
<1>2. \A y \in Matching(a, w) : k <= y
  BY <1>1 DEF Decides, Entries
<1>3. Min(Matching(a, w)) = k
  BY <1>1, <1>2, MinUnique
<1> QED BY <1>1, <1>3 DEF pmpCheck

(* With every grain: the range of an entry that is locked together with    *)
(* the one before it.                                                      *)
LEMMA LockedPairKeepsRange ==
  ASSUME TypeOK, [Next]_vars, NEW i \in Entries, pmpLocked(pmpcfg_n[i]),
         i > 0 => pmpLocked(pmpcfg_n[i - 1])
  PROVE  pmpcfg_n'[i] = pmpcfg_n[i] /\ pmpAddrRange(i)' = pmpAddrRange(i)
<1>1. i > 0 => pmpcfg_n'[i - 1] = pmpcfg_n[i - 1]
  BY PmpAssumption, LockKeeps DEF Entries
<1>2. LowerBoundKept(i)
  BY <1>1 DEF LowerBoundKept, HighMode
<1> QED BY <1>2, LockKeeps, LockKeepsRange

(* With every grain, an access that a locked prefix of the entries decides *)
(* is decided by the same entry, in the same way, for ever.                *)
THEOREM PmpLockedPrefix == Spec => LockedPrefixDecides
<1>1. ASSUME TypeOK, [Next]_vars, NEW k \in LockedPrefix, NEW a, NEW w, Decides(k, a, w)
      PROVE  /\ Decides(k, a, w)'
             /\ \A acc : EntrySucceeds(k, a, w, acc, "Machine")'
                            = EntrySucceeds(k, a, w, acc, "Machine")
  <2>1. k \in Nat /\ k \in Entries
    BY <1>1 DEF LockedPrefix, Entries
  <2>2. \A j \in 0 .. k : j \in Entries /\ pmpLocked(pmpcfg_n[j])
    BY <1>1, <2>1, PmpAssumption DEF LockedPrefix, Entries
  <2>3. \A j \in 0 .. k : pmpcfg_n'[j] = pmpcfg_n[j] /\ pmpAddrRange(j)' = pmpAddrRange(j)
    <3> SUFFICES ASSUME NEW j \in 0 .. k
                 PROVE  pmpcfg_n'[j] = pmpcfg_n[j] /\ pmpAddrRange(j)' = pmpAddrRange(j)
      OBVIOUS
    <3>1. j > 0 => j - 1 \in 0 .. k
      BY <2>1
    <3> QED BY <1>1, <2>2, <3>1, LockedPairKeepsRange
  <2>4. \A j \in 0 .. k : j \in Matching(a, w)' <=> j \in Matching(a, w)
    BY <2>2, <2>3 DEF Matching
  <2>5. k \in 0 .. k /\ \A j \in 0 .. k - 1 : j \in 0 .. k
    BY <2>1
  <2>6. Decides(k, a, w)'
    BY <1>1, <2>4, <2>5 DEF Decides
  <2>7. \A acc : EntrySucceeds(k, a, w, acc, "Machine")'
                   = EntrySucceeds(k, a, w, acc, "Machine")
    BY <2>3, <2>5 DEF EntrySucceeds
  <2> QED BY <2>6, <2>7
<1>2. TypeOK /\ [Next]_vars =>
        [\A k \in LockedPrefix, x \in Accesses :
           Decides(k, x[1], x[2]) =>
             /\ Decides(k, x[1], x[2])'
             /\ \A acc \in AccessTypes : EntrySucceeds(k, x[1], x[2], acc, "Machine")'
                   = EntrySucceeds(k, x[1], x[2], acc, "Machine")]_vars
  BY <1>1
<1> QED BY <1>2, PmpTypeCorrect, PTL DEF Spec, LockedPrefixDecides
-----------------------------------------------------------------------------
(* The arithmetic of one address register. *)

(* Induction as a fact about sets. *)
LEMMA SetInduction ==
  ASSUME NEW T \in SUBSET Nat, 0 \in T, \A n \in T : n + 1 \in T
  PROVE  T = Nat
<1> SUFFICES ASSUME T # Nat PROVE FALSE
  OBVIOUS
<1> DEFINE S == Nat \ T
<1>1. S \subseteq Nat /\ S # {}
  OBVIOUS
<1>2. PICK x \in S : \A y \in S : ~(<<y, x>> \in OpToRel(<, Nat))
  BY <1>1, WFMin, NatLessThanWellFounded
<1>3. x \in Nat /\ x # 0 /\ x \notin T
  BY <1>2
<1>4. x - 1 \in Nat /\ x - 1 < x
  BY <1>3
<1>5. x - 1 \in T
  BY <1>2, <1>3, <1>4 DEF OpToRel
<1>6. (x - 1) + 1 \in T
  BY <1>5
<1> QED BY <1>3, <1>6

(* Every power in use is a positive integer. *)
LEMMA PowerPositive ==
  ASSUME NEW n \in 0 .. XlenBits
  PROVE  2^n \in Nat /\ 2^n > 0
<1> DEFINE T == {k \in Nat : k <= XlenBits => 2^k \in Nat /\ 2^k > 0}
<1>1. 0 \in T
  BY SMT
<1>2. ASSUME NEW k \in T PROVE k + 1 \in T
  <2> SUFFICES ASSUME k + 1 <= XlenBits PROVE 2^(k + 1) \in Nat /\ 2^(k + 1) > 0
    OBVIOUS
  <2>1. k \in 0 .. XlenBits
    BY PmpAssumption
  <2>2. 2^(k + 1) = 2 * 2^k /\ 2^k \in Nat /\ 2^k > 0
    BY <2>1, PowerLaw
  <2> QED BY <2>2
<1> HIDE DEF T
<1>3. T = Nat
  <2>1. T \in SUBSET Nat
    BY DEF T
  <2> QED BY <1>1, <1>2, <2>1, SetInduction
<1> QED BY <1>3, PmpAssumption DEF T

(* The law of exponents. *)
LEMMA PowerSum ==
  ASSUME NEW m \in Nat, NEW n \in Nat, m + n <= XlenBits
  PROVE  2^(m + n) = 2^m * 2^n
<1> DEFINE T == {k \in Nat : m + k <= XlenBits => 2^(m + k) = 2^m * 2^k}
<1>1. 0 \in T
  <2> SUFFICES ASSUME m + 0 <= XlenBits PROVE 2^(m + 0) = 2^m * 2^0
    OBVIOUS
  <2>1. m + 0 = m /\ 2^0 = 1 /\ m \in 0 .. XlenBits
    BY PmpAssumption
  <2>2. 2^m \in Nat
    BY <2>1, PowerPositive
  <2> QED BY <2>1, <2>2
<1>2. ASSUME NEW k \in T PROVE k + 1 \in T
  <2> SUFFICES ASSUME m + (k + 1) <= XlenBits PROVE 2^(m + (k + 1)) = 2^m * 2^(k + 1)
    OBVIOUS
  <2>1. /\ m + k \in 0 .. XlenBits /\ k \in 0 .. XlenBits /\ m \in 0 .. XlenBits
        /\ m + (k + 1) = (m + k) + 1 /\ m + k <= XlenBits
    BY PmpAssumption
  <2>2. 2^((m + k) + 1) = 2 * 2^(m + k) /\ 2^(k + 1) = 2 * 2^k
    BY <2>1, PowerLaw
  <2>3. 2^(m + k) = 2^m * 2^k
    BY <2>1
  <2>4. 2^m \in Nat /\ 2^k \in Nat
    BY <2>1, PowerPositive
  <2>5. \A x, y \in Nat : 2 * (x * y) = x * (2 * y)
    OBVIOUS
  <2> QED BY <2>1, <2>2, <2>3, <2>4, <2>5
<1> HIDE DEF T
<1>3. T = Nat
  <2>1. T \in SUBSET Nat
    BY DEF T
  <2> QED BY <1>1, <1>2, <2>1, SetInduction
<1> QED BY <1>3 DEF T

(* Longer numbers are larger. *)
LEMMA PowerOrder ==
  ASSUME NEW m \in 0 .. XlenBits, NEW n \in 0 .. XlenBits, m <= n
  PROVE  2^m <= 2^n
<1>1. n - m \in 0 .. XlenBits /\ m + (n - m) = n /\ m \in Nat /\ n - m \in Nat /\ n <= XlenBits
  BY PmpAssumption
<1>2. 2^n = 2^m * 2^(n - m)
  <2>1. 2^(m + (n - m)) = 2^m * 2^(n - m)
    BY <1>1, PowerSum
  <2> QED BY <1>1, <2>1
<1>3. 2^m \in Nat /\ 2^(n - m) \in Nat /\ 2^(n - m) > 0
  BY <1>1, PowerPositive
<1>4. \A x \in Nat, y \in Nat : y > 0 => x <= x * y
  <2> TAKE x \in Nat, y \in Nat
  <2>1. y > 0 => x * y = x + x * (y - 1) /\ x * (y - 1) \in Nat
    OBVIOUS
  <2> QED BY <2>1
<1> QED BY <1>2, <1>3, <1>4

(* Division with remainder. *)
LEMMA Remainder ==
  ASSUME NEW k \in Nat, k > 0, NEW q \in Int, NEW r \in 0 .. k - 1
  PROVE  (q * k + r) % k = r /\ (q * k + r) \div k = q
<1> DEFINE n == q * k + r
           d == n \div k
           m == n % k
<1>1. n \in Int /\ d \in Int /\ m \in 0 .. k - 1 /\ n = k * d + m
  OBVIOUS
<1> HIDE DEF d, m
<1>2. k * (q - d) = m - r
  BY <1>1
<1>3. \A e \in Int : (e >= 1 => k * e >= k) /\ (e <= -1 => k * e <= -k)
  <2>1. \A a \in Nat : k * a \in Nat
    OBVIOUS
  <2>2. \A e \in Int : /\ k * e = k * (e - 1) + k /\ k * e = -(k * (-e - 1)) - k
                       /\ k * e \in Int
    OBVIOUS
  <2> TAKE e \in Int
  <2>3. e >= 1 => k * (e - 1) \in Nat
    BY <2>1
  <2>4. e <= -1 => k * (-e - 1) \in Nat
    BY <2>1
  <2> QED BY <2>2, <2>3, <2>4
<1>4. q - d \in Int /\ m - r < k /\ m - r > -k
  BY <1>1
<1>5. q = d
  BY <1>1, <1>2, <1>3, <1>4
<1>6. m = r
  BY <1>1, <1>2, <1>5
<1> QED BY <1>5, <1>6 DEF d, m

(* A number is its quotient and its remainder by a power of two. *)
LEMMA Divided ==
  ASSUME NEW a \in Nat, NEW n \in 0 .. XlenBits
  PROVE  a \div 2^n \in Nat /\ a % 2^n \in 0 .. 2^n - 1 /\ a = (a \div 2^n) * 2^n + (a % 2^n)
<1> DEFINE p == 2^n
<1>1. p \in Nat /\ p > 0
  BY PowerPositive
<1> HIDE DEF p
<1>2. a \div p \in Int /\ a % p \in 0 .. p - 1 /\ a = (a \div p) * p + (a % p)
  BY <1>1
<1>3. a \div p \in Nat
  BY <1>1
<1> QED BY <1>2, <1>3 DEF p

(* The remainder grows by one bit at a time. *)
LEMMA OneBitMore ==
  ASSUME NEW a \in Nat, NEW n \in 0 .. XlenBits - 1
  PROVE  BitOf(a, n) \in Bit /\ a % 2^(n + 1) = (a % 2^n) + 2^n * BitOf(a, n)
<1> DEFINE p == 2^n
           q == a \div p
           r == a % p
           b == q % 2
           h == q \div 2
<1>0. n \in 0 .. XlenBits /\ n + 1 \in 0 .. XlenBits
  BY PmpAssumption
<1>1. p \in Nat /\ p > 0 /\ 2^(n + 1) = 2 * p
  BY <1>0, PowerPositive, PowerLaw
<1>2. q \in Nat /\ r \in 0 .. p - 1 /\ a = q * p + r
  BY <1>0, Divided
<1> HIDE DEF p, q, r
<1>3. b \in 0 .. 1 /\ h \in Nat /\ q = 2 * h + b
  BY <1>2
<1> HIDE DEF b, h
<1>4. a = h * (2 * p) + (p * b + r)
  <2>1. \A x, y, z \in Nat : (2 * x + y) * z = x * (2 * z) + z * y
    OBVIOUS
  <2>2. q * p = h * (2 * p) + p * b
    BY <1>1, <1>3, <2>1
  <2> QED BY <1>1, <1>2, <1>3, <2>2
<1>5. p * b + r \in 0 .. 2 * p - 1
  <2>1. b = 0 \/ b = 1
    BY <1>3
  <2>2. p * 0 = 0 /\ p * 1 = p
    BY <1>1
  <2> QED BY <1>1, <1>2, <2>1, <2>2
<1>6. (h * (2 * p) + (p * b + r)) % (2 * p) = p * b + r
  <2>1. 2 * p \in Nat /\ 2 * p > 0 /\ h \in Int
    BY <1>1, <1>3
  <2> DEFINE pp == 2 * p
  <2> HIDE DEF pp
  <2>2. (h * pp + (p * b + r)) % pp = p * b + r
    BY <1>5, <2>1, Remainder DEF pp
  <2> QED BY <2>2 DEF pp
<1>7. a % (2 * p) = r + p * b
  <2>1. p * b \in Int /\ r \in Int
    BY <1>1, <1>2, <1>3
  <2> QED BY <1>4, <1>6, <2>1
<1> QED BY <1>1, <1>3, <1>7 DEF BitOf, Bit, b, q, r, p

(* The sum of the bits, given the sums of the lower ones. *)
LEMMA FromBitsIs ==
  ASSUME NEW bit, NEW w, w[0] = 0,
         \A n \in 0 .. XlenBits - 1 : w[n + 1] = w[n] + 2^n * bit[n]
  PROVE  FromBits(bit) = w[XlenBits]
<1> DEFINE Is(s) == s = [n \in 0 .. XlenBits |->
                           IF n = 0 THEN 0 ELSE s[n - 1] + 2^(n - 1) * bit[n - 1]]
           g == [n \in 0 .. XlenBits |-> w[n]]
           below == CHOOSE s : Is(s)
<1>1. Is(g)
  <2>1. ASSUME NEW n \in 0 .. XlenBits
        PROVE  g[n] = IF n = 0 THEN 0 ELSE g[n - 1] + 2^(n - 1) * bit[n - 1]
    <3>1. CASE n = 0
      BY <3>1
    <3>2. CASE n # 0
      <4>1. n - 1 \in 0 .. XlenBits - 1 /\ (n - 1) + 1 = n /\ n - 1 \in 0 .. XlenBits
        BY <3>2, PmpAssumption
      <4>2. w[(n - 1) + 1] = w[n - 1] + 2^(n - 1) * bit[n - 1]
        BY <4>1
      <4> QED BY <3>2, <4>1, <4>2
    <3> QED BY <3>1, <3>2
  <2> QED BY <2>1
<1>2. Is(below)
  <2> HIDE DEF g
  <2> QED BY <1>1
<1>3. FromBits(bit) = below[XlenBits]
  BY DEF FromBits
<1> HIDE DEF below
<1> DEFINE T == {k \in Nat : k <= XlenBits => below[k] = w[k]}
<1>4. 0 \in T
  <2>1. 0 \in 0 .. XlenBits
    BY PmpAssumption
  <2> QED BY <1>2, <2>1
<1>5. ASSUME NEW k \in T PROVE k + 1 \in T
  <2> SUFFICES ASSUME k + 1 <= XlenBits PROVE below[k + 1] = w[k + 1]
    OBVIOUS
  <2>1. /\ k + 1 \in 0 .. XlenBits /\ k + 1 # 0 /\ (k + 1) - 1 = k
        /\ k \in 0 .. XlenBits - 1 /\ k <= XlenBits
    BY PmpAssumption
  <2>2. below[k + 1] = below[k] + 2^k * bit[k]
    BY <1>2, <2>1
  <2>3. w[k + 1] = w[k] + 2^k * bit[k] /\ below[k] = w[k]
    BY <2>1
  <2> QED BY <2>2, <2>3
<1> HIDE DEF T
<1>6. T = Nat
  <2>1. T \in SUBSET Nat
    BY DEF T
  <2> QED BY <1>4, <1>5, <2>1, SetInduction
<1> QED BY <1>3, <1>6, PmpAssumption DEF T

(* The last zero of an address: the bits below it are ones. *)
LEMMA LastZeroFacts ==
  ASSUME NEW a \in Pmpaddr
  PROVE  /\ LastZero(a) \in 0 .. PmpaddrBits
         /\ BitOf(a, LastZero(a)) = 0
         /\ \A n \in 0 .. LastZero(a) - 1 : BitOf(a, n) = 1
<1> DEFINE S == {n \in 0 .. PmpaddrBits : BitOf(a, n) = 0}
<1>1. PmpaddrBits \in S
  <2>1. PmpaddrBits \in 0 .. XlenBits /\ PmpaddrBits \in 0 .. PmpaddrBits
    BY PmpAssumption
  <2> DEFINE p == 2^PmpaddrBits
  <2>2. p \in Nat /\ p > 0 /\ a \in 0 .. p - 1
    BY <2>1, PowerPositive DEF Pmpaddr
  <2> HIDE DEF p
  <2>3. a \div p = 0
    <3>1. (0 * p + a) \div p = 0
      BY <2>2, Remainder
    <3>2. 0 * p + a = a
      BY <2>2
    <3> QED BY <3>1, <3>2
  <2>4. BitOf(a, PmpaddrBits) = 0
    <3>1. (a \div p) % 2 = 0
      BY <2>3
    <3> QED BY <3>1 DEF p, BitOf
  <2> QED BY <2>1, <2>4
<1>2. S \subseteq Nat
  BY PmpAssumption
<1>3. PICK x \in S : \A y \in S : ~(<<y, x>> \in OpToRel(<, Nat))
  BY <1>1, <1>2, WFMin, NatLessThanWellFounded
<1>4. \A y \in S : x <= y
  <2>1. \A y \in S : ~(y < x)
    BY <1>2, <1>3 DEF OpToRel
  <2> QED BY <1>2, <2>1
<1>5. LastZero(a) = Min(S)
  BY DEF LastZero
<1> DEFINE z == LastZero(a)
<1>6. z \in S /\ \A y \in S : z <= y
  <2> HIDE DEF S
  <2> QED BY <1>3, <1>4, <1>5 DEF Min
<1> HIDE DEF z
<1>7. ASSUME NEW n \in 0 .. z - 1 PROVE BitOf(a, n) = 1
  <2>1. z \in 0 .. PmpaddrBits
    BY <1>6
  <2>2. n \in 0 .. PmpaddrBits /\ n < z /\ ~(z <= n)
    BY <2>1, PmpAssumption
  <2>3. n \notin S
    BY <1>6, <2>2
  <2>4. BitOf(a, n) # 0
    BY <2>2, <2>3
  <2>5. BitOf(a, n) \in Bit
    <3>1. a \in Nat
      BY DEF Pmpaddr
    <3>2. n \in 0 .. XlenBits - 1
      BY <2>1, <2>2, PmpAssumption
    <3> QED BY <3>1, <3>2, OneBitMore
  <2> QED BY <2>4, <2>5 DEF Bit
<1> QED BY <1>6, <1>7 DEF z

(* A number whose lowest bits are ones, followed by a zero. *)
TrailingOnes(a, z) ==
  /\ a \in Nat /\ z \in 0 .. XlenBits - 1
  /\ BitOf(a, z) = 0
  /\ \A n \in 0 .. z - 1 : BitOf(a, n) = 1

(* Its remainders, up to that zero and beyond it. *)
LEMMA OnesBelow ==
  ASSUME NEW a, NEW z, TrailingOnes(a, z)
  PROVE  /\ \A n \in 0 .. z : a % 2^n = 2^n - 1
         /\ a % 2^(z + 1) = 2^z - 1
         /\ \A n \in z + 1 .. XlenBits : (a % 2^n) + 1 < 2^n
<1>0. a \in Nat /\ z \in 0 .. XlenBits - 1 /\ z \in Nat
  BY PmpAssumption DEF TrailingOnes
<1>a. \A n \in 0 .. XlenBits : 2^n \in Nat /\ 2^n > 0
  BY PowerPositive
<1>1. \A n \in 0 .. z : a % 2^n = 2^n - 1
  <2> DEFINE T == {k \in Nat : k <= z => a % 2^k = 2^k - 1}
  <2>1. 0 \in T
    <3>1. 2^0 = 1 /\ a % 1 = 0
      BY <1>0
    <3> QED BY <3>1
  <2>2. ASSUME NEW k \in T PROVE k + 1 \in T
    <3> SUFFICES ASSUME k + 1 <= z PROVE a % 2^(k + 1) = 2^(k + 1) - 1
      OBVIOUS
    <3>1. k \in 0 .. z - 1 /\ k \in 0 .. XlenBits - 1 /\ k \in 0 .. XlenBits /\ k <= z
      BY <1>0, PmpAssumption
    <3>2. BitOf(a, k) = 1
      BY <3>1 DEF TrailingOnes
    <3>3. a % 2^(k + 1) = (a % 2^k) + 2^k * BitOf(a, k)
      BY <1>0, <3>1, OneBitMore
    <3>4. a % 2^k = 2^k - 1
      BY <3>1
    <3>5. 2^(k + 1) = 2 * 2^k /\ 2^k \in Nat
      BY <1>a, <3>1, PowerLaw
    <3> QED BY <3>2, <3>3, <3>4, <3>5
  <2> HIDE DEF T
  <2>3. T = Nat
    <3>1. T \in SUBSET Nat
      BY DEF T
    <3> QED BY <2>1, <2>2, <3>1, SetInduction
  <2> QED BY <1>0, <2>3 DEF T
<1>2. a % 2^(z + 1) = 2^z - 1
  <2>1. a % 2^(z + 1) = (a % 2^z) + 2^z * BitOf(a, z)
    BY <1>0, OneBitMore
  <2>2. a % 2^z = 2^z - 1 /\ BitOf(a, z) = 0
    BY <1>0, <1>1 DEF TrailingOnes
  <2>3. 2^z \in Nat
    BY <1>0, <1>a, PmpAssumption
  <2> QED BY <2>1, <2>2, <2>3
<1>3. ASSUME NEW n \in z + 1 .. XlenBits PROVE (a % 2^n) + 1 < 2^n
  <2> DEFINE Q(k) == (a % 2^k) + 1 < 2^k
             T == {j \in Nat : z + 1 + j <= XlenBits => Q(z + 1 + j)}
  <2>1. 0 \in T
    <3>1. z + 1 + 0 = z + 1
      BY <1>0
    <3>2. z \in 0 .. XlenBits
      BY <1>0, PmpAssumption
    <3>3. 2^(z + 1) = 2 * 2^z /\ 2^z \in Nat /\ 2^z > 0
      BY <1>a, <3>2, PowerLaw
    <3>4. (a % 2^(z + 1)) + 1 < 2^(z + 1)
      BY <1>2, <3>3
    <3> QED BY <3>1, <3>4
  <2>2. ASSUME NEW j \in T PROVE j + 1 \in T
    <3> SUFFICES ASSUME z + 1 + (j + 1) <= XlenBits PROVE Q(z + 1 + (j + 1))
      OBVIOUS
    <3> DEFINE k == z + 1 + j
    <3>1. /\ z + 1 + (j + 1) = k + 1 /\ k \in 0 .. XlenBits - 1 /\ k \in 0 .. XlenBits
          /\ k <= XlenBits
      BY <1>0, PmpAssumption
    <3>2. Q(k)
      BY <3>1
    <3> HIDE DEF k
    <3>3. a % 2^(k + 1) = (a % 2^k) + 2^k * BitOf(a, k) /\ BitOf(a, k) \in 0 .. 1
      BY <1>0, <3>1, OneBitMore DEF Bit
    <3>4. 2^(k + 1) = 2 * 2^k /\ 2^k \in Nat /\ 2^k > 0
      BY <1>a, <3>1, PowerLaw
    <3>5. a % 2^k \in Int
      BY <1>0, <3>1, Divided
    <3>6. 2^k * BitOf(a, k) <= 2^k /\ 2^k * BitOf(a, k) \in Int
      <4>1. 2^k * 0 = 0 /\ 2^k * 1 = 2^k
        BY <3>4
      <4>2. BitOf(a, k) = 0 \/ BitOf(a, k) = 1
        BY <3>3
      <4> QED BY <3>4, <4>1, <4>2
    <3>7. (a % 2^(k + 1)) + 1 < 2^(k + 1)
      BY <3>2, <3>3, <3>4, <3>5, <3>6
    <3> QED BY <3>1, <3>7
  <2> HIDE DEF T, Q
  <2>3. T = Nat
    <3>1. T \in SUBSET Nat
      BY DEF T
    <3> QED BY <2>1, <2>2, <3>1, SetInduction
  <2>4. n - z - 1 \in Nat /\ z + 1 + (n - z - 1) = n /\ n <= XlenBits
    BY <1>0, PmpAssumption
  <2>5. Q(z + 1 + (n - z - 1))
    BY <2>3, <2>4 DEF T
  <2> QED BY <2>4, <2>5 DEF Q
<1> QED BY <1>1, <1>2, <1>3

(* The bits of the successor: the ones are cleared, the zero is set and    *)
(* what is above them stays.                                               *)
LEMMA SuccessorBits ==
  ASSUME NEW a, NEW z, TrailingOnes(a, z)
  PROVE  /\ \A n \in 0 .. z - 1 : BitOf(a + 1, n) = 0
         /\ BitOf(a + 1, z) = 1
         /\ \A n \in z + 1 .. XlenBits - 1 : BitOf(a + 1, n) = BitOf(a, n)
<1>0. a \in Nat /\ a + 1 \in Nat /\ z \in 0 .. XlenBits - 1 /\ z \in Nat
  BY PmpAssumption DEF TrailingOnes
<1>a. \A n \in 0 .. XlenBits : 2^n \in Nat /\ 2^n > 0
  BY PowerPositive
<1>1. ASSUME NEW n \in 0 .. z PROVE (a + 1) % 2^n = 0
  <2>1. n \in 0 .. XlenBits
    BY <1>0, PmpAssumption
  <2> DEFINE p == 2^n
             q == a \div p
  <2>2. p \in Nat /\ p > 0 /\ q \in Nat /\ a = q * p + (a % p)
    BY <1>0, <1>a, <2>1, Divided
  <2>3. a % p = p - 1
    BY OnesBelow
  <2> HIDE DEF p, q
  <2>4. a + 1 = (q + 1) * p + 0
    BY <2>2, <2>3
  <2>5. ((q + 1) * p + 0) % p = 0
    <3>1. q + 1 \in Int /\ 0 \in 0 .. p - 1
      BY <2>2
    <3> QED BY <2>2, <3>1, Remainder
  <2>6. (a + 1) % p = 0
    BY <2>4, <2>5
  <2> QED BY <2>6 DEF p
<1>2. ASSUME NEW n \in 0 .. z - 1 PROVE BitOf(a + 1, n) = 0
  <2>1. n \in 0 .. XlenBits - 1 /\ n \in 0 .. XlenBits /\ n \in 0 .. z /\ n + 1 \in 0 .. z
    BY <1>0, PmpAssumption
  <2>2. (a + 1) % 2^(n + 1) = ((a + 1) % 2^n) + 2^n * BitOf(a + 1, n) /\ BitOf(a + 1, n) \in 0 .. 1
    BY <1>0, <2>1, OneBitMore DEF Bit
  <2>3. (a + 1) % 2^(n + 1) = 0 /\ (a + 1) % 2^n = 0
    BY <1>1, <2>1
  <2>4. 2^n \in Nat /\ 2^n > 0
    BY <1>a, <2>1
  <2>5. BitOf(a + 1, n) # 1
    <3>1. 2^n * 1 = 2^n
      BY <2>4
    <3> QED BY <2>2, <2>3, <2>4, <3>1
  <2> QED BY <2>2, <2>5
<1>3. ASSUME NEW n \in z + 1 .. XlenBits
      PROVE  (a + 1) % 2^n = (a % 2^n) + 1 /\ (a + 1) \div 2^n = a \div 2^n
  <2>1. n \in 0 .. XlenBits
    BY <1>0, PmpAssumption
  <2> DEFINE p == 2^n
             q == a \div p
             r == a % p
  <2>2. p \in Nat /\ p > 0 /\ q \in Nat /\ r \in 0 .. p - 1 /\ a = q * p + r
    BY <1>0, <1>a, <2>1, Divided
  <2>3. r + 1 < p
    BY OnesBelow
  <2> HIDE DEF p, q, r
  <2>4. a + 1 = q * p + (r + 1) /\ r + 1 \in 0 .. p - 1
    BY <2>2, <2>3
  <2>5. (q * p + (r + 1)) % p = r + 1 /\ (q * p + (r + 1)) \div p = q
    BY <2>2, <2>4, Remainder
  <2>6. (a + 1) % p = r + 1 /\ (a + 1) \div p = q
    BY <2>4, <2>5
  <2> QED BY <2>6 DEF p, q, r
<1>4. BitOf(a + 1, z) = 1
  <2>1. z \in 0 .. XlenBits /\ z + 1 \in z + 1 .. XlenBits /\ z \in 0 .. z
    BY <1>0, PmpAssumption
  <2>2. (a + 1) % 2^(z + 1) = ((a + 1) % 2^z) + 2^z * BitOf(a + 1, z) /\ BitOf(a + 1, z) \in 0 .. 1
    BY <1>0, OneBitMore DEF Bit
  <2>3. (a + 1) % 2^(z + 1) = (a % 2^(z + 1)) + 1 /\ (a + 1) % 2^z = 0
    BY <1>1, <1>3, <2>1
  <2>4. a % 2^(z + 1) = 2^z - 1
    BY OnesBelow
  <2>5. 2^z \in Nat /\ 2^z > 0
    BY <1>a, <2>1
  <2>6. BitOf(a + 1, z) # 0
    <3>1. 2^z * 0 = 0
      BY <2>5
    <3> QED BY <2>2, <2>3, <2>4, <2>5, <3>1
  <2> QED BY <2>2, <2>6
<1>5. ASSUME NEW n \in z + 1 .. XlenBits - 1 PROVE BitOf(a + 1, n) = BitOf(a, n)
  <2>1. n \in z + 1 .. XlenBits
    BY <1>0, PmpAssumption
  <2> QED BY <1>3, <2>1 DEF BitOf
<1> QED BY <1>2, <1>4, <1>5

(* A number and its successor differ in the ones and the zero. *)
LEMMA MaskIsOnes ==
  ASSUME NEW a, NEW z, TrailingOnes(a, z)
  PROVE  BitXor(a, a + 1) = 2^(z + 1) - 1
<1>0. a \in Nat /\ a + 1 \in Nat /\ z \in 0 .. XlenBits - 1 /\ z \in Nat /\ XlenBits \in Nat
  BY PmpAssumption DEF TrailingOnes
<1> DEFINE bit == [n \in 0 .. XlenBits - 1 |-> (BitOf(a, n) + BitOf(a + 1, n)) % 2]
           w == [n \in 0 .. XlenBits |-> IF n <= z + 1 THEN 2^n - 1 ELSE 2^(z + 1) - 1]
<1>1. w[0] = 0
  <2>1. 0 \in 0 .. XlenBits /\ 0 <= z + 1 /\ 2^0 = 1
    BY <1>0
  <2> QED BY <2>1
<1>2. ASSUME NEW n \in 0 .. XlenBits - 1 PROVE w[n + 1] = w[n] + 2^n * bit[n]
  <2>1. n \in 0 .. XlenBits /\ n + 1 \in 0 .. XlenBits /\ n \in Nat
    BY <1>0
  <2>2. 2^n \in Nat /\ 2^(n + 1) = 2 * 2^n
    BY <2>1, PowerPositive, PowerLaw
  <2>3. 2^(z + 1) \in Nat
    BY <1>0, PowerPositive
  <2>4. bit[n] = (BitOf(a, n) + BitOf(a + 1, n)) % 2
    OBVIOUS
  <2>5. CASE n <= z
    <3>1. bit[n] = 1
      <4>1. CASE n < z
        <5>1. n \in 0 .. z - 1
          BY <1>0, <2>1, <4>1
        <5>2. BitOf(a, n) = 1
          BY <5>1 DEF TrailingOnes
        <5>3. BitOf(a + 1, n) = 0
          BY <5>1, SuccessorBits
        <5> QED BY <2>4, <5>2, <5>3
      <4>2. CASE n = z
        <5>1. BitOf(a, n) = 0
          BY <4>2 DEF TrailingOnes
        <5>2. BitOf(a + 1, n) = 1
          BY <4>2, SuccessorBits
        <5> QED BY <2>4, <5>1, <5>2
      <4> QED BY <1>0, <2>1, <2>5, <4>1, <4>2
    <3>2. w[n] = 2^n - 1 /\ w[n + 1] = 2^(n + 1) - 1
      <4>1. n <= z + 1 /\ n + 1 <= z + 1
        BY <1>0, <2>1, <2>5
      <4> QED BY <2>1, <4>1
    <3> HIDE DEF bit, w
    <3> QED BY <2>2, <3>1, <3>2
  <2>6. CASE n > z
    <3>1. bit[n] = 0
      <4>1. n \in z + 1 .. XlenBits - 1
        BY <1>0, <2>1, <2>6
      <4>2. BitOf(a + 1, n) = BitOf(a, n) /\ BitOf(a, n) \in 0 .. 1
        BY <1>0, <4>1, SuccessorBits, OneBitMore DEF Bit
      <4>3. \A x \in 0 .. 1 : (x + x) % 2 = 0
        OBVIOUS
      <4> QED BY <2>4, <4>2, <4>3
    <3>2. w[n] = 2^(z + 1) - 1 /\ w[n + 1] = 2^(z + 1) - 1
      <4>1. ~(n + 1 <= z + 1) /\ (n <= z + 1 => n = z + 1)
        BY <1>0, <2>1, <2>6
      <4> QED BY <2>1, <4>1
    <3> HIDE DEF bit, w
    <3> QED BY <2>2, <2>3, <3>1, <3>2
  <2> QED BY <1>0, <2>1, <2>5, <2>6
<1>3. w[XlenBits] = 2^(z + 1) - 1
  <2>1. XlenBits \in 0 .. XlenBits /\ (XlenBits <= z + 1 => XlenBits = z + 1)
    BY <1>0
  <2> QED BY <2>1
<1>4. BitXor(a, a + 1) = FromBits(bit)
  BY DEF BitXor
<1> HIDE DEF bit, w
<1> QED BY <1>1, <1>2, <1>3, <1>4, FromBitsIs

(* The bits of a row of ones. *)
LEMMA BitsOfOnes ==
  ASSUME NEW m \in 0 .. XlenBits, NEW n \in 0 .. XlenBits
  PROVE  BitOf(2^m - 1, n) = IF n < m THEN 1 ELSE 0
<1>0. XlenBits \in Nat /\ m \in Nat /\ n \in Nat
  BY PmpAssumption
<1>1. CASE n < m
  <2> DEFINE p == 2^n
             q == 2^(m - n - 1)
  <2>1. /\ n + 1 \in Nat /\ m - n - 1 \in 0 .. XlenBits /\ m - n - 1 \in Nat
        /\ (n + 1) + (m - n - 1) = m /\ m <= XlenBits
    BY <1>0, <1>1
  <2>2. p \in Nat /\ p > 0 /\ q \in Nat /\ q > 0 /\ 2^(n + 1) = 2 * p
    BY <2>1, PowerPositive, PowerLaw
  <2>3. 2^m = (2 * p) * q
    <3>1. 2^((n + 1) + (m - n - 1)) = 2^(n + 1) * 2^(m - n - 1)
      BY <2>1, PowerSum
    <3> QED BY <2>1, <2>2, <3>1
  <2> HIDE DEF p, q
  <2>4. 2^m - 1 = (2 * q - 1) * p + (p - 1)
    BY <2>2, <2>3
  <2>5. ((2 * q - 1) * p + (p - 1)) \div p = 2 * q - 1
    <3>1. 2 * q - 1 \in Int /\ p - 1 \in 0 .. p - 1
      BY <2>2
    <3> QED BY <2>2, <3>1, Remainder
  <2>6. (2 * q - 1) % 2 = 1
    BY <2>2
  <2>7. ((2^m - 1) \div p) % 2 = 1
    BY <2>4, <2>5, <2>6
  <2> QED BY <1>1, <2>7 DEF BitOf, p
<1>2. CASE ~(n < m)
  <2> DEFINE p == 2^n
             v == 2^m - 1
  <2>1. p \in Nat /\ p > 0 /\ 2^m \in Nat /\ 2^m > 0
    BY PowerPositive
  <2>2. 2^m <= p
    BY <1>0, <1>2, PowerOrder
  <2>3. v \in 0 .. p - 1
    BY <2>1, <2>2
  <2> HIDE DEF p, v
  <2>4. v \div p = 0
    <3>1. (0 * p + v) \div p = 0
      BY <2>1, <2>3, Remainder
    <3>2. 0 * p + v = v
      BY <2>1, <2>3
    <3> QED BY <3>1, <3>2
  <2>5. (v \div p) % 2 = 0
    BY <2>4
  <2> QED BY <1>2, <2>5 DEF BitOf, p, v
<1> QED BY <1>1, <1>2

(* What remains of a number without its lowest bits. *)
LEMMA LowIsTruncated ==
  ASSUME NEW a \in Nat, a < 2^XlenBits, NEW m \in 0 .. XlenBits
  PROVE  BitAndNot(a, 2^m - 1) = Truncate(a, m)
<1>0. XlenBits \in Nat /\ m \in Nat /\ XlenBits \in 0 .. XlenBits
  BY PmpAssumption
<1>a. \A n \in 0 .. XlenBits : 2^n \in Nat /\ 2^n > 0 /\ a % 2^n \in Int
  BY PowerPositive, Divided
<1> DEFINE bit == [n \in 0 .. XlenBits - 1 |-> BitOf(a, n) * (1 - BitOf(2^m - 1, n))]
           low == a % 2^m
           w == [n \in 0 .. XlenBits |-> IF n <= m THEN 0 ELSE (a % 2^n) - low]
<1>1. w[0] = 0
  BY <1>0
<1>b. low \in Int /\ low = a % 2^m
  BY <1>a
<1>2. ASSUME NEW n \in 0 .. XlenBits - 1 PROVE w[n + 1] = w[n] + 2^n * bit[n]
  <2>1. n \in 0 .. XlenBits /\ n + 1 \in 0 .. XlenBits /\ n \in Nat
    BY <1>0
  <2>2. BitOf(a, n) \in 0 .. 1 /\ a % 2^(n + 1) = (a % 2^n) + 2^n * BitOf(a, n)
    BY OneBitMore DEF Bit
  <2>3. bit[n] = BitOf(a, n) * (1 - BitOf(2^m - 1, n))
    OBVIOUS
  <2>4. 2^n \in Nat /\ a % 2^n \in Int /\ a % 2^(n + 1) \in Int
    BY <1>a, <2>1
  <2>5. CASE n < m
    <3>1. bit[n] = 0
      <4>1. BitOf(2^m - 1, n) = 1
        BY <2>1, <2>5, BitsOfOnes
      <4> QED BY <2>2, <2>3, <4>1
    <3>2. w[n] = 0 /\ w[n + 1] = 0
      BY <1>0, <2>1, <2>5
    <3> HIDE DEF bit, w
    <3> QED BY <2>4, <3>1, <3>2
  <2>6. CASE ~(n < m)
    <3>1. bit[n] = BitOf(a, n)
      <4>1. BitOf(2^m - 1, n) = 0
        BY <2>1, <2>6, BitsOfOnes
      <4> QED BY <2>2, <2>3, <4>1
    <3>2. w[n] = (a % 2^n) - low
      <4>1. CASE n = m
        <5>1. w[n] = 0
          BY <1>0, <2>1, <4>1
        <5> HIDE DEF w
        <5> QED BY <1>b, <4>1, <5>1
      <4>2. CASE n # m
        <5>1. ~(n <= m)
          BY <1>0, <2>1, <2>6, <4>2
        <5> QED BY <2>1, <5>1
      <4> QED BY <4>1, <4>2
    <3>3. w[n + 1] = (a % 2^(n + 1)) - low
      <4>1. ~(n + 1 <= m)
        BY <1>0, <2>1, <2>6
      <4> QED BY <2>1, <4>1
    <3> HIDE DEF bit, w, low
    <3>4. 2^n * BitOf(a, n) \in Int
      BY <2>2, <2>4
    <3> QED BY <1>b, <2>2, <2>4, <3>1, <3>2, <3>3, <3>4
  <2> QED BY <2>5, <2>6
<1>3. BitAndNot(a, 2^m - 1) = w[XlenBits]
  <2>1. BitAndNot(a, 2^m - 1) = FromBits(bit)
    BY DEF BitAndNot
  <2> HIDE DEF bit, w
  <2> QED BY <1>1, <1>2, <2>1, FromBitsIs
<1>4. a % 2^XlenBits = a
  <2> DEFINE p == 2^XlenBits
  <2>1. p \in Nat /\ p > 0 /\ a \in 0 .. p - 1
    BY <1>0, <1>a
  <2> HIDE DEF p
  <2>2. (0 * p + a) % p = a
    BY <2>1, Remainder
  <2>3. 0 * p + a = a
    BY <2>1
  <2> QED BY <2>2, <2>3 DEF p
<1>5. w[XlenBits] = a - low
  <2>1. CASE XlenBits = m
    <3>1. w[XlenBits] = 0
      BY <1>0, <2>1
    <3>2. low = a
      BY <1>4, <2>1
    <3> HIDE DEF w, low
    <3> QED BY <3>1, <3>2
  <2>2. CASE XlenBits # m
    <3>1. ~(XlenBits <= m)
      BY <1>0, <2>2
    <3>2. w[XlenBits] = (a % 2^XlenBits) - low
      BY <1>0, <3>1
    <3> QED BY <1>4, <3>2
  <2> QED BY <2>1, <2>2
<1>6. Truncate(a, m) = a - low
  <2>1. a \div 2^m \in Nat /\ a = (a \div 2^m) * 2^m + low
    BY Divided
  <2>2. (a \div 2^m) * 2^m \in Int
    BY <1>a, <2>1
  <2> HIDE DEF low
  <2> QED BY <1>b, <2>1, <2>2 DEF Truncate
<1> HIDE DEF w, low
<1> QED BY <1>3, <1>5, <1>6

(* Cutting off bits leaves a multiple that is no larger. *)
LEMMA TruncateFacts ==
  ASSUME NEW a \in Nat, NEW m \in 0 .. XlenBits
  PROVE  Truncate(a, m) \in Nat /\ Truncate(a, m) <= a
<1>1. a \div 2^m \in Nat /\ a % 2^m \in Nat /\ a = (a \div 2^m) * 2^m + (a % 2^m) /\ 2^m \in Nat
  <2>1. 2^m \in Nat
    BY PowerPositive
  <2> QED BY <2>1, Divided
<1>2. (a \div 2^m) * 2^m \in Nat
  BY <1>1
<1> QED BY <1>1, <1>2 DEF Truncate

(* What is read with a grain is an address again. *)
LEMMA GrainKeepsAddress ==
  ASSUME NEW a \in Pmpaddr, NEW m \in 0 .. PmpaddrBits
  PROVE  FillOnes(a, m) \in Pmpaddr
<1> DEFINE p == 2^m
           c == 2^(PmpaddrBits - m)
           q == a \div p
<1>1. /\ m \in 0 .. XlenBits /\ m \in Nat /\ PmpaddrBits - m \in Nat
      /\ PmpaddrBits - m \in 0 .. XlenBits /\ m + (PmpaddrBits - m) = PmpaddrBits
      /\ PmpaddrBits <= XlenBits
  BY PmpAssumption
<1>2. p \in Nat /\ p > 0 /\ c \in Nat /\ c > 0
  BY <1>1, PowerPositive
<1>3. 2^PmpaddrBits = p * c
  <2>1. 2^(m + (PmpaddrBits - m)) = 2^m * 2^(PmpaddrBits - m)
    BY <1>1, PowerSum
  <2> QED BY <1>1, <2>1
<1>4. a \in 0 .. p * c - 1
  BY <1>3 DEF Pmpaddr
<1>5. q \in Nat /\ a = q * p + (a % p) /\ a % p \in 0 .. p - 1
  <2>1. a \in Nat
    BY <1>4
  <2> QED BY <1>1, <2>1, Divided
<1> HIDE DEF p, c, q
<1>6. q * p < p * c /\ q * p \in Nat /\ p * c \in Nat
  <2>1. q * p \in Nat /\ p * c \in Nat
    BY <1>2, <1>5
  <2> QED BY <1>4, <1>5, <2>1
<1>7. q < c
  <2> SUFFICES ASSUME q >= c PROVE FALSE
    BY <1>2, <1>5
  <2>1. q * p = p * c + (q - c) * p
    BY <1>2, <1>5
  <2>2. (q - c) * p \in Nat
    <3>1. q - c \in Nat
      BY <1>2, <1>5
    <3> QED BY <1>2, <3>1
  <2> QED BY <1>6, <2>1, <2>2
<1>8. q * p + p <= p * c
  <2>1. p * c = q * p + p + (c - q - 1) * p
    BY <1>2, <1>5
  <2>2. (c - q - 1) * p \in Nat
    <3>1. c - q - 1 \in Nat
      BY <1>2, <1>5, <1>7
    <3> QED BY <1>2, <3>1
  <2> QED BY <1>2, <1>6, <2>1, <2>2
<1>9. q * p + p - 1 \in 0 .. p * c - 1
  BY <1>2, <1>6, <1>8
<1>10. FillOnes(a, m) = q * p + p - 1
  BY DEF FillOnes, Truncate, p, q
<1> QED BY <1>3, <1>9, <1>10 DEF Pmpaddr

(* The mask trick of pmpAddrRange computes the region a NAPOT address      *)
(* names, without a carry out of the register.                             *)
LEMMA NapotExact ==
  ASSUME SpareBits, NEW a \in Pmpaddr
  PROVE  /\ a + 1 < 2^XlenBits
         /\ NapotRange[a] \in Nat \X Nat
         /\ NapotRange[a][1] .. NapotRange[a][2] - 1 = NapotWords(a)
<1> DEFINE z == LastZero(a)
           lo == Truncate(a, z + 1)
<1>1. z \in 0 .. PmpaddrBits /\ BitOf(a, z) = 0 /\ \A n \in 0 .. z - 1 : BitOf(a, n) = 1
  BY LastZeroFacts
<1> HIDE DEF z
<1>2. /\ z \in 0 .. XlenBits - 1 /\ z + 1 \in 0 .. XlenBits /\ z + 1 \in 0 .. PmpaddrBits + 1
      /\ PmpaddrBits \in 0 .. XlenBits /\ PmpaddrBits + 1 \in 0 .. XlenBits
      /\ PmpaddrBits + 2 \in 0 .. XlenBits /\ XlenBits \in 0 .. XlenBits
      /\ z + 1 <= PmpaddrBits + 1 /\ PmpaddrBits + 2 <= XlenBits
  BY <1>1, PmpAssumption DEF SpareBits
<1> DEFINE P == 2^PmpaddrBits
           X == 2^XlenBits
           m == 2^(z + 1)
<1>3. P \in Nat /\ P > 0 /\ X \in Nat /\ m \in Nat /\ m > 0
  BY <1>2, PowerPositive
<1>4. m <= 2 * P /\ 4 * P <= X
  <2>1. 2^(PmpaddrBits + 1) = 2 * P
    BY <1>2, PowerLaw
  <2>2. 2^((PmpaddrBits + 1) + 1) = 2 * (2 * P)
    BY <1>2, <2>1, PowerLaw
  <2>3. (PmpaddrBits + 1) + 1 = PmpaddrBits + 2
    BY PmpAssumption
  <2>4. m <= 2^(PmpaddrBits + 1)
    BY <1>2, PowerOrder
  <2>5. 2^(PmpaddrBits + 2) <= X
    BY <1>2, PowerOrder
  <2> QED BY <1>3, <2>1, <2>2, <2>3, <2>4, <2>5
<1>5. a \in Nat /\ a < P
  BY <1>3 DEF Pmpaddr
<1>6. a + 1 < X /\ a < X
  BY <1>3, <1>4, <1>5
<1>7. lo \in Nat /\ lo <= a
  BY <1>2, <1>5, TruncateFacts
<1>8. \A v \in Nat : v < X => XlenMod(v) = v
  <2> SUFFICES ASSUME NEW v \in Nat, v < X PROVE v % X = v
    BY DEF XlenMod
  <2> HIDE DEF X
  <2>1. (0 * X + v) % X = v
    BY <1>3, Remainder
  <2>2. 0 * X + v = v
    BY <1>3
  <2> QED BY <2>1, <2>2
<1>9. XlenMod(a + 1) = a + 1
  BY <1>5, <1>6, <1>8
<1>10. BitXor(a, a + 1) = m - 1
  <2>1. TrailingOnes(a, z)
    BY <1>1, <1>2, <1>5 DEF TrailingOnes
  <2> QED BY <2>1, MaskIsOnes
<1>11. BitAndNot(a, m - 1) = lo
  BY <1>2, <1>5, <1>6, LowIsTruncated
<1> HIDE DEF m, P, X, lo
<1>12. XlenMod((m - 1) + 1) = m /\ XlenMod(lo + m) = lo + m
  <2>1. (m - 1) + 1 = m /\ m < X
    BY <1>3, <1>4
  <2>2. lo + m \in Nat /\ lo + m < X
    BY <1>3, <1>4, <1>5, <1>7
  <2> QED BY <1>3, <1>8, <2>1, <2>2
<1>13. NapotRange[a] = <<lo, lo + m>>
  <2>1. NapotRange[a] = <<BitAndNot(a, BitXor(a, XlenMod(a + 1))),
                          XlenMod(BitAndNot(a, BitXor(a, XlenMod(a + 1)))
                                    + XlenMod(BitXor(a, XlenMod(a + 1)) + 1))>>
    BY DEF NapotRange
  <2> QED BY <1>9, <1>10, <1>11, <1>12, <2>1
<1>14. NapotWords(a) = lo .. lo + m - 1
  BY DEF NapotWords, lo, m, z
<1>15. lo + m \in Nat
  BY <1>3, <1>7
<1>16. NapotRange[a] \in Nat \X Nat
  BY <1>7, <1>13, <1>15
<1>17. NapotRange[a][1] = lo /\ NapotRange[a][2] = lo + m
  BY <1>13
<1>18. NapotRange[a][1] .. NapotRange[a][2] - 1 = NapotWords(a)
  <2>1. (lo + m) - 1 = lo + m - 1
    BY <1>3, <1>7
  <2> QED BY <1>14, <1>17, <2>1, Zenon
<1>19. a + 1 < 2^XlenBits
  BY <1>6 DEF X
<1> QED BY <1>16, <1>18, <1>19

(* With bits to spare the arithmetic of one register is exact. *)
LEMMA RegisterExact ==
  ASSUME SpareBits
  PROVE  RegisterArithmetic
<1>1. 2^XlenBits \in Nat
  BY PmpAssumption, PowerPositive
<1>2. ASSUME NEW a \in Pmpaddr, NEW g \in Grains, g >= 1 PROVE Truncate(a, g) \in Pmpaddr
  <2>1. g \in 0 .. XlenBits
    BY <1>2, PmpAssumption DEF SpareBits
  <2>2. a \in Nat /\ a <= 2^PmpaddrBits - 1 /\ 2^PmpaddrBits \in Nat
    BY PmpAssumption, PowerPositive DEF Pmpaddr
  <2>3. Truncate(a, g) \in Nat /\ Truncate(a, g) <= a
    BY <2>1, <2>2, TruncateFacts
  <2> QED BY <2>2, <2>3 DEF Pmpaddr
<1>3. ASSUME NEW a \in Pmpaddr, NEW g \in Grains, g >= 2 PROVE FillOnes(a, g - 1) \in Pmpaddr
  <2>1. g - 1 \in 0 .. PmpaddrBits
    BY <1>3, PmpAssumption DEF SpareBits
  <2> QED BY <2>1, GrainKeepsAddress
<1> QED BY <1>1, <1>2, <1>3, NapotExact DEF RegisterArithmetic

-----------------------------------------------------------------------------
(* The check. *)

(* The comparisons of pmpMatchAddr are those of sets of words: a match at  *)
(* all is a word in common, a full match is every word.                    *)
LEMMA MatchIsRegion ==
  ASSUME NEW addr \in Nat, NEW width \in Nat \ {0}, NEW lo \in Nat, NEW hi \in Nat
  PROVE  /\ pmpMatchAddr(addr, width, <<lo, hi>>) # "NoMatch"
              <=> (lo .. hi - 1) \cap WordsOf(addr, width) # {}
         /\ pmpMatchAddr(addr, width, <<lo, hi>>) = "Match"
              => WordsOf(addr, width) \subseteq lo .. hi - 1
         /\ WordsOf(addr, width) \subseteq lo .. hi - 1
              => pmpMatchAddr(addr, width, <<lo, hi>>) = "Match"
  <1> DEFINE apart == 4 * hi <= 4 * lo \/ addr + width <= 4 * lo \/ 4 * hi <= addr
             within == 4 * lo <= addr /\ addr + width <= 4 * hi
  <1>1. pmpMatchAddr(addr, width, <<lo, hi>>)
          = IF apart THEN "NoMatch" ELSE IF within THEN "Match" ELSE "PartialMatch"
    BY DEF pmpMatchAddr
  <1>2. \A b \in Nat : b \div 4 \in Nat /\ 4 * (b \div 4) <= b /\ b < 4 * (b \div 4) + 4
    OBVIOUS
  <1>3. ASSUME NEW b \in Bytes(addr, width)
        PROVE  b \in Nat /\ addr <= b /\ b < addr + width /\ b \div 4 \in WordsOf(addr, width)
    BY DEF Bytes, WordsOf
  <1>4. ASSUME NEW w \in WordsOf(addr, width)
        PROVE  \E b \in Bytes(addr, width) : w = b \div 4
    BY DEF WordsOf
  <1>5. addr \in Bytes(addr, width) /\ addr + width - 1 \in Bytes(addr, width)
    BY DEF Bytes
  <1>6. ASSUME ~apart PROVE (lo .. hi - 1) \cap WordsOf(addr, width) # {}
    <2>1. lo < hi /\ 4 * lo < addr + width /\ addr < 4 * hi BY <1>6
    <2>2. CASE 4 * lo <= addr
      <3>1. addr \div 4 \in lo .. hi - 1 BY <1>2, <2>1, <2>2
      <3> QED BY <1>3, <1>5, <3>1
    <2>3. CASE addr < 4 * lo
      <3>1. 4 * lo \in Bytes(addr, width) BY <2>1, <2>3 DEF Bytes
      <3>2. (4 * lo) \div 4 = lo /\ lo \in lo .. hi - 1 BY <2>1
      <3> QED BY <1>3, <3>1, <3>2
    <2> QED BY <2>2, <2>3
  <1>7. ASSUME NEW w \in (lo .. hi - 1) \cap WordsOf(addr, width) PROVE ~apart
    <2>1. PICK b \in Bytes(addr, width) : w = b \div 4 BY <1>4
    <2>2. b \in Nat /\ addr <= b /\ b < addr + width BY <1>3
    <2>3. 4 * w <= b /\ b < 4 * w + 4 BY <1>2, <2>1, <2>2
    <2>4. w \in Int /\ lo <= w /\ w <= hi - 1 OBVIOUS
    <2> QED BY <2>2, <2>3, <2>4
  <1>8. ASSUME within, NEW w \in WordsOf(addr, width) PROVE w \in lo .. hi - 1
    <2>1. PICK b \in Bytes(addr, width) : w = b \div 4 BY <1>4
    <2>2. b \in Nat /\ addr <= b /\ b < addr + width BY <1>3
    <2>3. w \in Nat /\ 4 * w <= b /\ b < 4 * w + 4 BY <1>2, <2>1, <2>2
    <2> QED BY <1>8, <2>2, <2>3
  <1>9. ASSUME WordsOf(addr, width) \subseteq lo .. hi - 1 PROVE within /\ ~apart
    <2>1. addr \div 4 \in lo .. hi - 1 /\ (addr + width - 1) \div 4 \in lo .. hi - 1
      BY <1>3, <1>5, <1>9
    <2>2. addr + width - 1 \in Nat OBVIOUS
    <2> QED BY <1>2, <2>1, <2>2
  <1> HIDE DEF apart, within
  <1> QED BY <1>1, <1>6, <1>7, <1>8, <1>9

(* What is read from an address register is an address again. *)
LEMMA ReadIsAddress ==
  ASSUME RegisterArithmetic, TypeOK, NEW i \in Entries
  PROVE  pmpReadAddrReg(i) \in Pmpaddr
  <1>1. pmpaddr_n[i] \in Pmpaddr /\ sys_pmp_grain \in Grains BY DEF TypeOK
  <1> QED BY <1>1 DEF pmpReadAddrReg, RegisterArithmetic

(* The range of an entry, in each of its modes, is the region it names. *)
LEMMA RangeIsRegion ==
  ASSUME RegisterArithmetic, TypeOK, NEW i \in Entries
  PROVE  \E lo, hi \in Nat : pmpAddrRange(i) = <<lo, hi>> /\ RegionWords(i) = lo .. hi - 1
  <1> DEFINE a == pmpReadAddrReg(i)
  <1>1. a \in Pmpaddr BY ReadIsAddress
  <1>2. Pmpaddr \subseteq Nat BY DEF Pmpaddr
  <1>3. prev_pmpaddr(i) \in Nat
    <2>1. CASE i > 0
      <3>1. i - 1 \in Entries BY <2>1, PmpAssumption DEF Entries
      <3>2. pmpReadAddrReg(i - 1) \in Pmpaddr BY <3>1, ReadIsAddress
      <3> QED BY <1>2, <2>1, <3>2 DEF prev_pmpaddr
    <2>2. CASE ~(i > 0) BY <2>2 DEF prev_pmpaddr
    <2> QED BY <2>1, <2>2
  <1>4. pmpcfg_n[i].A \in Modes BY DEF TypeOK, Cfg
  <1> HIDE DEF a
  <1>5. CASE pmpcfg_n[i].A = "OFF"
    <2>1. pmpAddrRange(i) = <<0, 0>> /\ RegionWords(i) = {}
      BY <1>5 DEF pmpAddrRange, RegionWords
    <2>2. 0 .. 0 - 1 = {} OBVIOUS
    <2> QED BY <2>1, <2>2
  <1>6. CASE pmpcfg_n[i].A = "TOR"
    <2>1. pmpAddrRange(i) = <<prev_pmpaddr(i), a>> /\ RegionWords(i) = prev_pmpaddr(i) .. a - 1
      BY <1>6 DEF pmpAddrRange, RegionWords, a
    <2> QED BY <1>1, <1>2, <1>3, <2>1
  <1>7. CASE pmpcfg_n[i].A = "NA4"
    <2>1. pmpAddrRange(i) = <<a, XlenMod(a + 1)>> /\ RegionWords(i) = {a}
      BY <1>7 DEF pmpAddrRange, RegionWords, a
    <2>2. a \in Nat /\ 2^XlenBits \in Nat /\ a + 1 < 2^XlenBits
      BY <1>1, <1>2 DEF RegisterArithmetic
    <2>3. XlenMod(a + 1) = a + 1 BY <2>2 DEF XlenMod
    <2>4. {a} = a .. (a + 1) - 1 BY <2>2
    <2>5. a + 1 \in Nat BY <2>2
    <2> QED BY <2>1, <2>2, <2>3, <2>4, <2>5
  <1>8. CASE pmpcfg_n[i].A = "NAPOT"
    <2>1. pmpAddrRange(i) = NapotRange[a] /\ RegionWords(i) = NapotWords(a)
      BY <1>8 DEF pmpAddrRange, RegionWords, a
    <2>2. NapotRange[a] \in Nat \X Nat
          /\ NapotRange[a][1] .. NapotRange[a][2] - 1 = NapotWords(a)
      BY <1>1 DEF RegisterArithmetic
    <2>3. PICK lo \in Nat, hi \in Nat : NapotRange[a] = <<lo, hi>> BY <2>2
    <2>4. NapotRange[a][1] = lo /\ NapotRange[a][2] = hi BY <2>3
    <2> QED BY <2>1, <2>2, <2>3, <2>4
  <1> QED BY <1>4, <1>5, <1>6, <1>7, <1>8 DEF Modes

(* pmpCheck decides every access as the regions say: for any number of     *)
(* entries in any modes, with every grain, the first entry that covers a   *)
(* byte of the access decides, and grants it only if it covers all of it.  *)
(* Registers with bits to spare, as on RV64, are the hypothesis; without   *)
(* them (on RV32) the run pmp_napot_rv32 shows the check to be wrong.      *)
THEOREM PmpCheckSpecified ==
  ASSUME SpareBits
  PROVE  Spec => []CheckIsSpecified
  <1>0. RegisterArithmetic
    BY RegisterExact
  <1>1. TypeOK => CheckIsSpecified
    <2> SUFFICES ASSUME TypeOK, NEW x \in Accesses, NEW acc \in AccessTypes,
                        NEW priv \in {"User", "Machine"}
                 PROVE  pmpCheck(x[1], x[2], acc, priv) = Granted(x[1], x[2], acc, priv)
      BY DEF CheckIsSpecified
    <2> DEFINE addr  == x[1]
               width == x[2]
               m == Matching(addr, width)
               t == {i \in Entries : RegionWords(i) \cap WordsOf(addr, width) # {}}
    <2>a. addr \in Addrs /\ width \in Widths BY DEF Accesses
    <2> HIDE DEF addr, width
    <2>1. addr \in Nat /\ width \in Nat \ {0}
      <3>1. addr \in 0 .. 2^XlenBits - 1 BY <2>a, PmpAssumption
      <3>2. 2^XlenBits \in Nat BY <1>0 DEF RegisterArithmetic
      <3>3. width \in Nat \ {0} BY <2>a, PmpAssumption
      <3> QED BY <3>1, <3>2, <3>3
    <2>2. ASSUME NEW i \in Entries
          PROVE  /\ pmpMatchAddr(addr, width, pmpAddrRange(i)) # "NoMatch"
                      <=> RegionWords(i) \cap WordsOf(addr, width) # {}
                 /\ pmpMatchAddr(addr, width, pmpAddrRange(i)) = "Match"
                      <=> WordsOf(addr, width) \subseteq RegionWords(i)
      <3>1. PICK lo \in Nat, hi \in Nat :
              pmpAddrRange(i) = <<lo, hi>> /\ RegionWords(i) = lo .. hi - 1
        BY <1>0, RangeIsRegion
      <3> QED BY <2>1, <3>1, MatchIsRegion
    <2>3. m = t BY <2>2 DEF Matching
    <2>4. m # {} => Min(m) \in Entries
      <3>1. m \subseteq Entries BY DEF Matching
      <3> QED BY <3>1, MinEntry
    <2>5. pmpCheck(addr, width, acc, priv) = Granted(addr, width, acc, priv)
      <3>1. CASE m = {} BY <2>3, <3>1 DEF pmpCheck, Granted
      <3>2. CASE m # {}
        <4> DEFINE k == Min(m)
        <4>1. k \in Entries BY <2>4, <3>2
        <4>2. pmpCheck(addr, width, acc, priv) = EntrySucceeds(k, addr, width, acc, priv)
          BY <3>2 DEF pmpCheck
        <4>3. Granted(addr, width, acc, priv)
                = (/\ WordsOf(addr, width) \subseteq RegionWords(k)
                   /\ pmpCheckPerms(pmpcfg_n[k], acc, priv))
          BY <2>3, <3>2 DEF Granted
        <4> HIDE DEF k
        <4>4. pmpMatchAddr(addr, width, pmpAddrRange(k)) = "Match"
                <=> WordsOf(addr, width) \subseteq RegionWords(k)
          BY <2>2, <4>1
        <4> QED BY <4>2, <4>3, <4>4 DEF EntrySucceeds
      <3> QED BY <3>1, <3>2
    <2> QED BY <2>5 DEF addr, width
  <1> QED BY <1>1, PmpTypeCorrect, PTL
=============================================================================
