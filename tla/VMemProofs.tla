----------------------------- MODULE VMemProofs -----------------------------
(***************************************************************************)
(* Theorems about VMem, for any size of the tables and of the TLB, any     *)
(* number of address spaces and any page tables software may write.        *)
(*                                                                         *)
(* The argument rests on two facts about the walk: setting A and D bits    *)
(* changes no path of a walk, and a TLB entry stays what the walk finds    *)
(* for every translation whose changes have been fenced.                   *)
(***************************************************************************)
EXTENDS VMem, FiniteSetTheorems, TLAPS

(* Division of a product by one of its factors. *)
LEMMA DivMul ==
  ASSUME NEW x \in Nat, NEW y \in Nat, NEW t \in Nat \ {0}
  PROVE  /\ (x * t) \div t = x
         /\ x * t = y * t => x = y
  <1>1. (x * t) \div t = x OBVIOUS
  <1>2. (y * t) \div t = y OBVIOUS
  <1> QED BY <1>1, <1>2

(* A virtual page number has an index for each of the two levels. *)
LEMMA VpnType ==
  ASSUME NEW v \in VPages
  PROVE  v \in Nat /\ vpn_j(v, 1) \in 0 .. TableSize - 1 /\ vpn_j(v, 0) \in 0 .. TableSize - 1
  <1>0. TableSize \in Nat /\ TableSize > 0 BY VMemAssumption
  <1>1. v \in Nat /\ v < TableSize * TableSize BY <1>0 DEF VPages
  <1>2. v % TableSize \in 0 .. TableSize - 1 BY <1>0, <1>1
  <1>3. v \div TableSize \in 0 .. TableSize - 1
    <2> DEFINE q == v \div TableSize
    <2>1. q \in Nat /\ v = q * TableSize + (v % TableSize) BY <1>0, <1>1
    <2>2. q * TableSize <= v BY <1>0, <1>1, <1>2, <2>1
    <2> HIDE DEF q
    <2>3. ASSUME q >= TableSize PROVE FALSE
      <3>1. q * TableSize >= TableSize * TableSize BY <1>0, <2>1, <2>3
      <3> QED BY <1>0, <1>1, <2>1, <2>2, <3>1
    <2>4. q \in 0 .. TableSize - 1 BY <1>0, <2>1, <2>3
    <2> QED BY <2>4 DEF q
  <1> QED BY <1>1, <1>2, <1>3 DEF vpn_j

(* Masking the low bits of a superpage's number twice is masking it once.  *)
LEMMA AlignedType ==
  ASSUME NEW n \in Nat, NEW level \in 0 .. 1
  PROVE  /\ Aligned(n, level) \in Nat
         /\ Aligned(Aligned(n, level), level) = Aligned(n, level)
  <1>0. TableSize \in Nat \ {0} BY VMemAssumption
  <1>1. n \div TableSize \in Nat BY <1>0
  <1>2. (n \div TableSize) * TableSize \in Nat BY <1>0, <1>1
  <1>3. ((n \div TableSize) * TableSize) \div TableSize = n \div TableSize
    BY <1>0, <1>1, DivMul
  <1> QED BY <1>2, <1>3 DEF Aligned
-----------------------------------------------------------------------------
(* The walk. *)

Memory == [Slots -> Pte]

LeafAt(m, s, level, g) ==
  [tag |-> "Leaf", slot |-> s, pte |-> m[s], level |-> level, global |-> g]

(* Two PTEs that differ in A and D at most, which are set in q where they  *)
(* are set in p.                                                           *)
SameButAD(p, q) ==
  /\ p.V = q.V /\ p.R = q.R /\ p.W = q.W /\ p.X = q.X /\ p.U = q.U /\ p.G = q.G
  /\ p.ppn = q.ppn
  /\ p.A <= q.A /\ p.D <= q.D

Grown(m, n) == \A s \in Slots : SameButAD(m[s], n[s])

(* A walk fails or ends at a leaf, and it ends at the same slot whatever   *)
(* A and D bits have been set in the meantime.                             *)
LEMMA LeafGrown ==
  ASSUME NEW m \in Memory, NEW n \in Memory, Grown(m, n), NEW a \in Asids, NEW v \in VPages
  PROVE  \/ \E e \in {"PTW_Invalid_PTE", "PTW_Access"} :
              Leaf(m, a, v) = PtwFailure(e) /\ Leaf(n, a, v) = PtwFailure(e)
         \/ \E s \in Slots, level \in 0 .. 1, g \in BOOLEAN :
              /\ Leaf(m, a, v) = LeafAt(m, s, level, g)
              /\ Leaf(n, a, v) = LeafAt(n, s, level, g)
              /\ ~pte_is_invalid(m[s]) /\ ~pte_is_ptr(m[s])
  <1> DEFINE s1 == <<RootOf[a], vpn_j(v, 1)>>
             p1 == m[s1]
             q1 == n[s1]
             s0 == <<p1.ppn, vpn_j(v, 0)>>
             p0 == m[s0]
             q0 == n[s0]
             Fail == \E e \in {"PTW_Invalid_PTE", "PTW_Access"} :
                       Leaf(m, a, v) = PtwFailure(e) /\ Leaf(n, a, v) = PtwFailure(e)
             Ends == \E s \in Slots, level \in 0 .. 1, g \in BOOLEAN :
                       /\ Leaf(m, a, v) = LeafAt(m, s, level, g)
                       /\ Leaf(n, a, v) = LeafAt(n, s, level, g)
                       /\ ~pte_is_invalid(m[s]) /\ ~pte_is_ptr(m[s])
  <1>1. s1 \in Slots
    BY VMemAssumption, VpnType DEF Slots
  <1>2. SameButAD(p1, q1) /\ p1.ppn = q1.ppn /\ p1.G = q1.G
    BY <1>1 DEF Grown, SameButAD
  <1>3. (pte_is_invalid(p1) <=> pte_is_invalid(q1)) /\ (pte_is_ptr(p1) <=> pte_is_ptr(q1))
    BY <1>2 DEF SameButAD, pte_is_invalid, pte_is_ptr
  <1>4. Leaf(n, a, v) =
          IF pte_is_invalid(q1) THEN PtwFailure("PTW_Invalid_PTE")
          ELSE IF ~pte_is_ptr(q1) THEN LeafAt(n, s1, 1, q1.G = 1)
          ELSE IF p1.ppn \notin Tables THEN PtwFailure("PTW_Access")
          ELSE IF pte_is_invalid(q0) \/ pte_is_ptr(q0) THEN PtwFailure("PTW_Invalid_PTE")
          ELSE LeafAt(n, s0, 0, q1.G = 1 \/ q0.G = 1)
    BY <1>2 DEF Leaf, LeafAt
  <1>5. Leaf(m, a, v) =
          IF pte_is_invalid(p1) THEN PtwFailure("PTW_Invalid_PTE")
          ELSE IF ~pte_is_ptr(p1) THEN LeafAt(m, s1, 1, p1.G = 1)
          ELSE IF p1.ppn \notin Tables THEN PtwFailure("PTW_Access")
          ELSE IF pte_is_invalid(p0) \/ pte_is_ptr(p0) THEN PtwFailure("PTW_Invalid_PTE")
          ELSE LeafAt(m, s0, 0, p1.G = 1 \/ p0.G = 1)
    BY DEF Leaf, LeafAt
  <1>6. CASE pte_is_invalid(p1)
    <2>1. Leaf(m, a, v) = PtwFailure("PTW_Invalid_PTE") BY <1>5, <1>6
    <2>2. Leaf(n, a, v) = PtwFailure("PTW_Invalid_PTE") BY <1>3, <1>4, <1>6
    <2> QED BY <2>1, <2>2
  <1>7. CASE ~pte_is_invalid(p1) /\ ~pte_is_ptr(p1)
    <2> DEFINE g == p1.G = 1
    <2>1. Leaf(m, a, v) = LeafAt(m, s1, 1, g) BY <1>5, <1>7
    <2>2. Leaf(n, a, v) = LeafAt(n, s1, 1, g) BY <1>2, <1>3, <1>4, <1>7
    <2>3. g \in BOOLEAN /\ 1 \in 0 .. 1 OBVIOUS
    <2> HIDE DEF g, s1
    <2>4. Ends BY <1>1, <1>7, <2>1, <2>2, <2>3
    <2> QED BY <2>4
  <1>8. CASE ~pte_is_invalid(p1) /\ pte_is_ptr(p1) /\ p1.ppn \notin Tables
    <2>1. Leaf(m, a, v) = PtwFailure("PTW_Access") BY <1>5, <1>8
    <2>2. Leaf(n, a, v) = PtwFailure("PTW_Access") BY <1>3, <1>4, <1>8
    <2> QED BY <2>1, <2>2
  <1>9. CASE ~pte_is_invalid(p1) /\ pte_is_ptr(p1) /\ p1.ppn \in Tables
    <2>1. s0 \in Slots BY <1>9, VpnType DEF Slots
    <2>2. SameButAD(p0, q0) /\ p0.G = q0.G BY <2>1 DEF Grown, SameButAD
    <2>3. (pte_is_invalid(p0) <=> pte_is_invalid(q0)) /\ (pte_is_ptr(p0) <=> pte_is_ptr(q0))
      BY <2>2 DEF SameButAD, pte_is_invalid, pte_is_ptr
    <2>4. CASE pte_is_invalid(p0) \/ pte_is_ptr(p0)
      <3>1. Leaf(m, a, v) = PtwFailure("PTW_Invalid_PTE") BY <1>5, <1>9, <2>4
      <3>2. Leaf(n, a, v) = PtwFailure("PTW_Invalid_PTE") BY <1>3, <1>4, <1>9, <2>3, <2>4
      <3> QED BY <3>1, <3>2
    <2>5. CASE ~(pte_is_invalid(p0) \/ pte_is_ptr(p0))
      <3> DEFINE g == p1.G = 1 \/ p0.G = 1
      <3>1. Leaf(m, a, v) = LeafAt(m, s0, 0, g) BY <1>5, <1>9, <2>5
      <3>2. Leaf(n, a, v) = LeafAt(n, s0, 0, g) BY <1>2, <1>3, <1>4, <1>9, <2>2, <2>3, <2>5
      <3>3. g \in BOOLEAN /\ 0 \in 0 .. 1 OBVIOUS
      <3> HIDE DEF g, s0
      <3>4. Ends BY <2>1, <2>5, <3>1, <3>2, <3>3
      <3> QED BY <3>4
    <2> QED BY <2>4, <2>5
  <1> QED BY <1>6, <1>7, <1>8, <1>9

(* PTEs are the same as themselves. *)
LEMMA GrownRefl ==
  ASSUME NEW m \in Memory
  PROVE  Grown(m, m)
  BY DEF Grown, SameButAD, Memory, Pte, Bit

(* What a walk gives: a failure, or a valid leaf at one of the slots. *)
LEMMA LeafShape ==
  ASSUME NEW m \in Memory, NEW a \in Asids, NEW v \in VPages
  PROVE  LET l == Leaf(m, a, v)
         IN  /\ l.tag # "Leaf" => l \in {PtwFailure("PTW_Invalid_PTE"), PtwFailure("PTW_Access")}
             /\ l.tag = "Leaf" => /\ l.slot \in Slots /\ l.level \in 0 .. 1 /\ l.global \in BOOLEAN
                                  /\ l = LeafAt(m, l.slot, l.level, l.global)
                                  /\ l.pte = m[l.slot] /\ l.pte \in Pte
                                  /\ ~pte_is_invalid(l.pte) /\ ~pte_is_ptr(l.pte)
  <1> DEFINE l == Leaf(m, a, v)
  <1>1. \/ l \in {PtwFailure("PTW_Invalid_PTE"), PtwFailure("PTW_Access")}
        \/ \E s \in Slots, level \in 0 .. 1, g \in BOOLEAN :
             l = LeafAt(m, s, level, g) /\ ~pte_is_invalid(m[s]) /\ ~pte_is_ptr(m[s])
    BY GrownRefl, LeafGrown
  <1> HIDE DEF l
  <1>2. CASE l \in {PtwFailure("PTW_Invalid_PTE"), PtwFailure("PTW_Access")}
    <2>1. l.tag # "Leaf" BY <1>2 DEF PtwFailure
    <2> QED BY <1>2, <2>1 DEF l
  <1>3. CASE \E s \in Slots, level \in 0 .. 1, g \in BOOLEAN :
               l = LeafAt(m, s, level, g) /\ ~pte_is_invalid(m[s]) /\ ~pte_is_ptr(m[s])
    <2>1. PICK s \in Slots, level \in 0 .. 1, g \in BOOLEAN :
            l = LeafAt(m, s, level, g) /\ ~pte_is_invalid(m[s]) /\ ~pte_is_ptr(m[s])
      BY <1>3
    <2>2. l.tag = "Leaf" /\ l.slot = s /\ l.level = level /\ l.pte = m[s] BY <2>1 DEF LeafAt
    <2>3. l.global = g BY <2>1, Zenon DEF LeafAt
    <2>4. l = LeafAt(m, l.slot, l.level, l.global) BY <2>1, <2>2, <2>3, Zenon
    <2>5. m[s] \in Pte BY DEF Memory
    <2> QED BY <2>1, <2>2, <2>3, <2>4, <2>5 DEF l
  <1> QED BY <1>1, <1>2, <1>3

(* A superpage is found for all the pages it covers. *)
LEMMA SuperpageLeaf ==
  ASSUME NEW m \in Memory, NEW a \in Asids, NEW v \in VPages, NEW x \in VPages,
         Leaf(m, a, v).tag = "Leaf",
         Aligned(v, Leaf(m, a, v).level) = Aligned(x, Leaf(m, a, v).level)
  PROVE  Leaf(m, a, x) = Leaf(m, a, v)
  <1> DEFINE l == Leaf(m, a, v)
  <1>0. v \in Nat /\ x \in Nat /\ TableSize \in Nat \ {0} BY VMemAssumption, VpnType
  <1>1. CASE l.level = 1
    <2>1. (v \div TableSize) * TableSize = (x \div TableSize) * TableSize BY <1>1 DEF Aligned
    <2>2. v \div TableSize \in Nat /\ x \div TableSize \in Nat BY <1>0
    <2>3. v \div TableSize = x \div TableSize BY <1>0, <2>1, <2>2, DivMul
    <2>4. vpn_j(v, 1) = vpn_j(x, 1) BY <2>3 DEF vpn_j
    <2> DEFINE p1 == m[<<RootOf[a], vpn_j(v, 1)>>]
    <2>5. ~pte_is_invalid(p1) /\ ~pte_is_ptr(p1)
      BY <1>1 DEF Leaf, PtwFailure
    <2> QED BY <2>4, <2>5 DEF Leaf
  <1>2. CASE l.level # 1
    <2>1. v = x BY <1>2 DEF Aligned
    <2> QED BY <2>1
  <1> QED BY <1>1, <1>2
-----------------------------------------------------------------------------
(* The inductive invariant.                                                *)

TlbEntry == [asid : Asids, global : BOOLEAN, vpn : Nat, level : 0 .. 1, ppn : Nat,
             pte : Pte, slot : Slots]

(* What is true of every entry by the way entries are made. *)
EntryOK(e) ==
  /\ e \in TlbEntry
  /\ e.pte.V = 1 /\ e.pte.A = 1 /\ ~pte_is_ptr(e.pte)
  /\ e.vpn = Aligned(e.vpn, e.level)
  /\ e.ppn = e.pte.ppn
  /\ e.ppn = Aligned(e.ppn, e.level)

(* A change of <<a, v>> that is not yet fenced spares entry e only if it   *)
(* is local and e is global.                                               *)
Relied(e, a, v) == \A k \in Kinds : <<a, v, k>> \in unfenced => e.global /\ k = "local"

(* Entry e is what a walk of m for page v of space a finds, but for A and  *)
(* D bits that were set in memory since; without hardware update of these  *)
(* bits, or in a table that cannot be written, it is exactly that.         *)
Accurate(m, e, a, v) ==
  LET l == Leaf(m, a, v)
  IN  /\ l.tag = "Leaf"
      /\ l.slot = e.slot /\ l.level = e.level
      /\ l.global <=> e.global
      /\ SameButAD(e.pte, l.pte)
      /\ (plat_enable_dirty_update /\ PteWritable(e.slot)) \/ l.pte = e.pte

MemoryOK ==
  /\ ptes \in Memory
  /\ asid \in Asids
  /\ internal_error \in BOOLEAN
  /\ unfenced \subseteq Asids \X VPages \X Kinds
  /\ written \subseteq Slots

TlbOK ==
  /\ tlb \in [0 .. NTlb - 1 -> SUBSET TlbEntry]
  /\ \A i \in 0 .. NTlb - 1 : \A e \in tlb[i] : EntryOK(e) /\ tlb[i] = {e}

TlbSound ==
  \A i \in 0 .. NTlb - 1 : \A e \in tlb[i] : \A a \in Asids, v \in VPages :
    match_TLB_Entry(e, a, v) /\ Relied(e, a, v) => Accurate(ptes, e, a, v)

VInv ==
  /\ MemoryOK
  /\ TlbOK
  /\ GlobalsAgree(ptes)
  /\ DirtyRecorded
  /\ ~internal_error => TlbSound
-----------------------------------------------------------------------------
(* Setting A and D bits. *)

(* Setting A and D bits twice is setting A and D bits. *)
LEMMA SameTrans ==
  ASSUME NEW p \in Pte, NEW q \in Pte, NEW r \in Pte, SameButAD(p, q), SameButAD(q, r)
  PROVE  SameButAD(p, r)
  BY DEF SameButAD, Pte, Bit

(* A PTE written back with A or D set grows the memory. *)
LEMMA GrownBy ==
  ASSUME NEW m \in Memory, NEW s \in Slots, NEW p \in Pte, SameButAD(m[s], p)
  PROVE  [m EXCEPT ![s] = p] \in Memory /\ Grown(m, [m EXCEPT ![s] = p])
  <1>1. [m EXCEPT ![s] = p] \in Memory BY DEF Memory
  <1>2. ASSUME NEW t \in Slots PROVE SameButAD(m[t], [m EXCEPT ![s] = p][t])
    <2>1. CASE t = s BY <2>1 DEF Memory
    <2>2. CASE t # s
      <3>1. [m EXCEPT ![s] = p][t] = m[t] BY <2>2 DEF Memory
      <3>2. SameButAD(m[t], m[t]) BY GrownRefl DEF Grown
      <3> QED BY <3>1, <3>2
    <2> QED BY <2>1, <2>2
  <1> QED BY <1>1, <1>2 DEF Grown

(* Global translations keep agreeing when bits are set. *)
LEMMA GlobalsGrown ==
  ASSUME NEW m \in Memory, NEW n \in Memory, Grown(m, n), GlobalsAgree(m)
  PROVE  GlobalsAgree(n)
  <1> SUFFICES ASSUME NEW v \in VPages, NEW a \in Asids, NEW b \in Asids, IsGlobal(Leaf(n, a, v))
               PROVE  Leaf(n, a, v) = Leaf(n, b, v)
    BY DEF GlobalsAgree
  <1> DEFINE la == Leaf(m, a, v)
             lb == Leaf(m, b, v)
  <1>1. Leaf(n, a, v).tag = "Leaf" /\ Leaf(n, a, v).global BY DEF IsGlobal
  <1>2. PICK s \in Slots, level \in 0 .. 1, g \in BOOLEAN :
          la = LeafAt(m, s, level, g) /\ Leaf(n, a, v) = LeafAt(n, s, level, g)
    BY <1>1, LeafGrown DEF PtwFailure
  <1>3. g BY <1>1, <1>2 DEF LeafAt
  <1>4. la.tag = "Leaf" /\ la.global BY <1>2, <1>3 DEF LeafAt
  <1>5. lb = la BY <1>4 DEF GlobalsAgree, IsGlobal
  <1>6. PICK s2 \in Slots, level2 \in 0 .. 1, g2 \in BOOLEAN :
          lb = LeafAt(m, s2, level2, g2) /\ Leaf(n, b, v) = LeafAt(n, s2, level2, g2)
    BY <1>4, <1>5, LeafGrown DEF PtwFailure
  <1>7. lb.slot = s2 /\ lb.level = level2 /\ la.slot = s /\ la.level = level
    BY <1>2, <1>6 DEF LeafAt
  <1>8. la.global = g /\ lb.global = g2
    <2>1. LeafAt(m, s, level, g).global = g BY Zenon DEF LeafAt
    <2>2. LeafAt(m, s2, level2, g2).global = g2 BY Zenon DEF LeafAt
    <2> QED BY <1>2, <1>6, <2>1, <2>2, Zenon
  <1>9. s = s2 /\ level = level2 /\ g = g2 BY <1>5, <1>7, <1>8, Zenon
  <1> QED BY <1>2, <1>6, <1>9, Zenon

(* An accurate entry stays accurate when bits are set. *)
LEMMA AccurateGrown ==
  ASSUME NEW m \in Memory, NEW n \in Memory, Grown(m, n),
         NEW e \in TlbEntry, NEW a \in Asids, NEW v \in VPages,
         Accurate(m, e, a, v),
         \A t \in Slots : (plat_enable_dirty_update /\ PteWritable(t)) \/ n[t] = m[t]
  PROVE  Accurate(n, e, a, v)
  <1> DEFINE l == Leaf(m, a, v)
  <1>1. l.tag = "Leaf" /\ l.slot = e.slot /\ l.level = e.level /\ (l.global <=> e.global)
        /\ SameButAD(e.pte, l.pte)
        /\ ((plat_enable_dirty_update /\ PteWritable(e.slot)) \/ l.pte = e.pte)
    BY DEF Accurate
  <1>2. PICK s \in Slots, level \in 0 .. 1, g \in BOOLEAN :
          l = LeafAt(m, s, level, g) /\ Leaf(n, a, v) = LeafAt(n, s, level, g)
    BY <1>1, LeafGrown DEF PtwFailure
  <1> DEFINE k == Leaf(n, a, v)
  <1>3. /\ k.tag = "Leaf" /\ k.slot = l.slot /\ k.level = l.level /\ k.pte = n[s] /\ l.pte = m[s]
        /\ l.slot = s
    BY <1>2 DEF LeafAt
  <1>4. k.global = g /\ l.global = g
    <2>1. LeafAt(m, s, level, g).global = g BY Zenon DEF LeafAt
    <2>2. LeafAt(n, s, level, g).global = g BY Zenon DEF LeafAt
    <2> QED BY <1>2, <2>1, <2>2, Zenon
  <1>5. m[s] \in Pte /\ n[s] \in Pte /\ e.pte \in Pte BY DEF Memory, TlbEntry
  <1>6. SameButAD(m[s], n[s]) BY DEF Grown
  <1>7. SameButAD(e.pte, k.pte) BY <1>1, <1>3, <1>5, <1>6, SameTrans
  <1>8. k.global <=> e.global BY <1>1, <1>4
  <1>9. (plat_enable_dirty_update /\ PteWritable(e.slot)) \/ k.pte = e.pte BY <1>1, <1>3
  <1> HIDE DEF l, k
  <1>10. k.tag = "Leaf" /\ k.slot = e.slot /\ k.level = e.level BY <1>1, <1>3
  <1> QED BY <1>7, <1>8, <1>9, <1>10 DEF Accurate, k

(* Every page and address space that a leaf's entry matches ends its walk  *)
(* at that leaf.                                                           *)
LEMMA MatchSameLeaf ==
  ASSUME NEW m \in Memory, GlobalsAgree(m), NEW a \in Asids, NEW v \in VPages,
         NEW b \in Asids, NEW x \in VPages, NEW e \in TlbEntry,
         Leaf(m, a, v).tag = "Leaf",
         e.level = Leaf(m, a, v).level, e.global <=> Leaf(m, a, v).global,
         e.global \/ e.asid = a, e.vpn = Aligned(v, e.level),
         match_TLB_Entry(e, b, x)
  PROVE  Leaf(m, b, x) = Leaf(m, a, v)
  <1>1. e.vpn = Aligned(x, e.level) /\ (e.global \/ e.asid = b) BY DEF match_TLB_Entry
  <1>2. Leaf(m, a, x) = Leaf(m, a, v)
    <2>1. Aligned(v, Leaf(m, a, v).level) = Aligned(x, Leaf(m, a, v).level) BY <1>1, Zenon
    <2> QED BY <2>1, SuperpageLeaf
  <1>3. CASE e.global
    <2>1. IsGlobal(Leaf(m, a, x)) BY <1>2, <1>3 DEF IsGlobal
    <2> QED BY <1>2, <2>1 DEF GlobalsAgree
  <1>4. CASE ~e.global BY <1>1, <1>2, <1>4
  <1> QED BY <1>3, <1>4
(* An entry with the leaf's new PTE is accurate where the leaf was found.  *)
LEMMA AccurateNew ==
  ASSUME NEW m \in Memory, NEW n \in Memory, Grown(m, n),
         NEW e \in TlbEntry, NEW a \in Asids, NEW v \in VPages,
         Leaf(m, a, v).tag = "Leaf", e.slot = Leaf(m, a, v).slot,
         e.level = Leaf(m, a, v).level, e.global <=> Leaf(m, a, v).global,
         n[e.slot] = e.pte
  PROVE  Accurate(n, e, a, v)
  <1> DEFINE l == Leaf(m, a, v)
             k == Leaf(n, a, v)
  <1>1. PICK s \in Slots, level \in 0 .. 1, g \in BOOLEAN :
          l = LeafAt(m, s, level, g) /\ k = LeafAt(n, s, level, g)
    BY LeafGrown DEF PtwFailure
  <1>2. s = l.slot /\ k.tag = "Leaf" /\ k.slot = s /\ k.level = l.level /\ k.pte = n[s]
    BY <1>1 DEF LeafAt
  <1>3. k.global = l.global
    <2>1. LeafAt(m, s, level, g).global = g BY Zenon DEF LeafAt
    <2>2. LeafAt(n, s, level, g).global = g BY Zenon DEF LeafAt
    <2> QED BY <1>1, <2>1, <2>2, Zenon
  <1>4. e.pte \in Pte BY DEF TlbEntry
  <1>5. SameButAD(e.pte, e.pte) BY <1>4 DEF SameButAD, Pte, Bit
  <1>6. k.tag = "Leaf" /\ k.slot = e.slot /\ k.level = e.level /\ k.pte = e.pte BY <1>2
  <1>7. k.global <=> e.global BY <1>3
  <1> HIDE DEF k
  <1> QED BY <1>5, <1>6, <1>7 DEF Accurate, k
-----------------------------------------------------------------------------
(* The steps of a translation. *)

(* The hash of a virtual page is an index of the TLB. *)
LEMMA HashType ==
  ASSUME NEW v \in VPages
  PROVE  tlb_hash(v) \in 0 .. NTlb - 1
  <1>1. v \in Nat /\ NTlb \in Nat \ {0} BY VMemAssumption, VpnType
  <1> QED BY <1>1 DEF tlb_hash

(* A translation that succeeds leaves an entry e, for the leaf l that the  *)
(* walk finds, whose PTE is the leaf's with A and perhaps D set, in the    *)
(* TLB and in memory.                                                      *)
LEMMA Installs ==
  ASSUME VInv, ~internal_error, NEW v \in VPages, NEW e, EntryOK(e),
         Leaf(ptes, asid, v).tag = "Leaf",
         e.slot = Leaf(ptes, asid, v).slot, e.level = Leaf(ptes, asid, v).level,
         e.global <=> Leaf(ptes, asid, v).global,
         e.global \/ e.asid = asid, e.vpn = Aligned(v, e.level),
         SameButAD(Leaf(ptes, asid, v).pte, e.pte),
         (plat_enable_dirty_update /\ PteWritable(e.slot)) \/ e.pte = Leaf(ptes, asid, v).pte,
         tlb' = [tlb EXCEPT ![tlb_hash(v)] = {e}],
         ptes' = [ptes EXCEPT ![e.slot] = e.pte],
         internal_error' = FALSE, asid' = asid, unfenced' = unfenced,
         written' = written \/ (written' = written \cup {e.slot} /\ e.pte.D = 1)
  PROVE  VInv'
  <1> DEFINE l == Leaf(ptes, asid, v)
             h == tlb_hash(v)
  <1>1. ptes \in Memory /\ asid \in Asids /\ GlobalsAgree(ptes) /\ TlbSound
        /\ tlb \in [0 .. NTlb - 1 -> SUBSET TlbEntry]
    BY DEF VInv, MemoryOK, TlbOK
  <1>2. l.slot \in Slots /\ l.pte = ptes[l.slot] BY <1>1, LeafShape
  <1>3. e \in TlbEntry /\ e.pte \in Pte /\ e.slot \in Slots /\ e.pte.A = 1
    BY DEF EntryOK, TlbEntry
  <1>4. ptes' \in Memory /\ Grown(ptes, ptes') BY <1>1, <1>2, <1>3, GrownBy
  <1>5. ASSUME NEW t \in Slots
        PROVE  (plat_enable_dirty_update /\ PteWritable(t)) \/ ptes'[t] = ptes[t]
    BY <1>1, <1>2 DEF Memory
  <1>6. h \in 0 .. NTlb - 1 BY HashType
  <1>7. MemoryOK'
    <2>1. written' \subseteq Slots BY <1>3 DEF VInv, MemoryOK
    <2> QED BY <1>4, <2>1 DEF VInv, MemoryOK
  <1>8. TlbOK'
    <2>1. tlb' \in [0 .. NTlb - 1 -> SUBSET TlbEntry] BY <1>1, <1>3, <1>6
    <2>2. ASSUME NEW i \in 0 .. NTlb - 1, NEW f \in tlb'[i] PROVE EntryOK(f) /\ tlb'[i] = {f}
      <3>1. CASE i = h BY <1>1, <1>6, <2>2, <3>1
      <3>2. CASE i # h
        <4>1. tlb'[i] = tlb[i] BY <1>1, <1>6, <3>2
        <4> QED BY <2>2, <4>1 DEF VInv, TlbOK
      <3> QED BY <3>1, <3>2
    <2> QED BY <2>1, <2>2 DEF TlbOK
  <1>9. GlobalsAgree(ptes') BY <1>1, <1>4, GlobalsGrown
  <1>10. DirtyRecorded'
    <2> SUFFICES ASSUME NEW s \in written' PROVE ptes'[s].D = 1 /\ ptes'[s].A = 1
      BY DEF DirtyRecorded
    <2>1. CASE s \in written
      <3>1. s \in Slots /\ ptes[s].D = 1 /\ ptes[s].A = 1
        BY <2>1 DEF VInv, DirtyRecorded, MemoryOK
      <3>2. SameButAD(ptes[s], ptes'[s]) BY <1>4, <3>1 DEF Grown
      <3>3. ptes'[s] \in Pte BY <1>4, <3>1 DEF Memory
      <3>4. ptes'[s].A \in Bit /\ ptes'[s].D \in Bit BY <3>3 DEF Pte
      <3>5. 1 <= ptes'[s].A /\ 1 <= ptes'[s].D BY <3>1, <3>2 DEF SameButAD
      <3> QED BY <3>4, <3>5 DEF Bit
    <2>2. CASE s \notin written
      <3>1. s = e.slot /\ e.pte.D = 1 BY <2>2
      <3>2. ptes'[s] = e.pte BY <1>1, <1>3, <3>1 DEF Memory
      <3> QED BY <1>3, <3>1, <3>2
    <2> QED BY <2>1, <2>2
  <1>11. TlbSound'
    <2> SUFFICES ASSUME NEW i \in 0 .. NTlb - 1, NEW f \in tlb'[i], NEW a \in Asids,
                        NEW x \in VPages, match_TLB_Entry(f, a, x), Relied(f, a, x)'
                 PROVE  Accurate(ptes', f, a, x)
      BY DEF TlbSound
    <2>1. Relied(f, a, x) BY DEF Relied
    <2>2. CASE i # h
      <3>1. f \in tlb[i] BY <1>1, <1>6, <2>2
      <3>2. f \in TlbEntry BY <1>1, <3>1
      <3>3. Accurate(ptes, f, a, x) BY <1>1, <2>1, <3>1 DEF TlbSound
      <3> QED BY <1>1, <1>4, <1>5, <3>2, <3>3, AccurateGrown
    <2>3. CASE i = h
      <3>1. f = e BY <1>1, <1>6, <2>3
      <3>2. Leaf(ptes, a, x) = l BY <1>1, <1>3, <3>1, MatchSameLeaf
      <3>3. ptes'[e.slot] = e.pte BY <1>1, <1>3 DEF Memory
      <3> QED BY <1>1, <1>3, <1>4, <3>1, <3>2, <3>3, AccurateNew
    <2> QED BY <2>2, <2>3
  <1> QED BY <1>7, <1>8, <1>9, <1>10, <1>11 DEF VInv

(* What update_PTE_Bits changes. *)
LEMMA UpdateBits ==
  ASSUME NEW p \in Pte, NEW c
  PROVE  LET q == update_PTE_Bits(p, c)
         IN  /\ q \in Pte /\ SameButAD(p, q) /\ q.A = 1 /\ (Writes(c) => q.D = 1)
             /\ q.V = p.V /\ q.ppn = p.ppn /\ (pte_is_ptr(q) <=> pte_is_ptr(p))
             /\ \A o \in Pte : SameButAD(p, o) /\ Writes(c) => SameButAD(o, q)
  <1> DEFINE q == update_PTE_Bits(p, c)
  <1>1. q = [p EXCEPT !.A = 1, !.D = IF Writes(c) THEN 1 ELSE p.D] BY DEF update_PTE_Bits, Pte
  <1>2. PICK d \in Bit : d = (IF Writes(c) THEN 1 ELSE p.D) BY DEF Pte, Bit
  <1>3. q = [p EXCEPT !.A = 1, !.D = d] BY <1>1, <1>2
  <1> HIDE DEF q
  <1>0. 1 \in Bit BY DEF Bit
  <1>4. q \in Pte BY <1>0, <1>3 DEF Pte
  <1>5. /\ q.V = p.V /\ q.R = p.R /\ q.W = p.W /\ q.X = p.X /\ q.U = p.U /\ q.G = p.G
        /\ q.ppn = p.ppn /\ q.A = 1 /\ q.D = d
    BY <1>3 DEF Pte
  <1>6. SameButAD(p, q)
    <2>1. p.A \in 0 .. 1 /\ p.D \in 0 .. 1 BY DEF Pte, Bit
    <2>2. p.A <= q.A /\ p.D <= q.D BY <1>2, <1>5, <2>1
    <2> QED BY <1>5, <2>2 DEF SameButAD
  <1>7. pte_is_ptr(q) <=> pte_is_ptr(p) BY <1>5 DEF pte_is_ptr
  <1>8. ASSUME NEW o \in Pte, SameButAD(p, o), Writes(c) PROVE SameButAD(o, q)
    <2>1. o.A \in 0 .. 1 /\ o.D \in 0 .. 1 BY DEF Pte, Bit
    <2>2. o.A <= q.A /\ o.D <= q.D BY <1>2, <1>5, <1>8, <2>1
    <2> QED BY <1>5, <1>8, <2>2 DEF SameButAD
  <1>9. Writes(c) => q.D = 1 BY <1>2, <1>5
  <1> QED BY <1>4, <1>5, <1>6, <1>7, <1>8, <1>9 DEF q

(* A translation that fails changes nothing. *)
LEMMA Failing ==
  ASSUME VInv, ~internal_error, UNCHANGED <<ptes, tlb, asid, unfenced, written>>,
         internal_error' = FALSE
  PROVE  VInv'
  BY DEF VInv, MemoryOK, TlbOK, TlbSound, DirtyRecorded, Relied

(* The entry that answers a fenced translation is accurate. *)
LEMMA HitAccurate ==
  ASSUME VInv, ~internal_error, NEW v \in VPages, MayUse(v), NEW e \in lookup_TLB(asid, v)
  PROVE  /\ EntryOK(e) /\ e \in tlb[tlb_hash(v)] /\ match_TLB_Entry(e, asid, v)
         /\ Accurate(ptes, e, asid, v)
  <1>1. asid \in Asids /\ TlbSound BY DEF VInv, MemoryOK
  <1>2. tlb_hash(v) \in 0 .. NTlb - 1 BY HashType
  <1>3. e \in tlb[tlb_hash(v)] /\ match_TLB_Entry(e, asid, v) BY DEF lookup_TLB
  <1>4. EntryOK(e) BY <1>2, <1>3 DEF VInv, TlbOK
  <1>5. Relied(e, asid, v) BY DEF Relied, MayUse
  <1> QED BY <1>1, <1>2, <1>3, <1>4, <1>5 DEF TlbSound

(* A hit. *)
LEMMA HitStep ==
  ASSUME VInv, NEW v \in VPages, NEW c \in Contexts, translateAddr(v, c),
         NEW e \in lookup_TLB(asid, v), translate(v, c) = translate_TLB_hit(e, v, c)
  PROVE  VInv'
  <1> DEFINE r == translate_TLB_hit(e, v, c)
             l == Leaf(ptes, asid, v)
             p == update_PTE_Bits(e.pte, c)
             f == [e EXCEPT !.pte = p]
             h == tlb_hash(v)
  <1>1. /\ ~internal_error /\ MayUse(v) /\ asid' = asid /\ unfenced' = unfenced
        /\ tlb' = r.tlb /\ ptes' = r.ptes
        /\ (r.tag # "internal_error" => internal_error' = FALSE)
        /\ (r.tag = "internal_error" => internal_error' = TRUE)
        /\ written' = IF r.tag = "TR_Address" /\ Writes(c) THEN written \cup {l.slot} ELSE written
    BY Zenon DEF translateAddr
  <1>2. /\ EntryOK(e) /\ e \in tlb[h] /\ match_TLB_Entry(e, asid, v)
        /\ Accurate(ptes, e, asid, v)
    BY <1>1, HitAccurate
  <1>3. ptes \in Memory /\ asid \in Asids /\ tlb \in [0 .. NTlb - 1 -> SUBSET TlbEntry]
    BY DEF VInv, MemoryOK, TlbOK
  <1>4. /\ l.tag = "Leaf" /\ l.slot = e.slot /\ l.level = e.level /\ (l.global <=> e.global)
        /\ SameButAD(e.pte, l.pte)
    BY <1>2 DEF Accurate
  <1>5. l.slot \in Slots /\ l.pte = ptes[l.slot] /\ l.pte \in Pte BY <1>3, <1>4, LeafShape
  <1>6. e \in TlbEntry /\ e.pte \in Pte /\ e.pte.A = 1 /\ e.pte.D \in Bit
    BY <1>2 DEF EntryOK, TlbEntry, Pte
  <1>7. /\ p \in Pte /\ p.A = 1 /\ (Writes(c) => p.D = 1)
        /\ p.V = e.pte.V /\ p.ppn = e.pte.ppn /\ (pte_is_ptr(p) <=> pte_is_ptr(e.pte))
        /\ (Writes(c) => SameButAD(l.pte, p))
    BY <1>4, <1>5, <1>6, UpdateBits
  <1>8. CASE ~check_PTE_permission(e.pte, c)
    <2>1. r = Fails("PTW_No_Permission") BY <1>8 DEF translate_TLB_hit
    <2>2. UNCHANGED <<ptes, tlb, asid, unfenced, written>> /\ internal_error' = FALSE
      BY <1>1, <2>1 DEF Fails
    <2> QED BY <1>1, <2>2, Failing
  <1>9. CASE check_PTE_permission(e.pte, c) /\ ~NeedsUpdate(e.pte, c)
    <2>1. r.tlb = tlb /\ r.ptes = ptes /\ r.tag = "TR_Address" BY <1>9 DEF translate_TLB_hit
    <2>2. tlb' = tlb /\ ptes' = ptes /\ internal_error' = FALSE BY <1>1, <2>1
    <2>3. written' \subseteq Slots BY <1>1, <1>5 DEF VInv, MemoryOK
    <2>4. DirtyRecorded'
      <3>1. CASE Writes(c)
        <4>1. e.pte.D = 1 BY <1>6, <1>9, <3>1 DEF NeedsUpdate, Bit
        <4>2. l.pte.A \in Bit /\ l.pte.D \in Bit BY <1>5 DEF Pte
        <4>3. l.pte.A = 1 /\ l.pte.D = 1 BY <1>4, <1>6, <4>1, <4>2 DEF SameButAD, Bit
        <4>4. written' = written \cup {l.slot} BY <1>1, <2>1, <3>1
        <4> HIDE DEF l
        <4> QED BY <1>5, <2>2, <4>3, <4>4 DEF VInv, DirtyRecorded
      <3>2. CASE ~Writes(c) BY <1>1, <2>2, <3>2 DEF VInv, DirtyRecorded
      <3> QED BY <3>1, <3>2
    <2>5. MemoryOK' BY <1>1, <2>2, <2>3 DEF VInv, MemoryOK
    <2>6. TlbOK' /\ GlobalsAgree(ptes') BY <2>2 DEF VInv, TlbOK
    <2>7. TlbSound' BY <1>1, <2>2 DEF VInv, TlbSound, Relied
    <2> QED BY <2>4, <2>5, <2>6, <2>7 DEF VInv
  <1>10. CASE check_PTE_permission(e.pte, c) /\ NeedsUpdate(e.pte, c) /\ ~plat_enable_dirty_update
    <2>1. r = Fails("PTW_PTE_Update") BY <1>10 DEF translate_TLB_hit
    <2>2. UNCHANGED <<ptes, tlb, asid, unfenced, written>> /\ internal_error' = FALSE
      BY <1>1, <2>1 DEF Fails
    <2> QED BY <1>1, <2>2, Failing
  <1>11. CASE check_PTE_permission(e.pte, c) /\ NeedsUpdate(e.pte, c) /\ plat_enable_dirty_update
    <2>1. Writes(c) BY <1>6, <1>11 DEF NeedsUpdate
    <2>2. f \in TlbEntry BY <1>6, <1>7 DEF TlbEntry
    <2>3. /\ f.pte = p /\ f.slot = e.slot /\ f.level = e.level /\ f.vpn = e.vpn /\ f.ppn = e.ppn
          /\ f.asid = e.asid
      BY <1>6 DEF TlbEntry
    <2>4. f.global = e.global BY <1>6, Zenon DEF TlbEntry
    <2>5. EntryOK(f) BY <1>2, <1>7, <2>2, <2>3 DEF EntryOK
    <2>6. r = [tag  |-> IF PteWritable(e.slot) THEN "TR_Address" ELSE "internal_error",
               page |-> PageOf(e.ppn, e.level, v),
               tlb  |-> [tlb EXCEPT ![h] = {f}],
               ptes |-> IF PteWritable(e.slot) THEN [ptes EXCEPT ![e.slot] = p] ELSE ptes]
      BY <1>11 DEF translate_TLB_hit, WriteBack
    <2>7. CASE PteWritable(e.slot)
      <3>1. /\ tlb' = [tlb EXCEPT ![h] = {f}] /\ ptes' = [ptes EXCEPT ![f.slot] = f.pte]
            /\ internal_error' = FALSE /\ written' = written \cup {f.slot}
        BY <1>1, <1>4, <2>1, <2>3, <2>6, <2>7
      <3>2. f.global \/ f.asid = asid BY <1>2, <2>3, <2>4 DEF match_TLB_Entry
      <3>3. f.vpn = Aligned(v, f.level) BY <1>2, <2>3 DEF match_TLB_Entry
      <3>4. f.global <=> l.global BY <1>4, <2>4
      <3>5. SameButAD(l.pte, f.pte) /\ f.pte.D = 1 /\ f.slot = l.slot /\ f.level = l.level
        BY <1>4, <1>7, <2>1, <2>3
      <3>6. PteWritable(f.slot) BY <2>3, <2>7
      <3> HIDE DEF f
      <3> QED BY <1>1, <1>4, <1>11, <2>5, <3>1, <3>2, <3>3, <3>4, <3>5, <3>6, Installs
    <2>8. CASE ~PteWritable(e.slot)
      <3>1. /\ tlb' = [tlb EXCEPT ![h] = {f}] /\ ptes' = ptes /\ internal_error' = TRUE
            /\ written' = written
        BY <1>1, <2>6, <2>8
      <3> HIDE DEF f
      <3>2. h \in 0 .. NTlb - 1 BY HashType
      <3>3. TlbOK' BY <1>3, <2>2, <2>5, <3>1, <3>2 DEF VInv, TlbOK
      <3> QED BY <1>1, <3>1, <3>3 DEF VInv, MemoryOK, DirtyRecorded
    <2> QED BY <2>7, <2>8
  <1> QED BY <1>8, <1>9, <1>10, <1>11

(* What a walk that succeeds has found. *)
LEMMA WalkShape ==
  ASSUME VInv, NEW v \in VPages, NEW c
  PROVE  LET w == pt_walk(asid, v, c)
             l == Leaf(ptes, asid, v)
         IN  /\ w.tag \in {"Leaf", "PTW_Invalid_PTE", "PTW_Access", "PTW_No_Permission",
                           "PTW_Misaligned"}
             /\ w.tag = "Leaf" => /\ w = l /\ l.pte.ppn = Aligned(l.pte.ppn, l.level)
                                  /\ check_PTE_permission(l.pte, c)
  <1> DEFINE w == pt_walk(asid, v, c)
             l == Leaf(ptes, asid, v)
  <1>1. ptes \in Memory /\ asid \in Asids BY DEF VInv, MemoryOK
  <1>2. l.tag \in {"Leaf", "PTW_Invalid_PTE", "PTW_Access"} BY <1>1, LeafShape DEF PtwFailure
  <1>3. w = IF l.tag # "Leaf" THEN l
            ELSE IF ~check_PTE_permission(l.pte, c) THEN PtwFailure("PTW_No_Permission")
            ELSE IF l.pte.ppn # Aligned(l.pte.ppn, l.level) THEN PtwFailure("PTW_Misaligned")
            ELSE l
    BY DEF pt_walk
  <1> HIDE DEF l, w
  <1>4. w.tag \in {"Leaf", "PTW_Invalid_PTE", "PTW_Access", "PTW_No_Permission", "PTW_Misaligned"}
    BY <1>2, <1>3 DEF PtwFailure
  <1>5. w.tag = "Leaf" => /\ w = l /\ l.pte.ppn = Aligned(l.pte.ppn, l.level)
                          /\ check_PTE_permission(l.pte, c)
    BY <1>2, <1>3 DEF PtwFailure
  <1> QED BY <1>4, <1>5 DEF l, w

(* A miss. *)
LEMMA MissStep ==
  ASSUME VInv, NEW v \in VPages, NEW c \in Contexts, translateAddr(v, c),
         translate(v, c) = translate_TLB_miss(v, c)
  PROVE  VInv'
  <1> DEFINE r == translate_TLB_miss(v, c)
             w == pt_walk(asid, v, c)
             l == Leaf(ptes, asid, v)
             p == update_PTE_Bits(l.pte, c)
             Entry(q) == [asid |-> asid, global |-> l.global, vpn |-> Aligned(v, l.level),
                          level |-> l.level, ppn |-> Aligned(q.ppn, l.level), pte |-> q,
                          slot |-> l.slot]
             h == tlb_hash(v)
  <1>1. /\ ~internal_error /\ asid' = asid /\ unfenced' = unfenced
        /\ tlb' = r.tlb /\ ptes' = r.ptes
        /\ (r.tag # "internal_error" => internal_error' = FALSE)
        /\ written' = IF r.tag = "TR_Address" /\ Writes(c) THEN written \cup {l.slot} ELSE written
    BY Zenon DEF translateAddr
  <1>2. ptes \in Memory /\ asid \in Asids BY DEF VInv, MemoryOK
  <1>3. ASSUME r.tlb = tlb, r.ptes = ptes, r.tag # "TR_Address", r.tag # "internal_error"
        PROVE  VInv'
    <2>1. UNCHANGED <<ptes, tlb, asid, unfenced, written>> /\ internal_error' = FALSE
      BY <1>1, <1>3
    <2> QED BY <1>1, <2>1, Failing
  <1>4. CASE w.tag # "Leaf"
    <2>1. r = Fails(w.tag) BY <1>4 DEF translate_TLB_miss
    <2>2. w.tag # "TR_Address" /\ w.tag # "internal_error" BY WalkShape
    <2> HIDE DEF r, w
    <2>3. r.tlb = tlb /\ r.ptes = ptes /\ r.tag = w.tag BY <2>1 DEF Fails
    <2> QED BY <1>3, <2>2, <2>3
  <1>5. CASE w.tag = "Leaf"
    <2>1. w = l /\ l.tag = "Leaf" /\ l.pte.ppn = Aligned(l.pte.ppn, l.level)
      BY <1>5, WalkShape
    <2>2. /\ l.slot \in Slots /\ l.level \in 0 .. 1 /\ l.global \in BOOLEAN
          /\ l.pte = ptes[l.slot] /\ l.pte \in Pte
          /\ ~pte_is_invalid(l.pte) /\ ~pte_is_ptr(l.pte)
      BY <1>2, <2>1, LeafShape
    <2>3. /\ p \in Pte /\ SameButAD(l.pte, p) /\ p.A = 1 /\ (Writes(c) => p.D = 1)
          /\ p.V = l.pte.V /\ p.ppn = l.pte.ppn /\ (pte_is_ptr(p) <=> pte_is_ptr(l.pte))
      BY <2>2, UpdateBits
    <2>4. l.pte.V = 1 /\ l.pte.A \in Bit /\ l.pte.D \in Bit
      BY <2>2 DEF pte_is_invalid, Pte, Bit
    <2>5. ASSUME NEW q \in Pte, SameButAD(l.pte, q), q.A = 1, Writes(c) => q.D = 1,
                 q.V = 1, q.ppn = l.pte.ppn, ~pte_is_ptr(q),
                 (plat_enable_dirty_update /\ PteWritable(l.slot)) \/ q = l.pte,
                 r.tlb = [tlb EXCEPT ![h] = {Entry(q)}], r.ptes = [ptes EXCEPT ![l.slot] = q],
                 r.tag = "TR_Address"
          PROVE  VInv'
      <3> DEFINE e == Entry(q)
      <3>1. v \in Nat /\ Aligned(v, l.level) \in Nat
            /\ Aligned(Aligned(v, l.level), l.level) = Aligned(v, l.level)
        BY <2>2, VpnType, AlignedType
      <3>2. q.ppn = Aligned(q.ppn, l.level) /\ q.ppn \in Nat BY <2>1, <2>5 DEF Pte
      <3>3. /\ e.asid = asid /\ e.vpn = Aligned(v, l.level) /\ e.level = l.level
            /\ e.ppn = q.ppn /\ e.pte = q /\ e.slot = l.slot
        BY <3>2
      <3>4. e.global = l.global BY Zenon
      <3>5. e \in TlbEntry BY <1>2, <2>2, <2>5, <3>1, <3>2 DEF TlbEntry
      <3> HIDE DEF e
      <3>6. EntryOK(e) BY <2>5, <3>1, <3>2, <3>3, <3>5 DEF EntryOK
      <3>7. /\ tlb' = [tlb EXCEPT ![h] = {e}] /\ ptes' = [ptes EXCEPT ![e.slot] = e.pte]
            /\ internal_error' = FALSE
        BY <1>1, <2>5, <3>3 DEF e
      <3>8. written' = written \/ (written' = written \cup {e.slot} /\ e.pte.D = 1)
        BY <1>1, <2>5, <3>3
      <3>9. e.global <=> l.global BY <3>4
      <3>10. /\ e.vpn = Aligned(v, e.level) /\ e.level = l.level /\ e.slot = l.slot
             /\ SameButAD(l.pte, e.pte)
             /\ ((plat_enable_dirty_update /\ PteWritable(e.slot)) \/ e.pte = l.pte)
             /\ (e.global \/ e.asid = asid)
        BY <2>5, <3>3
      <3> QED BY <1>1, <2>1, <3>6, <3>7, <3>8, <3>9, <3>10, Installs
    <2>6. r = IF ~NeedsUpdate(l.pte, c)
              THEN [tag |-> "TR_Address", page |-> PageOf(l.pte.ppn, l.level, v),
                    tlb |-> [tlb EXCEPT ![h] = {Entry(l.pte)}], ptes |-> ptes]
              ELSE IF ~plat_enable_dirty_update THEN Fails("PTW_PTE_Update")
              ELSE IF ~PteWritable(l.slot) THEN Fails("PTW_Access")
              ELSE [tag |-> "TR_Address", page |-> PageOf(l.pte.ppn, l.level, v),
                    tlb |-> [tlb EXCEPT ![h] = {Entry(p)}],
                    ptes |-> [ptes EXCEPT ![l.slot] = p]]
      <3>1. w = l /\ w.tag = "Leaf" BY <1>5, <2>1
      <3> QED BY <3>1 DEF translate_TLB_miss, add_to_TLB, WriteBack
    <2> HIDE DEF r, Entry, p, h
    <2>7. CASE ~NeedsUpdate(l.pte, c)
      <3>1. l.pte.A = 1 /\ (Writes(c) => l.pte.D = 1) BY <2>4, <2>7 DEF NeedsUpdate, Bit
      <3>2. SameButAD(l.pte, l.pte) BY <2>2 DEF SameButAD, Pte, Bit
      <3>3. ptes = [ptes EXCEPT ![l.slot] = l.pte] BY <1>2, <2>2 DEF Memory
      <3>4. r.tlb = [tlb EXCEPT ![h] = {Entry(l.pte)}] /\ r.ptes = ptes /\ r.tag = "TR_Address"
        BY <2>6, <2>7
      <3> QED BY <2>2, <2>4, <2>5, <3>1, <3>2, <3>3, <3>4
    <2>8. CASE NeedsUpdate(l.pte, c) /\ (~plat_enable_dirty_update \/ ~PteWritable(l.slot))
      <3>1. r.tlb = tlb /\ r.ptes = ptes /\ r.tag # "TR_Address" /\ r.tag # "internal_error"
        BY <2>6, <2>8 DEF Fails
      <3> QED BY <1>3, <3>1
    <2>9. CASE NeedsUpdate(l.pte, c) /\ plat_enable_dirty_update /\ PteWritable(l.slot)
      <3>1. /\ r.tlb = [tlb EXCEPT ![h] = {Entry(p)}] /\ r.ptes = [ptes EXCEPT ![l.slot] = p]
            /\ r.tag = "TR_Address"
        BY <2>6, <2>9
      <3> QED BY <2>2, <2>3, <2>4, <2>5, <2>9, <3>1
    <2> QED BY <2>7, <2>8, <2>9
  <1> QED BY <1>4, <1>5
-----------------------------------------------------------------------------
(* The steps of software. *)

(* A fence that lets software rely on a translation again has flushed      *)
(* every entry that the change had made stale.                             *)
LEMMA SfenceStep ==
  ASSUME VInv, NEW as \in SUBSET Asids, NEW vs \in SUBSET VPages, SfenceVma(as, vs)
  PROVE  VInv'
  <1>1. /\ ~internal_error /\ TlbSound /\ tlb \in [0 .. NTlb - 1 -> SUBSET TlbEntry]
        /\ ptes' = ptes /\ asid' = asid /\ internal_error' = internal_error /\ written' = written
    BY DEF SfenceVma, VInv, TlbOK
  <1>2. tlb' = [i \in 0 .. NTlb - 1 |-> {e \in tlb[i] : ~flush_TLB_Entry(e, as, vs)}]
    BY <1>1 DEF SfenceVma
  <1>3. unfenced' = {u \in unfenced : \/ as # {} /\ (u[1] \notin as \/ u[3] = "global")
                                      \/ vs # {} /\ u[2] \notin vs}
    BY DEF SfenceVma
  <1>4. MemoryOK'
    <2>1. unfenced' \subseteq unfenced BY <1>3
    <2> QED BY <1>1, <2>1 DEF VInv, MemoryOK
  <1>5. ASSUME NEW i \in 0 .. NTlb - 1, NEW e \in tlb'[i]
        PROVE  e \in tlb[i] /\ ~flush_TLB_Entry(e, as, vs)
    BY <1>2, <1>5
  <1>6. TlbOK'
    <2>1. tlb' \in [0 .. NTlb - 1 -> SUBSET TlbEntry] BY <1>1, <1>2
    <2>2. ASSUME NEW i \in 0 .. NTlb - 1, NEW e \in tlb'[i] PROVE EntryOK(e) /\ tlb'[i] = {e}
      <3>1. e \in tlb[i] BY <1>5, <2>2
      <3>2. EntryOK(e) /\ tlb[i] = {e} BY <3>1 DEF VInv, TlbOK
      <3>3. tlb'[i] \subseteq {e} BY <1>5, <3>2
      <3>4. tlb'[i] = {e} BY <2>2, <3>3
      <3> QED BY <3>2, <3>4
    <2> QED BY <2>1, <2>2 DEF TlbOK
  <1>7. TlbSound'
    <2> SUFFICES ASSUME NEW i \in 0 .. NTlb - 1, NEW e \in tlb'[i], NEW a \in Asids,
                        NEW x \in VPages, match_TLB_Entry(e, a, x), Relied(e, a, x)'
                 PROVE  Accurate(ptes', e, a, x)
      BY DEF TlbSound
    <2>1. e \in tlb[i] /\ ~flush_TLB_Entry(e, as, vs) BY <1>5
    <2>2. Relied(e, a, x)
      <3> SUFFICES ASSUME NEW k \in Kinds, <<a, x, k>> \in unfenced, ~(e.global /\ k = "local")
                   PROVE  FALSE
        BY DEF Relied
      <3>1. <<a, x, k>> \notin unfenced' BY DEF Relied
      <3>2. /\ as # {} => a \in as /\ k # "global"
            /\ vs # {} => x \in vs
        BY <1>3, <3>1
      <3>3. as # {} => e.asid \in as /\ ~e.global BY <3>2 DEF match_TLB_Entry, Kinds
      <3>4. vs # {} => e.vpn \in {Aligned(v, e.level) : v \in vs} BY <3>2 DEF match_TLB_Entry
      <3> QED BY <2>1, <3>3, <3>4 DEF flush_TLB_Entry
    <2>3. Accurate(ptes, e, a, x) BY <1>1, <2>1, <2>2 DEF TlbSound
    <2> QED BY <1>1, <2>3
  <1>8. GlobalsAgree(ptes') /\ DirtyRecorded' BY <1>1 DEF VInv, DirtyRecorded
  <1> QED BY <1>4, <1>6, <1>7, <1>8 DEF VInv

(* An edit that changes a translation an entry answers marks it unfenced,  *)
(* in the kind that the entry does not survive.                            *)
LEMMA EditStep ==
  ASSUME VInv, NEW s \in Slots, NEW p \in Pte, EditPte(s, p)
  PROVE  VInv'
  <1> DEFINE Changed(u) == LET old == Leaf(ptes, u[1], u[2])
                               new == Leaf(ptes', u[1], u[2])
                           IN  old # new /\ (u[3] = "global" <=> IsGlobal(old) \/ IsGlobal(new))
  <1>1. /\ ~internal_error /\ TlbSound /\ tlb' = tlb /\ asid' = asid
        /\ internal_error' = internal_error
        /\ ptes' = [ptes EXCEPT ![s] = p] /\ GlobalsAgree(ptes') /\ written' = written \ {s}
        /\ ptes \in Memory
    BY DEF EditPte, VInv, MemoryOK
  <1>2. unfenced' = unfenced \cup {u \in Asids \X VPages \X Kinds : Changed(u)}
    BY DEF EditPte
  <1> HIDE DEF Changed
  <1>3. MemoryOK'
    <2>1. ptes' \in Memory BY <1>1 DEF Memory
    <2>2. unfenced' \subseteq Asids \X VPages \X Kinds BY <1>2 DEF VInv, MemoryOK
    <2> QED BY <1>1, <2>1, <2>2 DEF VInv, MemoryOK
  <1>4. TlbOK' BY <1>1 DEF VInv, TlbOK
  <1>5. DirtyRecorded'
    <2> SUFFICES ASSUME NEW t \in written' PROVE ptes'[t].D = 1 /\ ptes'[t].A = 1
      BY DEF DirtyRecorded
    <2>1. t \in written /\ t # s /\ t \in Slots BY <1>1 DEF VInv, MemoryOK
    <2>2. ptes'[t] = ptes[t] BY <1>1, <2>1 DEF Memory
    <2> QED BY <2>1, <2>2 DEF VInv, DirtyRecorded
  <1>6. TlbSound'
    <2> SUFFICES ASSUME NEW i \in 0 .. NTlb - 1, NEW e \in tlb'[i], NEW a \in Asids,
                        NEW x \in VPages, match_TLB_Entry(e, a, x), Relied(e, a, x)'
                 PROVE  Accurate(ptes', e, a, x)
      BY DEF TlbSound
    <2>1. Relied(e, a, x) BY <1>2 DEF Relied
    <2>2. Accurate(ptes, e, a, x) BY <1>1, <2>1 DEF TlbSound
    <2> DEFINE old == Leaf(ptes, a, x)
               new == Leaf(ptes', a, x)
    <2>3. old.tag = "Leaf" /\ (old.global <=> e.global) BY <2>2 DEF Accurate
    <2>4. ASSUME old # new PROVE FALSE
      <3> DEFINE k == IF IsGlobal(old) \/ IsGlobal(new) THEN "global" ELSE "local"
      <3>1. k \in Kinds BY DEF Kinds
      <3>2. <<a, x, k>> \in Asids \X VPages \X Kinds BY <3>1
      <3>3. k = "global" <=> IsGlobal(old) \/ IsGlobal(new) OBVIOUS
      <3>4. Changed(<<a, x, k>>) BY <2>4, <3>3 DEF Changed
      <3>5. <<a, x, k>> \in unfenced' BY <1>2, <3>2, <3>4
      <3>6. e.global /\ k = "local" BY <3>1, <3>5 DEF Relied
      <3>7. IsGlobal(old) BY <2>3, <3>6 DEF IsGlobal
      <3> QED BY <3>6, <3>7
    <2>5. old = new BY <2>4
    <2> QED BY <2>2, <2>5 DEF Accurate
  <1> QED BY <1>1, <1>3, <1>4, <1>5, <1>6 DEF VInv

(* The invariant holds at first and is kept by every step. *)
THEOREM VMemInvariant == Spec => []VInv
  <1>1. Init => VInv
    <2> SUFFICES ASSUME Init PROVE VInv OBVIOUS
    <2>1. MemoryOK BY VMemAssumption DEF Init, MemoryOK, Memory
    <2>2. tlb \in [0 .. NTlb - 1 -> SUBSET TlbEntry] /\ \A i \in 0 .. NTlb - 1 : tlb[i] = {}
      BY DEF Init
    <2>3. TlbOK /\ TlbSound BY <2>2 DEF TlbOK, TlbSound
    <2>4. GlobalsAgree(ptes) /\ DirtyRecorded BY GlobalsAssumption DEF Init, DirtyRecorded
    <2> QED BY <2>1, <2>3, <2>4 DEF VInv
  <1>2. VInv /\ [Next]_vars => VInv'
    <2> SUFFICES ASSUME VInv, [Next]_vars PROVE VInv' OBVIOUS
    <2>1. ASSUME NEW v \in VPages, NEW c \in Contexts, translateAddr(v, c) PROVE VInv'
      <3>1. CASE lookup_TLB(asid, v) # {}
        <4>1. PICK e \in lookup_TLB(asid, v) : e = CHOOSE f \in lookup_TLB(asid, v) : TRUE
          BY <3>1
        <4>2. translate(v, c) = translate_TLB_hit(e, v, c) BY <3>1, <4>1 DEF translate
        <4> QED BY <2>1, <4>2, HitStep
      <3>2. CASE lookup_TLB(asid, v) = {}
        <4>1. translate(v, c) = translate_TLB_miss(v, c) BY <3>2 DEF translate
        <4> QED BY <2>1, <4>1, MissStep
      <3> QED BY <3>1, <3>2
    <2>2. ASSUME NEW a \in Asids, WriteSatp(a) PROVE VInv'
      BY <2>2 DEF WriteSatp, VInv, MemoryOK, TlbOK, TlbSound, DirtyRecorded, Relied
    <2>3. ASSUME NEW as \in SUBSET Asids, NEW vs \in SUBSET VPages, SfenceVma(as, vs) PROVE VInv'
      BY <2>3, SfenceStep
    <2>4. ASSUME NEW s \in DOMAIN PteInputs, NEW p \in PteInputs[s], EditPte(s, p) PROVE VInv'
      BY <2>4, VMemAssumption, EditStep
    <2>5. CASE UNCHANGED vars
      BY <2>5 DEF vars, VInv, MemoryOK, TlbOK, TlbSound, DirtyRecorded, Relied
    <2>6. CASE SfenceVma({}, {}) BY <2>3, <2>6
    <2>7. ASSUME NEW v \in VPages, SfenceVma({}, {v}) PROVE VInv' BY <2>3, <2>7
    <2>8. ASSUME NEW a \in Asids, SfenceVma({a}, {}) PROVE VInv' BY <2>3, <2>8
    <2>9. ASSUME NEW a \in Asids, NEW v \in VPages, SfenceVma({a}, {v}) PROVE VInv' BY <2>3, <2>9
    <2> QED BY <2>1, <2>2, <2>4, <2>5, <2>6, <2>7, <2>8, <2>9 DEF Next
  <1> QED BY <1>1, <1>2, PTL DEF Spec

(* For any tables and any TLB, entries are leaves with their A bit set,    *)
(* tagged by aligned addresses, one to a slot of the TLB.                  *)
THEOREM VMemTypeCorrect == Spec => []TypeOK
  <1>1. VInv => TypeOK
    <2> SUFFICES ASSUME VInv PROVE TypeOK OBVIOUS
    <2>1. DOMAIN tlb = 0 .. NTlb - 1 BY DEF VInv, TlbOK
    <2>2. ASSUME NEW i \in 0 .. NTlb - 1 PROVE Cardinality(tlb[i]) <= 1
      <3>1. CASE tlb[i] = {} BY <3>1, FS_EmptySet
      <3>2. CASE tlb[i] # {}
        <4>1. PICK e \in tlb[i] : TRUE BY <3>2
        <4>2. tlb[i] = {e} BY <4>1 DEF VInv, TlbOK
        <4>3. Cardinality({e}) = 1 BY FS_Singleton
        <4> QED BY <4>2, <4>3
      <3> QED BY <3>1, <3>2
    <2>3. ASSUME NEW i \in 0 .. NTlb - 1, NEW e \in tlb[i] PROVE EntryOK(e)
      BY <2>3 DEF VInv, TlbOK
    <2> QED BY <2>1, <2>2, <2>3 DEF VInv, MemoryOK, TypeOK, EntryOK, Memory
  <1> QED BY <1>1, VMemInvariant, PTL

(* A page that was written through is dirty in memory, for any number of   *)
(* copies of its PTE in the TLB, and with tables that cannot be written.   *)
THEOREM VMemDirtyRecorded == Spec => []DirtyRecorded
  <1>1. VInv => DirtyRecorded BY DEF VInv
  <1> QED BY <1>1, VMemInvariant, PTL
-----------------------------------------------------------------------------
(* Transparency. *)

(* Permissions, alignment and page do not depend on A and D bits. *)
LEMMA SameDecision ==
  ASSUME NEW p \in Pte, NEW q \in Pte, SameButAD(p, q), NEW c
  PROVE  check_PTE_permission(p, c) <=> check_PTE_permission(q, c)
  BY DEF SameButAD, check_PTE_permission, Readable

(* A hit on a fenced translation has the outcome of the walk, or stops     *)
(* where the walk gives an access fault.                                   *)
LEMMA HitIsWalk ==
  ASSUME VInv, ~internal_error, NEW v \in VPages, NEW c \in Contexts, MayUse(v),
         NEW e \in lookup_TLB(asid, v)
  PROVE  LET r == translate_TLB_hit(e, v, c)
             o == translate_TLB_miss(v, c)
         IN  Outcome(r) = Outcome(o) \/ (r.tag = "internal_error" /\ o.tag = "PTW_Access")
  <1> DEFINE l == Leaf(ptes, asid, v)
             w == pt_walk(asid, v, c)
             r == translate_TLB_hit(e, v, c)
             o == translate_TLB_miss(v, c)
  <1>1. EntryOK(e) /\ Accurate(ptes, e, asid, v) BY HitAccurate
  <1>2. /\ l.tag = "Leaf" /\ l.slot = e.slot /\ l.level = e.level
        /\ SameButAD(e.pte, l.pte)
        /\ ((plat_enable_dirty_update /\ PteWritable(e.slot)) \/ l.pte = e.pte)
    BY <1>1 DEF Accurate
  <1>3. ptes \in Memory /\ asid \in Asids BY DEF VInv, MemoryOK
  <1>4. l.pte \in Pte BY <1>2, <1>3, LeafShape
  <1>5. /\ e.pte \in Pte /\ e.pte.A = 1 /\ e.ppn = e.pte.ppn /\ e.ppn = Aligned(e.ppn, e.level)
    BY <1>1 DEF EntryOK, TlbEntry
  <1>6. check_PTE_permission(e.pte, c) <=> check_PTE_permission(l.pte, c)
    BY <1>2, <1>4, <1>5, SameDecision
  <1>7. l.pte.ppn = e.ppn /\ l.pte.ppn = Aligned(l.pte.ppn, l.level)
    BY <1>2, <1>5 DEF SameButAD
  <1>8. PageOf(e.ppn, e.level, v) = PageOf(l.pte.ppn, l.level, v) BY <1>2, <1>7
  <1>9. CASE ~check_PTE_permission(e.pte, c)
    <2>1. r = Fails("PTW_No_Permission") BY <1>9 DEF translate_TLB_hit
    <2>2. w = PtwFailure("PTW_No_Permission") BY <1>2, <1>6, <1>9 DEF pt_walk
    <2>3. w.tag = "PTW_No_Permission" BY <2>2 DEF PtwFailure
    <2>4. o = Fails("PTW_No_Permission") BY <2>3 DEF translate_TLB_miss
    <2> QED BY <2>1, <2>4
  <1>10. CASE check_PTE_permission(e.pte, c)
    <2>1. w = l /\ w.tag = "Leaf" BY <1>2, <1>6, <1>7, <1>10 DEF pt_walk
    <2>2. ASSUME o.tag = "TR_Address", o.page = PageOf(l.pte.ppn, l.level, v),
                 r.tag = "TR_Address", r.page = PageOf(e.ppn, e.level, v)
          PROVE  Outcome(r) = Outcome(o)
      BY <1>8, <2>2 DEF Outcome
    <2>3. CASE plat_enable_dirty_update /\ PteWritable(e.slot)
      <3>1. r.tag = "TR_Address" /\ r.page = PageOf(e.ppn, e.level, v)
        BY <1>10, <2>3 DEF translate_TLB_hit
      <3>2. PteWritable(l.slot) BY <1>2, <2>3
      <3>3. o.tag = "TR_Address" /\ o.page = PageOf(l.pte.ppn, l.level, v)
        BY <2>1, <2>3, <3>2 DEF translate_TLB_miss
      <3> QED BY <2>2, <3>1, <3>3
    <2>4. CASE ~(plat_enable_dirty_update /\ PteWritable(e.slot))
      <3>1. l.pte = e.pte BY <1>2, <2>4
      <3>2. CASE NeedsUpdate(e.pte, c) /\ ~plat_enable_dirty_update
        <4>1. r = Fails("PTW_PTE_Update") BY <1>10, <3>2 DEF translate_TLB_hit
        <4>2. o = Fails("PTW_PTE_Update") BY <2>1, <3>1, <3>2 DEF translate_TLB_miss
        <4> QED BY <4>1, <4>2
      <3>3. CASE NeedsUpdate(e.pte, c) /\ plat_enable_dirty_update
        <4>1. ~PteWritable(e.slot) /\ ~PteWritable(l.slot) BY <1>2, <2>4, <3>3
        <4>2. r.tag = "internal_error" BY <1>10, <3>3, <4>1 DEF translate_TLB_hit
        <4>3. o = Fails("PTW_Access") BY <2>1, <3>1, <3>3, <4>1 DEF translate_TLB_miss
        <4>4. o.tag = "PTW_Access" BY <4>3 DEF Fails
        <4> QED BY <4>2, <4>4
      <3>4. CASE ~NeedsUpdate(e.pte, c)
        <4>1. r.tag = "TR_Address" /\ r.page = PageOf(e.ppn, e.level, v)
          BY <1>10, <3>4 DEF translate_TLB_hit
        <4>2. o.tag = "TR_Address" /\ o.page = PageOf(l.pte.ppn, l.level, v)
          BY <2>1, <3>1, <3>4 DEF translate_TLB_miss
        <4> QED BY <2>2, <4>1, <4>2
      <3> QED BY <3>2, <3>3, <3>4
    <2> QED BY <2>3, <2>4
  <1> QED BY <1>9, <1>10

(* How far the TLB is transparent when PMP may make page tables read-only: *)
(* it differs from the walk only by stopping the model, and only where the *)
(* walk would give the access fault PTW_Access.                            *)
TransparentButForError ==
  ~internal_error =>
    \A v \in VPages : MayUse(v) =>
      \A c \in Contexts :
        LET r == translate(v, c)
            o == translate_TLB_miss(v, c)
        IN  Outcome(r) = Outcome(o) \/ (r.tag = "internal_error" /\ o.tag = "PTW_Access")

(* For any choice of read-only tables: a translation through the TLB that  *)
(* software has fenced gives what the walk gives, but that translate_TLB_hit *)
(* stops in internal_error("invalid physical address in TLB") on some of   *)
(* the accesses that translate_TLB_miss answers by PTW_Access.             *)
THEOREM VMemTransparentButForError == Spec => []TransparentButForError
  <1>1. VInv => TransparentButForError
    <2> SUFFICES ASSUME VInv, ~internal_error, NEW v \in VPages, MayUse(v), NEW c \in Contexts
                 PROVE  LET r == translate(v, c)
                            o == translate_TLB_miss(v, c)
                        IN  Outcome(r) = Outcome(o)
                            \/ (r.tag = "internal_error" /\ o.tag = "PTW_Access")
      BY DEF TransparentButForError
    <2>1. CASE lookup_TLB(asid, v) = {} BY <2>1 DEF translate
    <2>2. CASE lookup_TLB(asid, v) # {}
      <3>1. PICK e \in lookup_TLB(asid, v) : e = CHOOSE f \in lookup_TLB(asid, v) : TRUE
        BY <2>2
      <3>2. translate(v, c) = translate_TLB_hit(e, v, c) BY <2>2, <3>1 DEF translate
      <3> QED BY <3>2, HitIsWalk
    <2> QED BY <2>1, <2>2
  <1> QED BY <1>1, VMemInvariant, PTL

(* With tables that can be written no translation stops the model. *)
LEMMA NoStop ==
  ASSUME ReadOnlyTables = {}, VInv, NEW v \in VPages, NEW c \in Contexts
  PROVE  translate(v, c).tag # "internal_error"
  <1>1. ASSUME NEW e PROVE translate_TLB_hit(e, v, c).tag # "internal_error"
    <2>1. PteWritable(e.slot) BY DEF PteWritable
    <2> QED BY <2>1 DEF translate_TLB_hit, Fails
  <1>2. translate_TLB_miss(v, c).tag # "internal_error"
    <2> DEFINE w == pt_walk(asid, v, c)
    <2>1. w.tag # "internal_error" BY WalkShape
    <2> HIDE DEF w
    <2>2. Fails(w.tag).tag = w.tag BY DEF Fails
    <2> QED BY <2>1, <2>2 DEF translate_TLB_miss, Fails, w
  <1>3. translate(v, c) = translate_TLB_miss(v, c)
        \/ \E e : translate(v, c) = translate_TLB_hit(e, v, c)
    BY DEF translate
  <1> QED BY <1>1, <1>2, <1>3

(* With tables that can be written, the TLB is transparent to software     *)
(* that fences what it changes: for any number of address spaces and of    *)
(* TLB entries, superpages in several slots, split superpages and global   *)
(* mappings included.                                                      *)
THEOREM VMemTransparent ==
  ASSUME ReadOnlyTables = {}
  PROVE  Spec => []TlbTransparent
  <1>1. Init => ~internal_error BY DEF Init
  <1>2. VInv /\ ~internal_error /\ [Next]_vars => ~internal_error'
    <2> SUFFICES ASSUME VInv, ~internal_error, [Next]_vars PROVE ~internal_error' OBVIOUS
    <2>1. ASSUME NEW v \in VPages, NEW c \in Contexts, translateAddr(v, c) PROVE ~internal_error'
      <3>1. internal_error' = (translate(v, c).tag = "internal_error")
        BY <2>1, Zenon DEF translateAddr
      <3> QED BY <3>1, NoStop
    <2>2. CASE UNCHANGED vars BY <2>2 DEF vars
    <2> QED BY <2>1, <2>2 DEF Next, WriteSatp, SfenceVma, EditPte
  <1>3. VInv /\ ~internal_error /\ TransparentButForError => TlbTransparent
    <2> SUFFICES ASSUME VInv, ~internal_error, TransparentButForError,
                        NEW v \in VPages, MayUse(v), NEW c \in Contexts
                 PROVE  Outcome(translate(v, c)) = Outcome(translate_TLB_miss(v, c))
      BY DEF TlbTransparent
    <2> QED BY NoStop DEF TransparentButForError
  <1> QED BY <1>1, <1>2, <1>3, VMemInvariant, VMemTransparentButForError, PTL DEF Spec
=============================================================================
