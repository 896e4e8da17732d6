-------------------------------- MODULE VMem --------------------------------
(***************************************************************************)
(* Virtual memory: the page-table walk, the TLB in front of it, the        *)
(* hardware update of the A and D bits, SFENCE.VMA and address-space       *)
(* switches, against software that edits page tables.                      *)
(*                                                                         *)
(* The instance is a small Sv32: two levels, TableSize entries per table,  *)
(* pages only (offsets take no part).  Software follows the contract of    *)
(* SFENCE.VMA: it does not use a translation that it has changed until it  *)
(* has fenced it, in any of the four forms of the instruction; and what it *)
(* maps as global is the same in all its address spaces.                   *)
(***************************************************************************)
EXTENDS Integers, FiniteSets

CONSTANTS
  TableSize,         \* entries of a table (a bound; 2^10 in Sv32)
  NTlb,              \* TLB entries (a bound; 64 in the code)
  Asids,             \* address-space ids software uses (a bound)
  RootOf,            \* address-space id -> page of its root table
  Tables,            \* pages that hold tables
  ReadOnlyTables,    \* those of them PMP lets nobody below M write
  InitPtes,          \* initial contents of the tables
  PteInputs,         \* slot -> the PTEs software writes to it (a bound)
  plat_enable_dirty_update

Slots  == Tables \X (0 .. TableSize - 1)
VPages == 0 .. (TableSize * TableSize) - 1
Bit    == 0 .. 1
Pte    == [V : Bit, R : Bit, W : Bit, X : Bit, U : Bit, G : Bit, A : Bit, D : Bit, ppn : Nat]

ASSUME VMemAssumption ==
  /\ TableSize \in Nat \ {0} /\ NTlb \in Nat \ {0}
  /\ Tables \subseteq Nat /\ ReadOnlyTables \subseteq Tables
  /\ RootOf \in [Asids -> Tables]
  /\ InitPtes \in [Slots -> Pte]
  /\ \A s \in DOMAIN PteInputs : s \in Slots /\ PteInputs[s] \subseteq Pte
  /\ plat_enable_dirty_update \in BOOLEAN

VARIABLES
  ptes,           \* the page tables
  tlb,            \* a sequence of sets: {} or {entry}
  asid,           \* satp: the current address space, and with it its root
  internal_error, \* did the model stop in internal_error()
  unfenced,       \* ghost: translations changed since they were last fenced
  written         \* ghost: PTE slots written through since software set them

vars == <<ptes, tlb, asid, internal_error, unfenced, written>>
-----------------------------------------------------------------------------
(* Page-table entries. *)

pte_is_ptr(p)     == p.X = 0 /\ p.W = 0 /\ p.R = 0
pte_is_invalid(p) == p.V = 0 \/ (p.W = 1 /\ p.R = 0)

Readable(p, mxr) == p.R = 1 \/ (p.X = 1 /\ mxr)

(* c is what decides an access: its type, the effective privilege, MXR and *)
(* SUM.                                                                    *)
check_PTE_permission(p, c) ==
  /\ IF c.priv = "User" THEN p.U = 1
                        ELSE p.U = 0 \/ (c.sum /\ c.ac # "Execute")
  /\ CASE c.ac = "Read"      -> Readable(p, c.mxr)
       [] c.ac = "Write"     -> p.W = 1
       [] c.ac = "ReadWrite" -> p.W = 1 /\ Readable(p, c.mxr)
       [] c.ac = "Execute"   -> p.X = 1

Writes(c) == c.ac \in {"Write", "ReadWrite"}

NeedsUpdate(p, c) == p.A = 0 \/ (p.D = 0 /\ Writes(c))

update_PTE_Bits(p, c) == [p EXCEPT !.A = 1, !.D = IF Writes(c) THEN 1 ELSE @]
-----------------------------------------------------------------------------
(* The walk. *)

vpn_j(v, level) == IF level = 1 THEN v \div TableSize ELSE v % TableSize

(* Where the walk for v in address space a ends: at a leaf, or failing. *)
PtwFailure(e) == [tag |-> e]

Leaf(m, a, v) ==
  LET s1 == <<RootOf[a], vpn_j(v, 1)>>
      p1 == m[s1]
      s0 == <<p1.ppn, vpn_j(v, 0)>>
      p0 == m[s0]
      At(s, p, level, g) ==
        [tag |-> "Leaf", slot |-> s, pte |-> p, level |-> level, global |-> g]
  IN  IF pte_is_invalid(p1) THEN PtwFailure("PTW_Invalid_PTE")
      ELSE IF ~pte_is_ptr(p1) THEN At(s1, p1, 1, p1.G = 1)
      ELSE IF p1.ppn \notin Tables THEN PtwFailure("PTW_Access")
      ELSE IF pte_is_invalid(p0) \/ pte_is_ptr(p0) THEN PtwFailure("PTW_Invalid_PTE")
      ELSE At(s0, p0, 0, p1.G = 1 \/ p0.G = 1)

Aligned(n, level) == IF level = 1 THEN (n \div TableSize) * TableSize ELSE n

pt_walk(a, v, c) ==
  LET l == Leaf(ptes, a, v)
  IN  IF l.tag # "Leaf" THEN l
      ELSE IF ~check_PTE_permission(l.pte, c) THEN PtwFailure("PTW_No_Permission")
      ELSE IF l.pte.ppn # Aligned(l.pte.ppn, l.level) THEN PtwFailure("PTW_Misaligned")
      ELSE l

(* The physical page: superpages take the low bits from v. *)
PageOf(ppn, level, v) == Aligned(ppn, level) + (IF level = 1 THEN v % TableSize ELSE 0)
-----------------------------------------------------------------------------
(* The TLB. *)

tlb_hash(v) == v % NTlb

match_TLB_Entry(e, a, v) == (e.global \/ e.asid = a) /\ e.vpn = Aligned(v, e.level)

lookup_TLB(a, v) == {e \in tlb[tlb_hash(v)] : match_TLB_Entry(e, a, v)}

(* Mutant: the address is compared without the mask of superpages. *)
flush_TLB_Entry_Unmasked(e, as, vs) ==
  /\ as # {} => (e.asid \in as /\ ~e.global)
  /\ vs # {} => e.vpn \in vs

(* The operands are {} for None() and a singleton for Some(). *)
flush_TLB_Entry(e, as, vs) ==
  /\ as # {} => (e.asid \in as /\ ~e.global)
  /\ vs # {} => e.vpn \in {Aligned(v, e.level) : v \in vs}

(* Mutant: the tag keeps the low bits that a superpage does not compare. *)
add_to_TLB_NoMask(v, l, p) ==
  [tlb EXCEPT ![tlb_hash(v)] =
     {[asid |-> asid, global |-> l.global, vpn |-> v, level |-> l.level,
       ppn |-> Aligned(p.ppn, l.level), pte |-> p, slot |-> l.slot]}]

add_to_TLB(v, l, p) ==
  [tlb EXCEPT ![tlb_hash(v)] =
     {[asid |-> asid, global |-> l.global, vpn |-> Aligned(v, l.level), level |-> l.level,
       ppn |-> Aligned(p.ppn, l.level), pte |-> p, slot |-> l.slot]}]

PteWritable(slot) == slot[1] \notin ReadOnlyTables
-----------------------------------------------------------------------------
(* Translations: each leaves the TLB, the tables and the outcome. *)

Fails(e) == [tag |-> e, page |-> 0, tlb |-> tlb, ptes |-> ptes]

(* Mutant: the new A and D bits stay in the TLB. *)
WriteBack_TlbOnly(slot, p) == ptes

WriteBack(slot, p) == [ptes EXCEPT ![slot] = p]

translate_TLB_hit(e, v, c) ==
  LET p == update_PTE_Bits(e.pte, c)
      page == PageOf(e.ppn, e.level, v)
  IN  IF ~check_PTE_permission(e.pte, c) THEN Fails("PTW_No_Permission")
      ELSE IF ~NeedsUpdate(e.pte, c)
      THEN [tag |-> "TR_Address", page |-> page, tlb |-> tlb, ptes |-> ptes]
      ELSE IF ~plat_enable_dirty_update THEN Fails("PTW_PTE_Update")
      ELSE [tag  |-> IF PteWritable(e.slot) THEN "TR_Address" ELSE "internal_error",
            page |-> page,
            tlb  |-> [tlb EXCEPT ![tlb_hash(v)] = {[e EXCEPT !.pte = p]}],
            ptes |-> IF PteWritable(e.slot) THEN WriteBack(e.slot, p) ELSE ptes]

translate_TLB_miss(v, c) ==
  LET l == pt_walk(asid, v, c)
      p == update_PTE_Bits(l.pte, c)
  IN  IF l.tag # "Leaf" THEN Fails(l.tag)
      ELSE IF ~NeedsUpdate(l.pte, c)
      THEN [tag |-> "TR_Address", page |-> PageOf(l.pte.ppn, l.level, v),
            tlb |-> add_to_TLB(v, l, l.pte), ptes |-> ptes]
      ELSE IF ~plat_enable_dirty_update THEN Fails("PTW_PTE_Update")
      ELSE IF ~PteWritable(l.slot) THEN Fails("PTW_Access")
      ELSE [tag |-> "TR_Address", page |-> PageOf(l.pte.ppn, l.level, v),
            tlb |-> add_to_TLB(v, l, p), ptes |-> WriteBack(l.slot, p)]

translate(v, c) ==
  IF lookup_TLB(asid, v) # {}
  THEN translate_TLB_hit(CHOOSE e \in lookup_TLB(asid, v) : TRUE, v, c)
  ELSE translate_TLB_miss(v, c)
-----------------------------------------------------------------------------
(* The hart and the software on it. *)

Contexts == [ac : {"Read", "Write", "ReadWrite", "Execute"}, priv : {"User", "Supervisor"},
             mxr : BOOLEAN, sum : BOOLEAN]

Kinds == {"local", "global"}

MayUse(v) == \A k \in Kinds : <<asid, v, k>> \notin unfenced

translateAddr(v, c) ==
  /\ ~internal_error
  /\ MayUse(v)
  /\ LET r == translate(v, c)
     IN  /\ tlb' = r.tlb
         /\ ptes' = r.ptes
         /\ internal_error' = (r.tag = "internal_error")
         /\ written' = IF r.tag = "TR_Address" /\ Writes(c)
                       THEN written \cup {Leaf(ptes, asid, v).slot} ELSE written
  /\ UNCHANGED <<asid, unfenced>>

WriteSatp(a) ==
  /\ ~internal_error
  /\ asid' = a
  /\ UNCHANGED <<ptes, tlb, internal_error, unfenced, written>>

(* SFENCE.VMA where it does not trap (M, or S with TVM clear; a trap       *)
(* leaves all of this alone): flush_TLB, and what it lets software rely on. *)
SfenceVma(as, vs) ==
  /\ ~internal_error
  /\ tlb' = [i \in DOMAIN tlb |-> {e \in tlb[i] : ~flush_TLB_Entry(e, as, vs)}]
  /\ unfenced' = {u \in unfenced : \/ as # {} /\ (u[1] \notin as \/ u[3] = "global")
                                   \/ vs # {} /\ u[2] \notin vs}
  /\ UNCHANGED <<ptes, asid, internal_error, written>>

IsGlobal(l) == l.tag = "Leaf" /\ l.global

GlobalsAgree(m) ==
  \A v \in VPages : \A a, b \in Asids : IsGlobal(Leaf(m, a, v)) => Leaf(m, a, v) = Leaf(m, b, v)

ASSUME GlobalsAssumption == GlobalsAgree(InitPtes)

(* Software stores p to a PTE. *)
EditPte(s, p) ==
  /\ ~internal_error
  /\ ptes' = [ptes EXCEPT ![s] = p]
  /\ GlobalsAgree(ptes')
  /\ unfenced' = unfenced \cup
       {u \in Asids \X VPages \X Kinds :
          LET old == Leaf(ptes, u[1], u[2])
              new == Leaf(ptes', u[1], u[2])
          IN  old # new /\ (u[3] = "global" <=> IsGlobal(old) \/ IsGlobal(new))}
  /\ written' = written \ {s}
  /\ UNCHANGED <<tlb, asid, internal_error>>

(* init_vmem *)
Init ==
  /\ ptes = InitPtes
  /\ tlb = [i \in 0 .. NTlb - 1 |-> {}]
  /\ asid \in Asids
  /\ internal_error = FALSE
  /\ unfenced = {} /\ written = {}

Next ==
  \/ \E v \in VPages, c \in Contexts : translateAddr(v, c)
  \/ \E a \in Asids : WriteSatp(a)
  \/ SfenceVma({}, {})
  \/ \E v \in VPages : SfenceVma({}, {v})
  \/ \E a \in Asids : SfenceVma({a}, {})
  \/ \E a \in Asids, v \in VPages : SfenceVma({a}, {v})
  \/ \E s \in DOMAIN PteInputs : \E p \in PteInputs[s] : EditPte(s, p)

Spec == Init /\ [][Next]_vars
-----------------------------------------------------------------------------
(* The TLB holds leaves with their A bit set, tagged by aligned addresses. *)
TypeOK ==
  /\ ptes \in [Slots -> Pte]
  /\ asid \in Asids
  /\ internal_error \in BOOLEAN
  /\ unfenced \subseteq Asids \X VPages \X Kinds
  /\ written \subseteq Slots
  /\ \A i \in DOMAIN tlb :
       /\ Cardinality(tlb[i]) <= 1
       /\ \A e \in tlb[i] : /\ e.pte.V = 1 /\ e.pte.A = 1 /\ ~pte_is_ptr(e.pte)
                            /\ e.vpn = Aligned(e.vpn, e.level)
                            /\ e.ppn = Aligned(e.ppn, e.level)

(* The outcome without a TLB: "Without TLBs, this can be replaced ..." *)
Outcome(r) == <<r.tag, r.page>>

(* The TLB is transparent: for every translation software has fenced, with *)
(* whichever form of SFENCE.VMA, every kind of access has the outcome the  *)
(* page-table walk gives, superpages and address spaces included.          *)
TlbTransparent ==
  \A v \in VPages : MayUse(v) =>
    \A c \in Contexts : Outcome(translate(v, c)) = Outcome(translate_TLB_miss(v, c))

(* No write is forgotten: a page that was written through since software   *)
(* last set its PTE is marked dirty in memory, whichever of the TLB's      *)
(* copies of the PTE the write went through.                               *)
DirtyRecorded == \A s \in written : ptes[s].D = 1 /\ ptes[s].A = 1

(* A PTE in the TLB can always be written back: internal_error("invalid    *)
(* physical address in TLB") is never reached.                             *)
NoInternalError == ~internal_error
=============================================================================
