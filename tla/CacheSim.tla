------------------------------ MODULE CacheSim ------------------------------
(***************************************************************************)
(* The cache simulator: two first-level caches, ic and dc, that share a    *)
(* second-level cache l2 as their miss handler.  The simulator stores tags *)
(* only; the program's data never passes through it.  What it claims to    *)
(* simulate is a write-back hierarchy, so the model adds the data as       *)
(* ghost state: for every line, whether the copy a level holds is the      *)
(* newest one.                                                             *)
(*                                                                         *)
(* Addresses are line numbers (addr >> idx_shift).  The way victimize      *)
(* takes from its LFSR is any way.                                         *)
(***************************************************************************)
EXTENDS Integers, FiniteSets

CONSTANTS
  LineNos,           \* the memory lines of the instance (a bound)
  Sets, Ways         \* geometry: cache name -> number of sets, of ways

Caches == {"ic", "dc", "l2"}

ASSUME GeometryAssumption ==
  /\ LineNos # {} /\ LineNos \subseteq Nat
  /\ Sets \in [Caches -> Nat \ {0}]
  /\ Ways \in [Caches -> Nat \ {0}]

WaysOf(c)  == 0 .. Ways[c] - 1
SlotsOf(c) == (0 .. Sets[c] - 1) \X WaysOf(c)
Entry      == [valid : BOOLEAN, dirty : BOOLEAN, line : LineNos]
Fresh      == [LineNos -> BOOLEAN]

VARIABLE hier   \* the tags of the three caches, and the ghost freshness of
                \* dc's copy, of l2's copy and of memory
-----------------------------------------------------------------------------
idx(c, l) == l % Sets[c]

(* Mutant: the comparison does not mask the dirty bit. *)
HitWays_Unmasked(t, c, l) ==
  {w \in WaysOf(c) : t[<<idx(c, l), w>>] = [valid |-> TRUE, dirty |-> FALSE, line |-> l]}

(* check_tag: the ways of l's set that hold l. *)
HitWays(t, c, l) ==
  {w \in WaysOf(c) : t[<<idx(c, l), w>>].valid /\ t[<<idx(c, l), w>>].line = l}

Hit(t, c, l) == HitWays(t, c, l) # {}

(* Mutant: the dirty bit is never set. *)
MarkDirty_Never(t, c, l) == t

(* *check_tag(addr) |= DIRTY: the first of the ways that match. *)
MarkDirty(t, c, l) ==
  LET first == CHOOSE w \in HitWays(t, c, l) : \A x \in HitWays(t, c, l) : w <= x
  IN  [t EXCEPT ![<<idx(c, l), first>>].dirty = TRUE]

(* victimize: l takes the place of the victim, clean. *)
victimize(t, c, l, w) ==
  [t EXCEPT ![<<idx(c, l), w>>] = [valid |-> TRUE, dirty |-> FALSE, line |-> l]]

Victim(t, c, l, w) == t[<<idx(c, l), w>>]

(* Mutant: a victim that was never filled is written back too. *)
MustWriteBack_Valid(e) == e.valid

MustWriteBack(e) == e.valid /\ e.dirty

(* access on l2, which has no miss handler: its dirty victims go to        *)
(* memory.  A store is the write-back of dc's copy of l.                   *)
L2Access(h, l, store, w) ==
  IF Hit(h.l2, "l2", l)
  THEN IF store THEN [h EXCEPT !.l2 = MarkDirty(h.l2, "l2", l), !.l2F[l] = h.dcF[l]]
                ELSE h
  ELSE LET v   == Victim(h.l2, "l2", l, w)
           t   == victimize(h.l2, "l2", l, w)
           mem == IF MustWriteBack(v)
                  THEN [h.memF EXCEPT ![v.line] = h.l2F[v.line]] ELSE h.memF
       IN  [h EXCEPT !.l2   = IF store THEN MarkDirty(t, "l2", l) ELSE t,
                     !.memF = mem,
                     !.l2F[l] = IF store THEN h.dcF[l] ELSE mem[l]]

(* A store makes dc's copy of l the newest one. *)
Stored(h, l) ==
  [h EXCEPT !.dc = MarkDirty(h.dc, "dc", l),
            !.dcF[l] = TRUE, !.l2F[l] = FALSE, !.memF[l] = FALSE]

(* The miss path of access on dc: l takes the victim's place and the       *)
(* victim is written back to l2 if it is dirty ...                         *)
DcEvict(h, l, w, w1) ==
  LET v  == Victim(h.dc, "dc", l, w)
      h1 == [h EXCEPT !.dc = victimize(h.dc, "dc", l, w)]
  IN  IF MustWriteBack(v) THEN L2Access(h1, v.line, TRUE, w1) ELSE h1

(* ... and then l is read from l2. *)
DcMiss(h, l, w, w1, w2) ==
  LET h2 == L2Access(DcEvict(h, l, w, w1), l, FALSE, w2)
  IN  [h2 EXCEPT !.dcF[l] = h2.l2F[l]]

(* The miss path of access on ic, which is only ever read. *)
IcEvict(h, l, w) == [h EXCEPT !.ic = victimize(h.ic, "ic", l, w)]

IcMiss(h, l, w, w2) == L2Access(IcEvict(h, l, w), l, FALSE, w2)
-----------------------------------------------------------------------------
NoEntry == [valid |-> FALSE, dirty |-> FALSE, line |-> CHOOSE l \in LineNos : TRUE]

Init ==
  hier = [ic |-> [s \in SlotsOf("ic") |-> NoEntry],
          dc |-> [s \in SlotsOf("dc") |-> NoEntry],
          l2 |-> [s \in SlotsOf("l2") |-> NoEntry],
          dcF  |-> [l \in LineNos |-> FALSE],
          l2F  |-> [l \in LineNos |-> FALSE],
          memF |-> [l \in LineNos |-> TRUE]]

(* Hits leave the tags alone, except for the dirty bit of a store. *)
ReadHit(c, l) == Hit(hier[c], c, l) /\ UNCHANGED hier

WriteHit(l) == Hit(hier.dc, "dc", l) /\ hier' = Stored(hier, l)

dc_read(l, w, w1, w2) ==
  ~Hit(hier.dc, "dc", l) /\ hier' = DcMiss(hier, l, w, w1, w2)

dc_write(l, w, w1, w2) ==
  ~Hit(hier.dc, "dc", l) /\ hier' = Stored(DcMiss(hier, l, w, w1, w2), l)

ic_read(l, w, w2) ==
  ~Hit(hier.ic, "ic", l) /\ hier' = IcMiss(hier, l, w, w2)

Next ==
  \E l \in LineNos :
    \/ \E c \in {"ic", "dc"} : ReadHit(c, l)
    \/ WriteHit(l)
    \/ \E w \in WaysOf("dc"), w1, w2 \in WaysOf("l2") :
         dc_read(l, w, w1, w2) \/ dc_write(l, w, w1, w2)
    \/ \E w \in WaysOf("ic"), w2 \in WaysOf("l2") : ic_read(l, w, w2)

Spec == Init /\ [][Next]_hier
-----------------------------------------------------------------------------
(* The tags are well formed, only what was filled is dirty, and ic, which  *)
(* has no stores, is never dirty: nothing else is ever written back.       *)
TypeOK ==
  /\ hier.ic \in [SlotsOf("ic") -> Entry]
  /\ hier.dc \in [SlotsOf("dc") -> Entry]
  /\ hier.l2 \in [SlotsOf("l2") -> Entry]
  /\ hier.dcF \in Fresh /\ hier.l2F \in Fresh /\ hier.memF \in Fresh
  /\ \A s \in SlotsOf("ic") : ~hier.ic[s].dirty
  /\ \A c \in Caches : \A s \in SlotsOf(c) : hier[c][s].dirty => hier[c][s].valid

(* A line is in at most one way, of its own set, of each cache: check_tag  *)
(* and the final *check_tag(addr) |= DIRTY then mean the same entry.       *)
NoDuplicates ==
  \A c \in Caches : \A s1, s2 \in SlotsOf(c) :
    (hier[c][s1].valid /\ hier[c][s2].valid /\ hier[c][s1].line = hier[c][s2].line)
      => s1 = s2

Below(l) == IF Hit(hier.l2, "l2", l) THEN hier.l2F[l] ELSE hier.memF[l]

(* No store is lost: a load always finds the newest data in the first      *)
(* level that holds its line, however victims and write-backs interleave.  *)
NoLostStore ==
  \A l \in LineNos : IF Hit(hier.dc, "dc", l) THEN hier.dcF[l] ELSE Below(l)

(* The strengthening that makes NoLostStore inductive: a clean copy has    *)
(* the newest data below it too.                                           *)
CleanIsBacked ==
  \A l \in LineNos :
    /\ \A s \in SlotsOf("dc") :
         (hier.dc[s].valid /\ hier.dc[s].line = l /\ ~hier.dc[s].dirty) => Below(l)
    /\ \A s \in SlotsOf("l2") :
         (hier.l2[s].valid /\ hier.l2[s].line = l /\ ~hier.l2[s].dirty /\ hier.l2F[l])
           => hier.memF[l]
=============================================================================
