---------------------------- MODULE CacheProofs -----------------------------
(***************************************************************************)
(* Theorems about CacheSim and CacheStats, for any geometry of the three   *)
(* caches, any set of lines and any number of accesses.                    *)
(*                                                                         *)
(* The argument is about one tag array at a time: what victimize and the   *)
(* marking of a line do to the lines it holds and to those that are dirty. *)
(* The freshness of the three levels is then an argument about sets of     *)
(* lines only.                                                             *)
(***************************************************************************)
EXTENDS CacheStats, FiniteSetTheorems, TLAPS

Tags(c) == [SlotsOf(c) -> Entry]

(* A tag array in which a valid line sits in its own set and in one way    *)
(* only, and what is dirty is valid.                                       *)
WellPlaced(t, c) ==
  /\ t \in Tags(c)
  /\ \A s \in SlotsOf(c) : t[s].valid => s[1] = idx(c, t[s].line)
  /\ \A s1, s2 \in SlotsOf(c) :
       (t[s1].valid /\ t[s2].valid /\ t[s1].line = t[s2].line) => s1 = s2
  /\ \A s \in SlotsOf(c) : t[s].dirty => t[s].valid

(* Is the cache's copy of l dirty? *)
Dirty(t, c, l) == \E s \in SlotsOf(c) : t[s].valid /\ t[s].line = l /\ t[s].dirty

(* A line's set and any way of it are a slot. *)
LEMMA SlotType ==
  ASSUME NEW c \in Caches, NEW l \in LineNos, NEW w \in WaysOf(c)
  PROVE  <<idx(c, l), w>> \in SlotsOf(c)
  <1>1. l \in Int /\ Sets[c] \in Int /\ Sets[c] > 0 BY GeometryAssumption
  <1>2. idx(c, l) \in 0 .. Sets[c] - 1 BY <1>1 DEF idx
  <1> QED BY <1>2 DEF SlotsOf

(* check_tag looks at one set only, and misses no slot that holds the line. *)
LEMMA HitIsHeld ==
  ASSUME NEW c \in Caches, NEW t, WellPlaced(t, c), NEW l \in LineNos
  PROVE  Hit(t, c, l) <=> \E s \in SlotsOf(c) : t[s].valid /\ t[s].line = l
  <1>1. ASSUME Hit(t, c, l) PROVE \E s \in SlotsOf(c) : t[s].valid /\ t[s].line = l
    <2>1. PICK w \in WaysOf(c) : t[<<idx(c, l), w>>].valid /\ t[<<idx(c, l), w>>].line = l
      BY <1>1 DEF Hit, HitWays
    <2> QED BY <2>1, SlotType
  <1>2. ASSUME NEW s \in SlotsOf(c), t[s].valid, t[s].line = l PROVE Hit(t, c, l)
    <2>1. s[1] = idx(c, l) BY <1>2 DEF WellPlaced
    <2>2. s = <<s[1], s[2]>> /\ s[2] \in WaysOf(c) BY DEF SlotsOf
    <2>3. s[2] \in HitWays(t, c, l) BY <1>2, <2>1, <2>2 DEF HitWays
    <2> QED BY <2>3 DEF Hit
  <1> QED BY <1>1, <1>2

(* The slot that is marked dirty is the one that holds the line. *)
LEMMA MarkDirtySlot ==
  ASSUME NEW c \in Caches, NEW t, WellPlaced(t, c), NEW l \in LineNos, Hit(t, c, l)
  PROVE  \E k \in SlotsOf(c) : /\ t[k].valid /\ t[k].line = l
                               /\ MarkDirty(t, c, l) = [t EXCEPT ![k].dirty = TRUE]
  <1> DEFINE least(w) == \A x \in HitWays(t, c, l) : w <= x
             first == CHOOSE w \in HitWays(t, c, l) : least(w)
  <1>1. PICK w \in HitWays(t, c, l) : TRUE BY DEF Hit
  <1>2. ASSUME NEW x \in HitWays(t, c, l) PROVE x = w
    <2>1. x \in WaysOf(c) /\ w \in WaysOf(c) BY DEF HitWays
    <2>2. <<idx(c, l), x>> \in SlotsOf(c) /\ <<idx(c, l), w>> \in SlotsOf(c)
      BY <2>1, SlotType
    <2>3. <<idx(c, l), x>> = <<idx(c, l), w>>
      BY <1>1, <2>2 DEF HitWays, WellPlaced
    <2> QED BY <2>3
  <1>3. w \in WaysOf(c) /\ w \in Int BY GeometryAssumption DEF HitWays, WaysOf
  <1>4. w <= w BY <1>3
  <1>5. least(w) BY <1>2, <1>4
  <1>6. first \in HitWays(t, c, l) BY <1>1, <1>5
  <1> DEFINE k == <<idx(c, l), first>>
  <1>7. k \in SlotsOf(c) /\ t[k].valid /\ t[k].line = l
    BY <1>6, SlotType DEF HitWays
  <1>8. MarkDirty(t, c, l) = [t EXCEPT ![k].dirty = TRUE] BY DEF MarkDirty
  <1> HIDE DEF k
  <1> QED BY <1>7, <1>8

(* *check_tag(addr) |= DIRTY changes no line and makes one copy dirty.     *)
LEMMA MarkDirtyTags ==
  ASSUME NEW c \in Caches, NEW t, WellPlaced(t, c), NEW l \in LineNos, Hit(t, c, l)
  PROVE  /\ WellPlaced(MarkDirty(t, c, l), c)
         /\ \A x \in LineNos : Hit(MarkDirty(t, c, l), c, x) <=> Hit(t, c, x)
         /\ \A x \in LineNos : Dirty(MarkDirty(t, c, l), c, x) <=> Dirty(t, c, x) \/ x = l
  <1>1. PICK k \in SlotsOf(c) : /\ t[k].valid /\ t[k].line = l
                                /\ MarkDirty(t, c, l) = [t EXCEPT ![k].dirty = TRUE]
    BY MarkDirtySlot
  <1> DEFINE u == MarkDirty(t, c, l)
  <1>2. t \in Tags(c) /\ t[k] \in Entry BY DEF WellPlaced, Tags
  <1>3. /\ u \in Tags(c)
        /\ u[k] = [valid |-> TRUE, dirty |-> TRUE, line |-> l]
        /\ \A s \in SlotsOf(c) : s # k => u[s] = t[s]
    <2>1. u[k] = [t[k] EXCEPT !.dirty = TRUE] /\ \A s \in SlotsOf(c) : s # k => u[s] = t[s]
      BY <1>1, <1>2 DEF Tags
    <2>2. u[k] = [valid |-> TRUE, dirty |-> TRUE, line |-> l]
      BY <1>1, <1>2 DEF Tags, Entry
    <2>3. u \in Tags(c)
      BY <1>1, <1>2 DEF Tags, Entry
    <2> QED BY <2>1, <2>2, <2>3
  <1> HIDE DEF u
  <1>4. ASSUME NEW s \in SlotsOf(c)
        PROVE  (u[s].valid <=> t[s].valid) /\ u[s].line = t[s].line
    <2>1. CASE s = k BY <1>1, <1>3, <2>1
    <2>2. CASE s # k BY <1>3, <2>2
    <2> QED BY <2>1, <2>2
  <1>5. WellPlaced(u, c) BY <1>3, <1>4 DEF WellPlaced
  <1>6. \A x \in LineNos : Hit(u, c, x) <=> Hit(t, c, x) BY <1>4, <1>5, HitIsHeld
  <1>7. ASSUME NEW x \in LineNos PROVE Dirty(u, c, x) <=> Dirty(t, c, x) \/ x = l
    BY <1>1, <1>3 DEF Dirty, WellPlaced
  <1> QED BY <1>5, <1>6, <1>7 DEF u

(* victimize exchanges the victim for a clean copy of the missing line.    *)
LEMMA VictimizeTags ==
  ASSUME NEW c \in Caches, NEW t, WellPlaced(t, c), NEW l \in LineNos, ~Hit(t, c, l),
         NEW w \in WaysOf(c)
  PROVE  LET u == victimize(t, c, l, w)
             v == Victim(t, c, l, w)
         IN  /\ v \in Entry
             /\ v.dirty => v.valid
             /\ v.valid => Hit(t, c, v.line) /\ v.line # l /\ (v.dirty <=> Dirty(t, c, v.line))
             /\ WellPlaced(u, c)
             /\ \A x \in LineNos : Hit(u, c, x) <=> x = l \/ (Hit(t, c, x) /\ ~(v.valid /\ v.line = x))
             /\ \A x \in LineNos : Dirty(u, c, x) <=> Dirty(t, c, x) /\ ~(v.valid /\ v.line = x)
             /\ ~Dirty(u, c, l)
  <1> DEFINE k == <<idx(c, l), w>>
             u == victimize(t, c, l, w)
             v == Victim(t, c, l, w)
             new == [valid |-> TRUE, dirty |-> FALSE, line |-> l]
  <1>1. k \in SlotsOf(c) /\ k[1] = idx(c, l) BY SlotType
  <1>2. t \in Tags(c) /\ new \in Entry BY DEF WellPlaced, Entry
  <1>3. u = [t EXCEPT ![k] = new] /\ v = t[k] BY DEF victimize, Victim
  <1>4. \A s \in SlotsOf(c) : t[s].valid => t[s].line # l BY HitIsHeld
  <1> HIDE DEF k, u, v
  <1>5. u \in Tags(c) /\ u[k] = new /\ \A s \in SlotsOf(c) : s # k => u[s] = t[s]
    BY <1>1, <1>2, <1>3 DEF Tags
  <1>6. v \in Entry /\ (v.dirty => v.valid) BY <1>1, <1>2, <1>3 DEF Tags, WellPlaced
  <1>7. ASSUME v.valid PROVE Hit(t, c, v.line) /\ v.line # l /\ (v.dirty <=> Dirty(t, c, v.line))
    <2>1. v.line \in LineNos BY <1>6 DEF Entry
    <2>2. Hit(t, c, v.line) BY <1>1, <1>3, <1>7, <2>1, HitIsHeld
    <2> QED BY <1>1, <1>3, <1>4, <1>7, <2>2 DEF Dirty, WellPlaced
  <1>8. WellPlaced(u, c) BY <1>1, <1>4, <1>5 DEF WellPlaced
  <1>9. ASSUME NEW x \in LineNos
        PROVE  Hit(u, c, x) <=> x = l \/ (Hit(t, c, x) /\ ~(v.valid /\ v.line = x))
    <2>1. (\E s \in SlotsOf(c) : u[s].valid /\ u[s].line = x)
            <=> x = l \/ ((\E s \in SlotsOf(c) : t[s].valid /\ t[s].line = x)
                            /\ ~(v.valid /\ v.line = x))
      BY <1>1, <1>3, <1>4, <1>5 DEF WellPlaced
    <2> QED BY <1>8, <2>1, HitIsHeld
  <1>10. ASSUME NEW x \in LineNos
         PROVE  Dirty(u, c, x) <=> Dirty(t, c, x) /\ ~(v.valid /\ v.line = x)
    BY <1>1, <1>3, <1>4, <1>5 DEF WellPlaced, Dirty
  <1>11. ~Dirty(u, c, l) BY <1>4, <1>5 DEF Dirty
  <1> QED BY <1>6, <1>7, <1>8, <1>9, <1>10, <1>11 DEF u, v
-----------------------------------------------------------------------------
(* Freshness.  The hierarchy is a record of three tag arrays and the three *)
(* ghosts; ic holds no dirty line because nothing stores to it.            *)
WellFormed(h) ==
  /\ h \in [ic : Tags("ic"), dc : Tags("dc"), l2 : Tags("l2"),
            dcF : Fresh, l2F : Fresh, memF : Fresh]
  /\ WellPlaced(h.ic, "ic") /\ WellPlaced(h.dc, "dc") /\ WellPlaced(h.l2, "l2")
  /\ \A s \in SlotsOf("ic") : ~h.ic[s].dirty

(* The newest data of l is in l2 or, where l2 does not hold l, in memory.  *)
BelowIn(h, l) == IF Hit(h.l2, "l2", l) THEN h.l2F[l] ELSE h.memF[l]

(* A clean copy in l2 that is the newest one is backed by memory. *)
L2Backed(h) ==
  \A l \in LineNos : (Hit(h.l2, "l2", l) /\ ~Dirty(h.l2, "l2", l) /\ h.l2F[l]) => h.memF[l]

(* dc is right about every line but those of odd; an odd line is right     *)
(* below.  odd is empty between accesses.                                  *)
DcRight(h, odd) ==
  \A l \in LineNos :
    /\ (Hit(h.dc, "dc", l) /\ l \notin odd) => h.dcF[l]
    /\ (~Hit(h.dc, "dc", l) \/ ~Dirty(h.dc, "dc", l) \/ l \in odd) => BelowIn(h, l)

(* What an access to l2 may change: the newest data stays below dc. *)
BelowKept(h, g) ==
  /\ g.ic = h.ic /\ g.dc = h.dc /\ g.dcF = h.dcF
  /\ \A x \in LineNos : BelowIn(h, x) => BelowIn(g, x)

(* access on l2, as a fill or as the write-back of a copy of dc that is    *)
(* the newest one: l is then held, and no line loses its newest data.      *)
LEMMA L2AccessStep ==
  ASSUME NEW h, WellFormed(h), L2Backed(h), NEW l \in LineNos, NEW w \in WaysOf("l2"),
         NEW store \in BOOLEAN, store => h.dcF[l]
  PROVE  LET g == L2Access(h, l, store, w)
         IN  /\ WellFormed(g) /\ L2Backed(g) /\ BelowKept(h, g)
             /\ Hit(g.l2, "l2", l)
             /\ store => BelowIn(g, l)
  <1> DEFINE g == L2Access(h, l, store, w)
  <1>0. /\ "l2" \in Caches /\ WellPlaced(h.l2, "l2") /\ h.l2F \in Fresh /\ h.memF \in Fresh
        /\ h.dcF \in Fresh
    BY DEF Caches, WellFormed
  <1>1. CASE Hit(h.l2, "l2", l) /\ ~store
    <2>1. g = h BY <1>1 DEF L2Access
    <2> HIDE DEF g
    <2> QED BY <1>1, <2>1 DEF BelowKept, g
  <1>2. CASE Hit(h.l2, "l2", l) /\ store
    <2> DEFINE t == MarkDirty(h.l2, "l2", l)
    <2>1. g = [h EXCEPT !.l2 = t, !.l2F = [h.l2F EXCEPT ![l] = h.dcF[l]]]
      BY <1>2 DEF L2Access
    <2>2. /\ WellPlaced(t, "l2")
          /\ \A x \in LineNos : Hit(t, "l2", x) <=> Hit(h.l2, "l2", x)
          /\ \A x \in LineNos : Dirty(t, "l2", x) <=> Dirty(h.l2, "l2", x) \/ x = l
      BY <1>0, <1>2, MarkDirtyTags
    <2> HIDE DEF t, g
    <2>3. /\ g.ic = h.ic /\ g.dc = h.dc /\ g.dcF = h.dcF /\ g.memF = h.memF
          /\ g.l2 = t /\ g.l2F = [h.l2F EXCEPT ![l] = h.dcF[l]]
      BY <2>1 DEF WellFormed
    <2>4. g.l2F \in Fresh /\ g.l2F[l] /\ \A x \in LineNos : x # l => g.l2F[x] = h.l2F[x]
      BY <1>0, <1>2, <2>3 DEF Fresh
    <2>5. WellFormed(g)
      BY <2>1, <2>2, <2>3, <2>4 DEF WellFormed, WellPlaced
    <2>6. L2Backed(g) BY <2>2, <2>3, <2>4 DEF L2Backed
    <2>7. BelowKept(h, g) /\ Hit(g.l2, "l2", l) /\ BelowIn(g, l)
      BY <1>2, <2>2, <2>3, <2>4 DEF BelowKept, BelowIn
    <2> QED BY <2>5, <2>6, <2>7 DEF g
  <1>3. CASE ~Hit(h.l2, "l2", l)
    <2> DEFINE v   == Victim(h.l2, "l2", l, w)
               t   == victimize(h.l2, "l2", l, w)
               mem == IF MustWriteBack(v)
                      THEN [h.memF EXCEPT ![v.line] = h.l2F[v.line]] ELSE h.memF
               u   == IF store THEN MarkDirty(t, "l2", l) ELSE t
               f   == IF store THEN h.dcF[l] ELSE mem[l]
    <2>1. g = [h EXCEPT !.l2 = u, !.memF = mem, !.l2F = [h.l2F EXCEPT ![l] = f]]
      BY <1>3 DEF L2Access
    <2>2. /\ v \in Entry
          /\ v.dirty => v.valid
          /\ v.valid => Hit(h.l2, "l2", v.line) /\ v.line # l
                        /\ (v.dirty <=> Dirty(h.l2, "l2", v.line))
          /\ WellPlaced(t, "l2")
          /\ \A x \in LineNos : Hit(t, "l2", x)
               <=> x = l \/ (Hit(h.l2, "l2", x) /\ ~(v.valid /\ v.line = x))
          /\ \A x \in LineNos : Dirty(t, "l2", x)
               <=> Dirty(h.l2, "l2", x) /\ ~(v.valid /\ v.line = x)
          /\ ~Dirty(t, "l2", l)
      BY <1>0, <1>3, VictimizeTags
    <2> HIDE DEF g, v, t
    <2>3. /\ WellPlaced(u, "l2")
          /\ \A x \in LineNos : Hit(u, "l2", x) <=> Hit(t, "l2", x)
          /\ \A x \in LineNos : Dirty(u, "l2", x) <=> Dirty(t, "l2", x) \/ (store /\ x = l)
      <3>1. Hit(t, "l2", l) BY <2>2
      <3> QED BY <1>0, <2>2, <3>1, MarkDirtyTags
    <2>4. /\ mem \in Fresh
          /\ MustWriteBack(v) => mem[v.line] = h.l2F[v.line]
          /\ \A x \in LineNos : ~(MustWriteBack(v) /\ x = v.line) => mem[x] = h.memF[x]
      BY <1>0, <2>2 DEF Fresh, Entry
    <2>5. f \in BOOLEAN /\ (store => f) /\ (~store => f = h.memF[l])
      <3>1. mem[l] = h.memF[l] BY <2>2, <2>4 DEF MustWriteBack
      <3> QED BY <1>0, <3>1 DEF Fresh
    <2> HIDE DEF mem, u, f
    <2>6. /\ g.ic = h.ic /\ g.dc = h.dc /\ g.dcF = h.dcF /\ g.memF = mem
          /\ g.l2 = u /\ g.l2F = [h.l2F EXCEPT ![l] = f]
      BY <2>1 DEF WellFormed
    <2>7. g.l2F \in Fresh /\ g.l2F[l] = f /\ \A x \in LineNos : x # l => g.l2F[x] = h.l2F[x]
      BY <1>0, <2>5, <2>6 DEF Fresh
    <2>8. WellFormed(g)
      BY <2>1, <2>3, <2>4, <2>6, <2>7 DEF WellFormed, WellPlaced
    <2>9. Hit(g.l2, "l2", l) BY <2>2, <2>3, <2>6
    <2>10. L2Backed(g)
      <3> SUFFICES ASSUME NEW x \in LineNos, Hit(g.l2, "l2", x), ~Dirty(g.l2, "l2", x), g.l2F[x]
                   PROVE  g.memF[x]
        BY DEF L2Backed
      <3>1. CASE x = l
        BY <2>2, <2>3, <2>4, <2>5, <2>6, <2>7, <3>1 DEF MustWriteBack
      <3>2. CASE x # l
        <4>1. /\ Hit(h.l2, "l2", x) /\ ~Dirty(h.l2, "l2", x) /\ ~(v.valid /\ v.line = x)
              /\ h.l2F[x]
          BY <2>2, <2>3, <2>6, <2>7, <3>2
        <4> QED BY <2>4, <2>6, <4>1 DEF L2Backed, MustWriteBack
      <3> QED BY <3>1, <3>2
    <2>11. ASSUME NEW x \in LineNos, BelowIn(h, x) PROVE BelowIn(g, x)
      <3>1. CASE x = l
        BY <1>3, <2>5, <2>7, <2>9, <2>11, <3>1 DEF BelowIn
      <3>2. CASE x # l /\ v.valid /\ v.line = x
        <4>1. ~Hit(g.l2, "l2", x) /\ Hit(h.l2, "l2", x) /\ h.l2F[x]
          BY <2>2, <2>3, <2>6, <2>11, <3>2 DEF BelowIn
        <4>2. g.memF[x]
          BY <2>2, <2>4, <2>6, <3>2, <4>1 DEF MustWriteBack, L2Backed
        <4> QED BY <4>1, <4>2 DEF BelowIn
      <3>3. CASE x # l /\ ~(v.valid /\ v.line = x)
        BY <2>2, <2>3, <2>4, <2>6, <2>7, <2>11, <3>3 DEF BelowIn, MustWriteBack
      <3> QED BY <3>1, <3>2, <3>3
    <2>12. store => BelowIn(g, l) BY <2>5, <2>7, <2>9 DEF BelowIn
    <2> QED BY <2>6, <2>8, <2>9, <2>10, <2>11, <2>12 DEF BelowKept, g
  <1> QED BY <1>1, <1>2, <1>3

(* The invariant of one hierarchy between accesses. *)
HierInv(h) == WellFormed(h) /\ L2Backed(h) /\ DcRight(h, {})

(* The first half of a miss in dc: the victim's newest data is below, and  *)
(* the new line's is too.                                                  *)
LEMMA DcEvictStep ==
  ASSUME NEW h, HierInv(h), NEW l \in LineNos, ~Hit(h.dc, "dc", l),
         NEW w \in WaysOf("dc"), NEW w1 \in WaysOf("l2")
  PROVE  LET g == DcEvict(h, l, w, w1)
         IN  WellFormed(g) /\ L2Backed(g) /\ DcRight(g, {l}) /\ Hit(g.dc, "dc", l)
  <1> DEFINE v  == Victim(h.dc, "dc", l, w)
             t  == victimize(h.dc, "dc", l, w)
             h1 == [h EXCEPT !.dc = t]
             g  == DcEvict(h, l, w, w1)
  <1>0. "dc" \in Caches /\ WellPlaced(h.dc, "dc") /\ WellFormed(h) /\ L2Backed(h) /\ DcRight(h, {})
    BY DEF Caches, HierInv, WellFormed
  <1>1. /\ v \in Entry
        /\ v.dirty => v.valid
        /\ v.valid => Hit(h.dc, "dc", v.line) /\ v.line # l
                      /\ (v.dirty <=> Dirty(h.dc, "dc", v.line))
        /\ WellPlaced(t, "dc")
        /\ \A x \in LineNos : Hit(t, "dc", x)
             <=> x = l \/ (Hit(h.dc, "dc", x) /\ ~(v.valid /\ v.line = x))
        /\ \A x \in LineNos : Dirty(t, "dc", x)
             <=> Dirty(h.dc, "dc", x) /\ ~(v.valid /\ v.line = x)
        /\ ~Dirty(t, "dc", l)
    BY <1>0, VictimizeTags
  <1>2. g = IF MustWriteBack(v) THEN L2Access(h1, v.line, TRUE, w1) ELSE h1 BY DEF DcEvict
  <1> HIDE DEF v, t, g
  <1>3. /\ h1.ic = h.ic /\ h1.dc = t /\ h1.l2 = h.l2
        /\ h1.dcF = h.dcF /\ h1.l2F = h.l2F /\ h1.memF = h.memF
    BY <1>0 DEF WellFormed
  <1>4. WellFormed(h1) BY <1>0, <1>1, <1>3 DEF WellFormed, WellPlaced
  <1>5. L2Backed(h1) BY <1>0, <1>3 DEF L2Backed
  <1> HIDE DEF h1
  <1>6. \A x \in LineNos : BelowIn(h1, x) <=> BelowIn(h, x) BY <1>3 DEF BelowIn
  (* What is left to show once the write-back, if any, is done. *)
  <1>7. ASSUME WellFormed(g), L2Backed(g), BelowKept(h1, g), MustWriteBack(v) => BelowIn(g, v.line)
        PROVE  WellFormed(g) /\ L2Backed(g) /\ DcRight(g, {l}) /\ Hit(g.dc, "dc", l)
    <2>1. g.dc = t /\ g.dcF = h.dcF /\ \A x \in LineNos : BelowIn(h, x) => BelowIn(g, x)
      BY <1>3, <1>6, <1>7 DEF BelowKept
    <2>2. ASSUME NEW x \in LineNos, Hit(t, "dc", x), x # l PROVE h.dcF[x]
      BY <1>0, <1>1, <2>2 DEF DcRight
    <2>3. ASSUME NEW x \in LineNos, ~Hit(t, "dc", x) \/ ~Dirty(t, "dc", x) \/ x = l
          PROVE  BelowIn(g, x)
      <3>1. CASE x = l BY <1>0, <2>1, <3>1 DEF DcRight
      <3>2. CASE x # l /\ v.valid /\ v.line = x
        <4>1. CASE v.dirty BY <1>7, <3>2, <4>1 DEF MustWriteBack
        <4>2. CASE ~v.dirty BY <1>0, <1>1, <2>1, <3>2, <4>2 DEF DcRight
        <4> QED BY <4>1, <4>2
      <3>3. CASE x # l /\ ~(v.valid /\ v.line = x)
        BY <1>0, <1>1, <2>1, <2>3, <3>3 DEF DcRight
      <3> QED BY <3>1, <3>2, <3>3
    <2>4. DcRight(g, {l}) BY <2>1, <2>2, <2>3 DEF DcRight
    <2> QED BY <1>1, <1>7, <2>1, <2>4
  <1>8. CASE MustWriteBack(v)
    <2>1. v.line \in LineNos /\ h1.dcF[v.line]
      BY <1>0, <1>1, <1>3, <1>8 DEF MustWriteBack, Entry, DcRight
    <2>2. g = L2Access(h1, v.line, TRUE, w1) BY <1>2, <1>8
    <2>3. WellFormed(g) /\ L2Backed(g) /\ BelowKept(h1, g) /\ BelowIn(g, v.line)
      BY <1>4, <1>5, <2>1, <2>2, L2AccessStep
    <2> QED BY <1>7, <2>3 DEF g
  <1>9. CASE ~MustWriteBack(v)
    <2>1. g = h1 BY <1>2, <1>9
    <2>2. BelowKept(h1, g) BY <2>1 DEF BelowKept
    <2> QED BY <1>4, <1>5, <1>7, <1>9, <2>1, <2>2 DEF g
  <1> QED BY <1>8, <1>9

(* A miss in dc ends with the newest data of the line in dc.               *)
LEMMA DcMissStep ==
  ASSUME NEW h, HierInv(h), NEW l \in LineNos, ~Hit(h.dc, "dc", l),
         NEW w \in WaysOf("dc"), NEW w1 \in WaysOf("l2"), NEW w2 \in WaysOf("l2")
  PROVE  HierInv(DcMiss(h, l, w, w1, w2)) /\ Hit(DcMiss(h, l, w, w1, w2).dc, "dc", l)
  <1> DEFINE g  == DcEvict(h, l, w, w1)
             h2 == L2Access(g, l, FALSE, w2)
             d  == DcMiss(h, l, w, w1, w2)
  <1>1. WellFormed(g) /\ L2Backed(g) /\ DcRight(g, {l}) /\ Hit(g.dc, "dc", l)
    BY DcEvictStep
  <1> HIDE DEF g
  <1>2. WellFormed(h2) /\ L2Backed(h2) /\ BelowKept(g, h2) /\ Hit(h2.l2, "l2", l)
    BY <1>1, L2AccessStep
  <1>3. d = [h2 EXCEPT !.dcF = [h2.dcF EXCEPT ![l] = h2.l2F[l]]]
    BY DEF DcMiss, g
  <1> HIDE DEF h2, d
  <1>4. h2.l2F[l] /\ h2.l2F \in Fresh /\ h2.dcF \in Fresh
    <2>1. BelowIn(g, l) BY <1>1 DEF DcRight
    <2> QED BY <1>2, <2>1 DEF BelowKept, BelowIn, WellFormed
  <1>5. /\ d.ic = h2.ic /\ d.dc = h2.dc /\ d.l2 = h2.l2 /\ d.l2F = h2.l2F /\ d.memF = h2.memF
        /\ d.dcF = [h2.dcF EXCEPT ![l] = h2.l2F[l]]
    BY <1>2, <1>3 DEF WellFormed
  <1>6. d.dcF \in Fresh /\ d.dcF[l] /\ \A x \in LineNos : x # l => d.dcF[x] = h2.dcF[x]
    BY <1>4, <1>5 DEF Fresh
  <1>7. WellFormed(d) BY <1>2, <1>3, <1>5, <1>6 DEF WellFormed
  <1>8. L2Backed(d) BY <1>2, <1>5 DEF L2Backed
  <1>9. DcRight(d, {})
    <2>1. \A x \in LineNos : BelowIn(d, x) <=> BelowIn(h2, x) BY <1>5 DEF BelowIn
    <2>2. d.dc = g.dc /\ h2.dcF = g.dcF BY <1>2, <1>5 DEF BelowKept
    <2> QED BY <1>1, <1>2, <1>6, <2>1, <2>2 DEF DcRight, BelowKept
  <1>10. Hit(d.dc, "dc", l) BY <1>1, <1>2, <1>5 DEF BelowKept
  <1> QED BY <1>7, <1>8, <1>9, <1>10 DEF HierInv, d

(* A store to a line that dc holds makes dc's copy the only new one.       *)
LEMMA StoredStep ==
  ASSUME NEW h, HierInv(h), NEW l \in LineNos, Hit(h.dc, "dc", l)
  PROVE  HierInv(Stored(h, l))
  <1> DEFINE t == MarkDirty(h.dc, "dc", l)
             g == Stored(h, l)
  <1>0. /\ "dc" \in Caches /\ WellPlaced(h.dc, "dc") /\ WellFormed(h) /\ L2Backed(h) /\ DcRight(h, {})
        /\ h.dcF \in Fresh /\ h.l2F \in Fresh /\ h.memF \in Fresh
    BY DEF Caches, HierInv, WellFormed
  <1>1. /\ WellPlaced(t, "dc")
        /\ \A x \in LineNos : Hit(t, "dc", x) <=> Hit(h.dc, "dc", x)
        /\ \A x \in LineNos : Dirty(t, "dc", x) <=> Dirty(h.dc, "dc", x) \/ x = l
    BY <1>0, MarkDirtyTags
  <1>2. g = [h EXCEPT !.dc = t, !.dcF = [h.dcF EXCEPT ![l] = TRUE],
                      !.l2F = [h.l2F EXCEPT ![l] = FALSE],
                      !.memF = [h.memF EXCEPT ![l] = FALSE]]
    BY DEF Stored
  <1> HIDE DEF t, g
  <1>3. /\ g.ic = h.ic /\ g.dc = t /\ g.l2 = h.l2
        /\ g.dcF = [h.dcF EXCEPT ![l] = TRUE]
        /\ g.l2F = [h.l2F EXCEPT ![l] = FALSE] /\ g.memF = [h.memF EXCEPT ![l] = FALSE]
    BY <1>0, <1>2 DEF WellFormed
  <1>4. /\ g.dcF \in Fresh /\ g.l2F \in Fresh /\ g.memF \in Fresh
        /\ g.dcF[l] /\ ~g.l2F[l]
        /\ \A x \in LineNos : x # l => g.dcF[x] = h.dcF[x] /\ g.l2F[x] = h.l2F[x]
                                       /\ g.memF[x] = h.memF[x]
    BY <1>0, <1>3 DEF Fresh
  <1>5. WellFormed(g)
    <2>1. t \in Tags("dc") BY <1>1 DEF WellPlaced
    <2>2. g \in [ic : Tags("ic"), dc : Tags("dc"), l2 : Tags("l2"),
                  dcF : Fresh, l2F : Fresh, memF : Fresh]
      BY <1>0, <1>2, <1>3, <1>4, <2>1 DEF WellFormed
    <2> QED BY <1>0, <1>1, <1>3, <2>2 DEF WellFormed
  <1>6. L2Backed(g) BY <1>0, <1>3, <1>4 DEF L2Backed
  <1>7. DcRight(g, {})
    <2>1. \A x \in LineNos : x # l => (BelowIn(h, x) => BelowIn(g, x)) BY <1>3, <1>4 DEF BelowIn
    <2> QED BY <1>0, <1>1, <1>3, <1>4, <2>1 DEF DcRight
  <1> QED BY <1>5, <1>6, <1>7 DEF HierInv, g

(* A miss in ic only fills l2 and ic. *)
LEMMA IcMissStep ==
  ASSUME NEW h, HierInv(h), NEW l \in LineNos, ~Hit(h.ic, "ic", l),
         NEW w \in WaysOf("ic"), NEW w2 \in WaysOf("l2")
  PROVE  HierInv(IcMiss(h, l, w, w2))
  <1> DEFINE t  == victimize(h.ic, "ic", l, w)
             h1 == [h EXCEPT !.ic = t]
             g  == IcMiss(h, l, w, w2)
  <1>0. "ic" \in Caches /\ WellPlaced(h.ic, "ic") /\ WellFormed(h) /\ L2Backed(h) /\ DcRight(h, {})
    BY DEF Caches, HierInv, WellFormed
  <1>1. WellPlaced(t, "ic") BY <1>0, VictimizeTags
  <1>2. \A s \in SlotsOf("ic") : ~t[s].dirty
    BY <1>0, SlotType DEF victimize, WellFormed, WellPlaced, Tags
  <1>3. g = L2Access(h1, l, FALSE, w2) BY DEF IcMiss, IcEvict
  <1> HIDE DEF t
  <1>4. /\ h1.ic = t /\ h1.dc = h.dc /\ h1.l2 = h.l2
        /\ h1.dcF = h.dcF /\ h1.l2F = h.l2F /\ h1.memF = h.memF
    BY <1>0 DEF WellFormed
  <1>5. WellFormed(h1) BY <1>0, <1>1, <1>2, <1>4 DEF WellFormed, WellPlaced
  <1>6. L2Backed(h1) BY <1>0, <1>4 DEF L2Backed
  <1>7. DcRight(h1, {}) BY <1>0, <1>4 DEF DcRight, BelowIn
  <1> HIDE DEF h1, g
  <1>8. WellFormed(g) /\ L2Backed(g) /\ BelowKept(h1, g) BY <1>3, <1>5, <1>6, L2AccessStep
  <1>9. DcRight(g, {}) BY <1>7, <1>8 DEF DcRight, BelowKept
  <1> QED BY <1>8, <1>9 DEF HierInv, g
-----------------------------------------------------------------------------
(* The invariant of CacheSim, and its reading as the checked properties.   *)

(* Before the first access nothing is held and memory is the newest copy.  *)
LEMMA HierInvInit == Init => HierInv(hier)
  <1> SUFFICES ASSUME Init PROVE HierInv(hier) OBVIOUS
  <1>0. NoEntry \in Entry /\ ~NoEntry.valid /\ ~NoEntry.dirty
    BY GeometryAssumption DEF NoEntry, Entry
  <1>1. ASSUME NEW c \in Caches
        PROVE  LET t == [s \in SlotsOf(c) |-> NoEntry]
               IN  WellPlaced(t, c) /\ (\A s \in SlotsOf(c) : ~t[s].dirty)
                   /\ \A l \in LineNos : ~Hit(t, c, l)
    <2> DEFINE t == [s \in SlotsOf(c) |-> NoEntry]
    <2>1. WellPlaced(t, c) BY <1>0 DEF WellPlaced, Tags
    <2>2. \A l \in LineNos : ~Hit(t, c, l) BY <1>0, <2>1, HitIsHeld
    <2> QED BY <1>0, <2>1, <2>2
  <1>2. /\ hier.ic = [s \in SlotsOf("ic") |-> NoEntry]
        /\ hier.dc = [s \in SlotsOf("dc") |-> NoEntry]
        /\ hier.l2 = [s \in SlotsOf("l2") |-> NoEntry]
        /\ hier.dcF \in Fresh /\ hier.l2F \in Fresh /\ hier.memF \in Fresh
        /\ \A l \in LineNos : hier.memF[l]
    BY DEF Init, Fresh
  <1>3. "ic" \in Caches /\ "dc" \in Caches /\ "l2" \in Caches BY DEF Caches
  <1>4. /\ WellPlaced(hier.ic, "ic") /\ WellPlaced(hier.dc, "dc") /\ WellPlaced(hier.l2, "l2")
        /\ \A s \in SlotsOf("ic") : ~hier.ic[s].dirty
        /\ \A l \in LineNos : ~Hit(hier.dc, "dc", l) /\ ~Hit(hier.l2, "l2", l)
    BY <1>1, <1>2, <1>3
  <1>5. WellFormed(hier)
    <2>1. hier = [ic |-> hier.ic, dc |-> hier.dc, l2 |-> hier.l2,
                  dcF |-> hier.dcF, l2F |-> hier.l2F, memF |-> hier.memF]
      BY DEF Init
    <2> QED BY <1>2, <1>4, <2>1 DEF WellFormed, WellPlaced
  <1>6. L2Backed(hier) /\ DcRight(hier, {})
    BY <1>2, <1>4 DEF L2Backed, DcRight, BelowIn
  <1> QED BY <1>5, <1>6 DEF HierInv

(* One access of the program keeps it: one case per kind of access. *)
LEMMA HierInvStep ==
  ASSUME HierInv(hier), [Next]_hier
  PROVE  HierInv(hier')
  <1>1. ASSUME NEW l \in LineNos, NEW c \in {"ic", "dc"}, ReadHit(c, l) PROVE HierInv(hier')
    BY <1>1 DEF ReadHit
  <1>2. ASSUME NEW l \in LineNos, WriteHit(l) PROVE HierInv(hier')
    BY <1>2, StoredStep DEF WriteHit
  <1>3. ASSUME NEW l \in LineNos, NEW w \in WaysOf("dc"), NEW w1 \in WaysOf("l2"),
               NEW w2 \in WaysOf("l2"), dc_read(l, w, w1, w2) \/ dc_write(l, w, w1, w2)
        PROVE  HierInv(hier')
    <2>1. HierInv(DcMiss(hier, l, w, w1, w2)) /\ Hit(DcMiss(hier, l, w, w1, w2).dc, "dc", l)
      BY <1>3, DcMissStep DEF dc_read, dc_write
    <2>2. HierInv(Stored(DcMiss(hier, l, w, w1, w2), l)) BY <2>1, StoredStep
    <2> QED BY <1>3, <2>1, <2>2 DEF dc_read, dc_write
  <1>4. ASSUME NEW l \in LineNos, NEW w \in WaysOf("ic"), NEW w2 \in WaysOf("l2"), ic_read(l, w, w2)
        PROVE  HierInv(hier')
    BY <1>4, IcMissStep DEF ic_read
  <1>5. CASE UNCHANGED hier BY <1>5
  <1> QED BY <1>1, <1>2, <1>3, <1>4, <1>5 DEF Next

(* HierInv gives the properties: the slots of CleanIsBacked are the ones   *)
(* check_tag finds.                                                        *)
LEMMA HierInvGives ==
  ASSUME HierInv(hier)
  PROVE  TypeOK /\ NoDuplicates /\ NoLostStore /\ CleanIsBacked
  <1>0. /\ WellFormed(hier) /\ L2Backed(hier) /\ DcRight(hier, {})
        /\ WellPlaced(hier.ic, "ic") /\ WellPlaced(hier.dc, "dc") /\ WellPlaced(hier.l2, "l2")
        /\ "ic" \in Caches /\ "dc" \in Caches /\ "l2" \in Caches
    BY DEF HierInv, WellFormed, Caches
  <1>1. \A c \in Caches : WellPlaced(hier[c], c) BY <1>0 DEF Caches
  <1>2. TypeOK BY <1>0, <1>1 DEF TypeOK, WellFormed, WellPlaced, Tags
  <1>3. NoDuplicates BY <1>1 DEF NoDuplicates, WellPlaced
  <1>4. \A l \in LineNos : Below(l) <=> BelowIn(hier, l) BY DEF Below, BelowIn
  <1>5. NoLostStore BY <1>0, <1>4 DEF NoLostStore, DcRight
  <1>6. ASSUME NEW l \in LineNos, NEW s \in SlotsOf("dc"),
               hier.dc[s].valid, hier.dc[s].line = l, ~hier.dc[s].dirty
        PROVE  Below(l)
    <2>1. ~Dirty(hier.dc, "dc", l) BY <1>0, <1>6 DEF Dirty, WellPlaced
    <2> QED BY <1>0, <1>4, <2>1 DEF DcRight
  <1>7. ASSUME NEW l \in LineNos, NEW s \in SlotsOf("l2"),
               hier.l2[s].valid, hier.l2[s].line = l, ~hier.l2[s].dirty, hier.l2F[l]
        PROVE  hier.memF[l]
    <2>1. ~Dirty(hier.l2, "l2", l) BY <1>0, <1>7 DEF Dirty, WellPlaced
    <2>2. Hit(hier.l2, "l2", l) BY <1>0, <1>7, HitIsHeld
    <2> QED BY <1>0, <1>7, <2>1, <2>2 DEF L2Backed
  <1>8. CleanIsBacked BY <1>6, <1>7 DEF CleanIsBacked
  <1> QED BY <1>2, <1>3, <1>5, <1>8

-----------------------------------------------------------------------------
(* The counters.  Each access is accounted for in the cache that serves    *)
(* it: what it adds to the counters pays for what it makes dirty.          *)

Stats == [Caches -> [Counters -> Nat]]

DirtySlots(t, c) == {s \in SlotsOf(c) : t[s].dirty}

Count(t, c) == Cardinality(DirtySlots(t, c))

Paid(st, c, n) ==
  /\ st[c]["writebacks"] + n <= st[c]["write_accesses"]
  /\ st[c]["writebacks"] <= st[c]["read_misses"] + st[c]["write_misses"]

One(b) == IF b THEN 1 ELSE 0

(* A cache has finitely many dirty slots. *)
LEMMA DirtyFinite ==
  ASSUME NEW c \in Caches, NEW t
  PROVE  IsFiniteSet(DirtySlots(t, c)) /\ Count(t, c) \in Nat
  <1>1. Sets[c] - 1 \in Int /\ Ways[c] - 1 \in Int /\ 0 \in Int BY GeometryAssumption
  <1>2. IsFiniteSet(0 .. Sets[c] - 1) /\ IsFiniteSet(0 .. Ways[c] - 1)
    BY <1>1, FS_Interval, Zenon
  <1>3. IsFiniteSet(SlotsOf(c)) BY <1>2, FS_Product DEF SlotsOf, WaysOf
  <1>4. DirtySlots(t, c) \in SUBSET SlotsOf(c) BY DEF DirtySlots
  <1>5. IsFiniteSet(DirtySlots(t, c)) BY <1>3, <1>4, FS_Subset
  <1> QED BY <1>5, FS_CardinalityType DEF Count

(* Marking a line makes at most one more slot dirty. *)
LEMMA MarkDirtyCount ==
  ASSUME NEW c \in Caches, NEW t, WellPlaced(t, c), NEW l \in LineNos, Hit(t, c, l)
  PROVE  Count(MarkDirty(t, c, l), c) <= Count(t, c) + 1
  <1>1. PICK k \in SlotsOf(c) : MarkDirty(t, c, l) = [t EXCEPT ![k].dirty = TRUE]
    BY MarkDirtySlot
  <1> DEFINE u == MarkDirty(t, c, l)
  <1>2. t \in Tags(c) /\ t[k] \in Entry BY DEF WellPlaced, Tags
  <1>3. u[k].dirty /\ \A s \in SlotsOf(c) : s # k => u[s] = t[s]
    BY <1>1, <1>2 DEF Tags, Entry
  <1> HIDE DEF u
  <1>4. DirtySlots(u, c) = DirtySlots(t, c) \cup {k} BY <1>3 DEF DirtySlots
  <1>5. IsFiniteSet(DirtySlots(t, c)) /\ Count(t, c) \in Nat BY DirtyFinite
  <1>6. Count(u, c) = IF k \in DirtySlots(t, c) THEN Count(t, c) ELSE Count(t, c) + 1
    BY <1>4, <1>5, FS_AddElement DEF Count
  <1>7. Count(u, c) <= Count(t, c) + 1 BY <1>5, <1>6
  <1> QED BY <1>7 DEF u

(* Replacing a victim gives up its dirty slot. *)
LEMMA VictimizeCount ==
  ASSUME NEW c \in Caches, NEW t, WellPlaced(t, c), NEW l \in LineNos, NEW w \in WaysOf(c)
  PROVE  Count(victimize(t, c, l, w), c) = Count(t, c) - One(MustWriteBack(Victim(t, c, l, w)))
  <1> DEFINE k == <<idx(c, l), w>>
             u == victimize(t, c, l, w)
             new == [valid |-> TRUE, dirty |-> FALSE, line |-> l]
  <1>1. k \in SlotsOf(c) BY SlotType
  <1>2. u = [t EXCEPT ![k] = new] /\ Victim(t, c, l, w) = t[k] BY DEF victimize, Victim
  <1>3. t \in Tags(c) /\ (t[k].dirty => t[k].valid) BY <1>1 DEF WellPlaced
  <1> HIDE DEF k, u
  <1>4. ~u[k].dirty /\ \A s \in SlotsOf(c) : s # k => u[s] = t[s]
    BY <1>1, <1>2, <1>3 DEF Tags
  <1>5. DirtySlots(u, c) = DirtySlots(t, c) \ {k} BY <1>4 DEF DirtySlots
  <1>6. IsFiniteSet(DirtySlots(t, c)) /\ Count(t, c) \in Nat BY DirtyFinite
  <1>7. Count(u, c) = IF k \in DirtySlots(t, c) THEN Count(t, c) - 1 ELSE Count(t, c)
    BY <1>5, <1>6, FS_RemoveElement DEF Count
  <1>8. k \in DirtySlots(t, c) <=> MustWriteBack(t[k])
    BY <1>1, <1>3 DEF DirtySlots, MustWriteBack
  <1> QED BY <1>2, <1>6, <1>7, <1>8 DEF One, u

(* Bump adds one to one counter of one cache. *)
LEMMA BumpType ==
  ASSUME NEW st \in Stats, NEW c \in Caches, NEW k \in Counters
  PROVE  /\ Bump(st, c, k) \in Stats
         /\ Bump(st, c, k)[c][k] = st[c][k] + 1
         /\ \A j \in Counters : j # k => Bump(st, c, k)[c][j] = st[c][j]
         /\ \A b \in Caches : b # c => Bump(st, c, k)[b] = st[b]
  <1> DEFINE row == [st[c] EXCEPT ![k] = st[c][k] + 1]
             u   == Bump(st, c, k)
  <1>1. st[c] \in [Counters -> Nat] BY DEF Stats
  <1>2. row \in [Counters -> Nat] /\ row[k] = st[c][k] + 1
        /\ \A j \in Counters : j # k => row[j] = st[c][j]
    BY <1>1
  <1>3. u = [st EXCEPT ![c] = row] BY DEF Bump
  <1> HIDE DEF row, u
  <1>4. u \in Stats /\ u[c] = row /\ \A b \in Caches : b # c => u[b] = st[b]
    BY <1>2, <1>3 DEF Stats
  <1> QED BY <1>2, <1>4 DEF u

(* The counters of a hit. *)
LEMMA CountHitStep ==
  ASSUME NEW st \in Stats, NEW c \in Caches, NEW store \in BOOLEAN,
         NEW t, WellPlaced(t, c), NEW l \in LineNos, Hit(t, c, l), Paid(st, c, Count(t, c))
  PROVE  LET g == CountHit(st, c, store)
             u == IF store THEN MarkDirty(t, c, l) ELSE t
         IN  /\ g \in Stats /\ Paid(g, c, Count(u, c))
             /\ \A b \in Caches : b # c => g[b] = st[b]
             /\ g[c]["read_accesses"] = st[c]["read_accesses"] + One(~store)
             /\ g[c]["write_accesses"] = st[c]["write_accesses"] + One(store)
             /\ g[c]["read_misses"] = st[c]["read_misses"]
             /\ g[c]["write_misses"] = st[c]["write_misses"]
             /\ g[c]["writebacks"] = st[c]["writebacks"]
  <1> DEFINE g == CountHit(st, c, store)
             u == IF store THEN MarkDirty(t, c, l) ELSE t
  <1>1. Accesses(store) \in Counters BY DEF Accesses, Counters
  <1>2. /\ g \in Stats /\ \A b \in Caches : b # c => g[b] = st[b]
        /\ g[c][Accesses(store)] = st[c][Accesses(store)] + 1
        /\ \A j \in Counters : j # Accesses(store) => g[c][j] = st[c][j]
    BY <1>1, BumpType DEF CountHit
  <1> HIDE DEF g
  <1>3. \A j \in Counters : st[c][j] \in Nat BY DEF Stats
  <1>4. /\ g[c]["read_accesses"] = st[c]["read_accesses"] + One(~store)
        /\ g[c]["write_accesses"] = st[c]["write_accesses"] + One(store)
        /\ g[c]["read_misses"] = st[c]["read_misses"]
        /\ g[c]["write_misses"] = st[c]["write_misses"]
        /\ g[c]["writebacks"] = st[c]["writebacks"]
    BY <1>2, <1>3 DEF Accesses, One, Counters
  <1>5. Count(u, c) <= Count(t, c) + One(store) /\ Count(u, c) \in Nat /\ Count(t, c) \in Nat
    <2>1. Count(u, c) \in Nat /\ Count(t, c) \in Nat BY DirtyFinite
    <2>2. CASE store BY <2>1, <2>2, MarkDirtyCount DEF One
    <2>3. CASE ~store BY <2>1, <2>3 DEF One
    <2> QED BY <2>1, <2>2, <2>3
  <1> HIDE DEF u
  <1>6. Paid(g, c, Count(u, c)) BY <1>3, <1>4, <1>5 DEF Paid, One, Counters
  <1> QED BY <1>2, <1>4, <1>6 DEF g, u

(* The counters of a miss, write-back of the victim included.              *)
LEMMA CountMissStep ==
  ASSUME NEW st \in Stats, NEW c \in Caches, NEW store \in BOOLEAN,
         NEW t, WellPlaced(t, c), NEW l \in LineNos, ~Hit(t, c, l), NEW w \in WaysOf(c),
         Paid(st, c, Count(t, c))
  PROVE  LET v == Victim(t, c, l, w)
             g == CountMiss(st, c, store, v)
             f == victimize(t, c, l, w)
             u == IF store THEN MarkDirty(f, c, l) ELSE f
         IN  /\ g \in Stats /\ Paid(g, c, Count(u, c))
             /\ \A b \in Caches : b # c => g[b] = st[b]
             /\ g[c]["read_accesses"] = st[c]["read_accesses"] + One(~store)
             /\ g[c]["write_accesses"] = st[c]["write_accesses"] + One(store)
             /\ g[c]["read_misses"] = st[c]["read_misses"] + One(~store)
             /\ g[c]["write_misses"] = st[c]["write_misses"] + One(store)
             /\ g[c]["writebacks"] = st[c]["writebacks"] + One(MustWriteBack(v))
  <1> DEFINE v   == Victim(t, c, l, w)
             g   == CountMiss(st, c, store, v)
             f   == victimize(t, c, l, w)
             u   == IF store THEN MarkDirty(f, c, l) ELSE f
             st0 == Bump(st, c, Accesses(store))
             st1 == Bump(st0, c, Misses(store))
  <1>1. Accesses(store) \in Counters /\ Misses(store) \in Counters /\ "writebacks" \in Counters
    BY DEF Accesses, Misses, Counters
  <1>2. /\ st0 \in Stats /\ \A b \in Caches : b # c => st0[b] = st[b]
        /\ st0[c][Accesses(store)] = st[c][Accesses(store)] + 1
        /\ \A j \in Counters : j # Accesses(store) => st0[c][j] = st[c][j]
    BY <1>1, BumpType
  <1> HIDE DEF st0
  <1>3. /\ st1 \in Stats /\ \A b \in Caches : b # c => st1[b] = st0[b]
        /\ st1[c][Misses(store)] = st0[c][Misses(store)] + 1
        /\ \A j \in Counters : j # Misses(store) => st1[c][j] = st0[c][j]
    BY <1>1, <1>2, BumpType
  <1>4. g = IF MustWriteBack(v) THEN Bump(st1, c, "writebacks") ELSE st1
    BY DEF CountMiss, st0
  <1> HIDE DEF st1, v, g
  <1>5. /\ g \in Stats /\ \A b \in Caches : b # c => g[b] = st1[b]
        /\ g[c]["writebacks"] = st1[c]["writebacks"] + One(MustWriteBack(v))
        /\ \A j \in Counters : j # "writebacks" => g[c][j] = st1[c][j]
    <2>1. CASE MustWriteBack(v)
      <3>1. g = Bump(st1, c, "writebacks") /\ One(MustWriteBack(v)) = 1 BY <1>4, <2>1 DEF One
      <3>2. LET x == Bump(st1, c, "writebacks")
            IN  /\ x \in Stats /\ \A b \in Caches : b # c => x[b] = st1[b]
                /\ x[c]["writebacks"] = st1[c]["writebacks"] + 1
                /\ \A j \in Counters : j # "writebacks" => x[c][j] = st1[c][j]
        BY <1>1, <1>3, BumpType
      <3> QED BY <3>1, <3>2
    <2>2. CASE ~MustWriteBack(v)
      <3>1. g = st1 /\ One(MustWriteBack(v)) = 0 BY <1>4, <2>2 DEF One
      <3>2. st1[c]["writebacks"] \in Nat BY <1>1, <1>3 DEF Stats
      <3> QED BY <1>3, <3>1, <3>2
    <2> QED BY <2>1, <2>2
  <1>6. \A j \in Counters : st[c][j] \in Nat BY DEF Stats
  <1>7. /\ g[c]["read_accesses"] = st[c]["read_accesses"] + One(~store)
        /\ g[c]["write_accesses"] = st[c]["write_accesses"] + One(store)
        /\ g[c]["read_misses"] = st[c]["read_misses"] + One(~store)
        /\ g[c]["write_misses"] = st[c]["write_misses"] + One(store)
        /\ g[c]["writebacks"] = st[c]["writebacks"] + One(MustWriteBack(v))
    <2>1. CASE store BY <1>2, <1>3, <1>5, <1>6, <2>1 DEF Accesses, Misses, One, Counters
    <2>2. CASE ~store BY <1>2, <1>3, <1>5, <1>6, <2>2 DEF Accesses, Misses, One, Counters
    <2> QED BY <2>1, <2>2
  <1>8. /\ Count(u, c) <= Count(t, c) - One(MustWriteBack(v)) + One(store)
        /\ Count(u, c) \in Nat /\ Count(t, c) \in Nat
    <2>1. Count(u, c) \in Nat /\ Count(t, c) \in Nat /\ Count(f, c) \in Nat BY DirtyFinite
    <2>2. Count(f, c) = Count(t, c) - One(MustWriteBack(v)) BY VictimizeCount DEF v
    <2>3. WellPlaced(f, c) /\ Hit(f, c, l) BY VictimizeTags
    <2> HIDE DEF f
    <2>4. CASE store
      <3>1. Count(u, c) <= Count(f, c) + 1 BY <2>3, <2>4, MarkDirtyCount
      <3> QED BY <2>1, <2>2, <2>4, <3>1 DEF One
    <2>5. CASE ~store BY <2>1, <2>2, <2>5 DEF One
    <2> QED BY <2>1, <2>4, <2>5
  <1> HIDE DEF u
  <1>9. Paid(g, c, Count(u, c))
    BY <1>6, <1>7, <1>8 DEF Paid, One, Counters
  <1>10. \A b \in Caches : b # c => g[b] = st[b] BY <1>2, <1>3, <1>5
  <1> QED BY <1>5, <1>7, <1>9, <1>10 DEF g, u, v

(* The tags of l2 after an access to it. *)
LEMMA L2Tags ==
  ASSUME NEW h, WellFormed(h), NEW l \in LineNos, NEW w \in WaysOf("l2"), NEW store \in BOOLEAN
  PROVE  LET t == IF Hit(h.l2, "l2", l) THEN h.l2 ELSE victimize(h.l2, "l2", l, w)
         IN  L2Access(h, l, store, w).l2 = IF store THEN MarkDirty(t, "l2", l) ELSE t
  <1>1. CASE Hit(h.l2, "l2", l) BY <1>1 DEF L2Access, WellFormed
  <1>2. CASE ~Hit(h.l2, "l2", l) BY <1>2 DEF L2Access, WellFormed
  <1> QED BY <1>1, <1>2

(* The counters of an access to l2. *)
LEMMA L2CountStep ==
  ASSUME NEW st \in Stats, NEW h, WellFormed(h), NEW l \in LineNos, NEW w \in WaysOf("l2"),
         NEW store \in BOOLEAN, Paid(st, "l2", Count(h.l2, "l2"))
  PROVE  LET g == L2Count(st, h, l, store, w)
         IN  /\ g \in Stats /\ Paid(g, "l2", Count(L2Access(h, l, store, w).l2, "l2"))
             /\ g["ic"] = st["ic"] /\ g["dc"] = st["dc"]
             /\ store  => /\ g["l2"]["read_accesses"] = st["l2"]["read_accesses"]
                          /\ g["l2"]["write_accesses"] = st["l2"]["write_accesses"] + 1
             /\ ~store => /\ g["l2"]["read_accesses"] = st["l2"]["read_accesses"] + 1
                          /\ g["l2"]["write_accesses"] = st["l2"]["write_accesses"]
  <1> DEFINE g == L2Count(st, h, l, store, w)
             f == L2Access(h, l, store, w).l2
             t == IF Hit(h.l2, "l2", l) THEN h.l2 ELSE victimize(h.l2, "l2", l, w)
  <1>0. "ic" \in Caches /\ "dc" \in Caches /\ "l2" \in Caches /\ WellPlaced(h.l2, "l2")
    BY DEF Caches, WellFormed
  <1>1. f = IF store THEN MarkDirty(t, "l2", l) ELSE t BY L2Tags
  <1> HIDE DEF f
  <1>2. /\ g \in Stats /\ Paid(g, "l2", Count(f, "l2"))
        /\ \A b \in Caches : b # "l2" => g[b] = st[b]
        /\ g["l2"]["read_accesses"] = st["l2"]["read_accesses"] + One(~store)
        /\ g["l2"]["write_accesses"] = st["l2"]["write_accesses"] + One(store)
    <2>1. CASE Hit(h.l2, "l2", l)
      <3>1. g = CountHit(st, "l2", store) BY <2>1 DEF L2Count
      <3>2. f = IF store THEN MarkDirty(h.l2, "l2", l) ELSE h.l2 BY <1>1, <2>1
      <3> QED BY <1>0, <2>1, <3>1, <3>2, CountHitStep
    <2>2. CASE ~Hit(h.l2, "l2", l)
      <3> DEFINE r == victimize(h.l2, "l2", l, w)
      <3>1. g = CountMiss(st, "l2", store, Victim(h.l2, "l2", l, w)) BY <2>2 DEF L2Count
      <3>2. f = IF store THEN MarkDirty(r, "l2", l) ELSE r BY <1>1, <2>2
      <3> QED BY <1>0, <2>2, <3>1, <3>2, CountMissStep
    <2> QED BY <2>1, <2>2
  <1>3. \A k \in Counters : st["l2"][k] \in Nat BY <1>0 DEF Stats
  <1> HIDE DEF g
  <1>4. /\ store  => /\ g["l2"]["read_accesses"] = st["l2"]["read_accesses"]
                     /\ g["l2"]["write_accesses"] = st["l2"]["write_accesses"] + 1
        /\ ~store => /\ g["l2"]["read_accesses"] = st["l2"]["read_accesses"] + 1
                     /\ g["l2"]["write_accesses"] = st["l2"]["write_accesses"]
    BY <1>2, <1>3 DEF One, Counters
  <1> QED BY <1>0, <1>2, <1>4 DEF g, f

(* What one store or one load of l2 does to the counters: g are the new    *)
(* ones and f the new tags of l2.                                          *)
StoreCounted(st, g, f) ==
  /\ g \in Stats /\ Paid(g, "l2", Count(f, "l2"))
  /\ g["ic"] = st["ic"] /\ g["dc"] = st["dc"]
  /\ g["l2"]["read_accesses"] = st["l2"]["read_accesses"]
  /\ g["l2"]["write_accesses"] = st["l2"]["write_accesses"] + 1

LoadCounted(st, g, f) ==
  /\ g \in Stats /\ Paid(g, "l2", Count(f, "l2"))
  /\ g["ic"] = st["ic"] /\ g["dc"] = st["dc"]
  /\ g["l2"]["read_accesses"] = st["l2"]["read_accesses"] + 1
  /\ g["l2"]["write_accesses"] = st["l2"]["write_accesses"]

(* A write-back is a store to l2, and a fill is a load. *)
LEMMA L2CountWrite ==
  ASSUME NEW st \in Stats, NEW h, WellFormed(h), NEW l \in LineNos, NEW w \in WaysOf("l2"),
         Paid(st, "l2", Count(h.l2, "l2")),
         NEW g, g = L2Count(st, h, l, TRUE, w), NEW k, k = L2Access(h, l, TRUE, w)
  PROVE  StoreCounted(st, g, k.l2)
  <1>1. PICK b \in BOOLEAN : b = TRUE OBVIOUS
  <1>2. b BY <1>1
  <1>3. g = L2Count(st, h, l, b, w) /\ k = L2Access(h, l, b, w) BY <1>1, Zenon
  <1> DEFINE x == L2Count(st, h, l, b, w)
             f == L2Access(h, l, b, w).l2
  <1>4. /\ x \in Stats /\ Paid(x, "l2", Count(f, "l2"))
        /\ x["ic"] = st["ic"] /\ x["dc"] = st["dc"]
        /\ b => /\ x["l2"]["read_accesses"] = st["l2"]["read_accesses"]
                /\ x["l2"]["write_accesses"] = st["l2"]["write_accesses"] + 1
    BY L2CountStep
  <1> HIDE DEF x, f
  <1>5. StoreCounted(st, x, f) BY <1>2, <1>4 DEF StoreCounted
  <1> QED BY <1>3, <1>5, Zenon DEF x, f

(* And the load: a fill counts one read of l2, whoever missed. *)
LEMMA L2CountRead ==
  ASSUME NEW st \in Stats, NEW h, WellFormed(h), NEW l \in LineNos, NEW w \in WaysOf("l2"),
         Paid(st, "l2", Count(h.l2, "l2")),
         NEW g, g = L2Count(st, h, l, FALSE, w), NEW k, k = L2Access(h, l, FALSE, w)
  PROVE  LoadCounted(st, g, k.l2)
  <1>1. PICK b \in BOOLEAN : b = FALSE OBVIOUS
  <1>2. ~b BY <1>1
  <1>3. g = L2Count(st, h, l, b, w) /\ k = L2Access(h, l, b, w) BY <1>1, Zenon
  <1> DEFINE x == L2Count(st, h, l, b, w)
             f == L2Access(h, l, b, w).l2
  <1>4. /\ x \in Stats /\ Paid(x, "l2", Count(f, "l2"))
        /\ x["ic"] = st["ic"] /\ x["dc"] = st["dc"]
        /\ ~b => /\ x["l2"]["read_accesses"] = st["l2"]["read_accesses"] + 1
                 /\ x["l2"]["write_accesses"] = st["l2"]["write_accesses"]
    BY L2CountStep
  <1> HIDE DEF x, f
  <1>5. LoadCounted(st, x, f) BY <1>2, <1>4 DEF LoadCounted
  <1> QED BY <1>3, <1>5, Zenon DEF x, f

(* The counters of one hierarchy agree and are paid for. *)
Traffic(st) ==
  /\ st["l2"]["read_accesses"] =
       st["ic"]["read_misses"] + st["dc"]["read_misses"] + st["dc"]["write_misses"]
  /\ st["l2"]["write_accesses"] = st["dc"]["writebacks"]
  /\ st["ic"]["writebacks"] = 0

StatsInv(st, h) ==
  /\ st \in Stats /\ Traffic(st)
  /\ Paid(st, "ic", Count(h.ic, "ic"))
  /\ Paid(st, "dc", Count(h.dc, "dc"))
  /\ Paid(st, "l2", Count(h.l2, "l2"))

(* A miss of dc: its own counters, the write-back of its victim to l2 and  *)
(* the fill from l2.  The tags of dc are those before a store marks them.  *)
LEMMA DcMissCountStep ==
  ASSUME HierInv(hier), StatsInv(stats, hier), NEW l \in LineNos, ~Hit(hier.dc, "dc", l),
         NEW w \in WaysOf("dc"), NEW w1 \in WaysOf("l2"), NEW w2 \in WaysOf("l2"),
         NEW store \in BOOLEAN
  PROVE  LET g == DcMissCount(l, store, w, w1, w2)
             d == DcMiss(hier, l, w, w1, w2)
         IN  /\ g \in Stats /\ Traffic(g)
             /\ d.ic = hier.ic /\ d.dc = victimize(hier.dc, "dc", l, w)
             /\ Paid(g, "ic", Count(hier.ic, "ic"))
             /\ Paid(g, "dc", Count(IF store THEN MarkDirty(d.dc, "dc", l) ELSE d.dc, "dc"))
             /\ Paid(g, "l2", Count(d.l2, "l2"))
  <1> DEFINE v   == Victim(hier.dc, "dc", l, w)
             t   == victimize(hier.dc, "dc", l, w)
             h1  == [hier EXCEPT !.dc = t]
             h2  == DcEvict(hier, l, w, w1)
             h3  == L2Access(h2, l, FALSE, w2)
             d   == DcMiss(hier, l, w, w1, w2)
             st1 == CountMiss(stats, "dc", store, v)
             st2 == IF MustWriteBack(v) THEN L2Count(st1, h1, v.line, TRUE, w1) ELSE st1
             g   == DcMissCount(l, store, w, w1, w2)
             u   == IF store THEN MarkDirty(t, "dc", l) ELSE t
  <1>0. /\ WellFormed(hier) /\ L2Backed(hier) /\ DcRight(hier, {}) /\ WellPlaced(hier.dc, "dc")
        /\ "ic" \in Caches /\ "dc" \in Caches /\ "l2" \in Caches
        /\ stats \in Stats /\ Traffic(stats) /\ Paid(stats, "ic", Count(hier.ic, "ic"))
        /\ Paid(stats, "dc", Count(hier.dc, "dc")) /\ Paid(stats, "l2", Count(hier.l2, "l2"))
    BY DEF HierInv, WellFormed, Caches, StatsInv
  <1>1. /\ v \in Entry /\ WellPlaced(t, "dc")
        /\ v.valid => Hit(hier.dc, "dc", v.line)
    BY <1>0, VictimizeTags
  <1>2. /\ st1 \in Stats /\ Paid(st1, "dc", Count(u, "dc"))
        /\ \A b \in Caches : b # "dc" => st1[b] = stats[b]
        /\ st1["dc"]["read_misses"] = stats["dc"]["read_misses"] + One(~store)
        /\ st1["dc"]["write_misses"] = stats["dc"]["write_misses"] + One(store)
        /\ st1["dc"]["writebacks"] = stats["dc"]["writebacks"] + One(MustWriteBack(v))
    BY <1>0, CountMissStep
  <1>3. g = L2Count(st2, h2, l, FALSE, w2) BY DEF DcMissCount
  <1>4. h2 = IF MustWriteBack(v) THEN L2Access(h1, v.line, TRUE, w1) ELSE h1 BY DEF DcEvict
  <1>5. WellFormed(h2) /\ L2Backed(h2) BY DcEvictStep
  <1>5a. st2 = IF MustWriteBack(v) THEN L2Count(st1, h1, v.line, TRUE, w1) ELSE st1 OBVIOUS
  <1> HIDE DEF v, t, st1, st2, g, h2, u
  <1>6. WellFormed(h1) /\ L2Backed(h1) /\ h1.ic = hier.ic /\ h1.dc = t /\ h1.l2 = hier.l2
        /\ h1.dcF = hier.dcF
    <2>1. /\ h1.ic = hier.ic /\ h1.dc = t /\ h1.l2 = hier.l2
          /\ h1.dcF = hier.dcF /\ h1.l2F = hier.l2F /\ h1.memF = hier.memF
      BY <1>0 DEF WellFormed
    <2>2. WellFormed(h1) BY <1>0, <1>1, <2>1 DEF WellFormed, WellPlaced
    <2>3. L2Backed(h1) BY <1>0, <2>1 DEF L2Backed
    <2> QED BY <2>1, <2>2, <2>3
  <1> HIDE DEF h1
  <1>7. Paid(st1, "l2", Count(h1.l2, "l2")) BY <1>0, <1>2, <1>6 DEF Paid
  <1>8. /\ st2 \in Stats /\ Paid(st2, "l2", Count(h2.l2, "l2"))
        /\ st2["ic"] = st1["ic"] /\ st2["dc"] = st1["dc"]
        /\ st2["l2"]["read_accesses"] = st1["l2"]["read_accesses"]
        /\ st2["l2"]["write_accesses"] = st1["l2"]["write_accesses"] + One(MustWriteBack(v))
        /\ h2.ic = hier.ic /\ h2.dc = t
    <2>0. st1["l2"]["read_accesses"] \in Nat /\ st1["l2"]["write_accesses"] \in Nat
      BY <1>0, <1>2 DEF Stats, Counters
    <2>1. CASE MustWriteBack(v)
      <3>1. v.line \in LineNos /\ h1.dcF[v.line]
        BY <1>0, <1>1, <1>6, <2>1 DEF MustWriteBack, Entry, DcRight
      <3>2. st2 = L2Count(st1, h1, v.line, TRUE, w1) /\ h2 = L2Access(h1, v.line, TRUE, w1)
            /\ One(MustWriteBack(v)) = 1
        BY <1>4, <1>5a, <2>1 DEF One
      <3>3. BelowKept(h1, h2) BY <1>6, <3>1, <3>2, L2AccessStep
      <3>4. /\ st2 \in Stats /\ Paid(st2, "l2", Count(h2.l2, "l2"))
            /\ st2["ic"] = st1["ic"] /\ st2["dc"] = st1["dc"]
            /\ st2["l2"]["read_accesses"] = st1["l2"]["read_accesses"]
            /\ st2["l2"]["write_accesses"] = st1["l2"]["write_accesses"] + 1
        <4>1. st1 \in Stats /\ WellFormed(h1) /\ v.line \in LineNos BY <1>2, <1>6, <3>1
        <4>2. StoreCounted(st1, st2, h2.l2) BY <1>7, <3>2, <4>1, L2CountWrite, Zenon
        <4> QED BY <4>2 DEF StoreCounted
      <3> QED BY <1>6, <2>0, <3>2, <3>3, <3>4 DEF BelowKept
    <2>2. CASE ~MustWriteBack(v)
      <3>1. st2 = st1 /\ h2 = h1 /\ One(MustWriteBack(v)) = 0 BY <1>4, <1>5a, <2>2 DEF One
      <3> QED BY <1>2, <1>6, <1>7, <2>0, <3>1
    <2> QED BY <2>1, <2>2
  <1>9. BelowKept(h2, h3) /\ WellFormed(h3) BY <1>5, L2AccessStep
  <1>10. d = [h3 EXCEPT !.dcF[l] = h3.l2F[l]] BY DEF DcMiss, h2
  <1>12. /\ g \in Stats /\ Paid(g, "l2", Count(h3.l2, "l2"))
         /\ g["ic"] = st2["ic"] /\ g["dc"] = st2["dc"]
         /\ g["l2"]["read_accesses"] = st2["l2"]["read_accesses"] + 1
         /\ g["l2"]["write_accesses"] = st2["l2"]["write_accesses"]
    <2>1. h3 = L2Access(h2, l, FALSE, w2) OBVIOUS
    <2> HIDE DEF h3
    <2>2. LoadCounted(st2, g, h3.l2) BY <1>3, <1>5, <1>8, <2>1, L2CountRead, Zenon
    <2> QED BY <2>2 DEF LoadCounted
  <1> HIDE DEF h3, d
  <1>13. d.ic = hier.ic /\ d.dc = t /\ d.l2 = h3.l2
    BY <1>8, <1>9, <1>10 DEF BelowKept, WellFormed
  <1>14. g["ic"] = stats["ic"] /\ st1["l2"] = stats["l2"] /\ g["dc"] = st1["dc"]
    BY <1>0, <1>2, <1>8, <1>12
  <1>15. Traffic(g)
    <2>1. /\ \A k \in Counters : stats["ic"][k] \in Nat /\ stats["dc"][k] \in Nat
                                 /\ stats["l2"][k] \in Nat
          /\ One(store) + One(~store) = 1 /\ One(store) \in Nat /\ One(~store) \in Nat
          /\ One(MustWriteBack(v)) \in Nat
      BY <1>0 DEF Stats, One
    <2>2. g["l2"]["read_accesses"] = stats["l2"]["read_accesses"] + 1 BY <1>8, <1>12, <1>14
    <2>3. g["l2"]["write_accesses"] = stats["l2"]["write_accesses"] + One(MustWriteBack(v))
      BY <1>8, <1>12, <1>14, <2>1 DEF Counters
    <2> QED BY <1>0, <1>2, <1>14, <2>1, <2>2, <2>3 DEF Traffic, Counters
  <1>16. Paid(g, "ic", Count(hier.ic, "ic")) /\ Paid(g, "dc", Count(u, "dc"))
    BY <1>0, <1>2, <1>14 DEF Paid
  <1>17. u = IF store THEN MarkDirty(d.dc, "dc", l) ELSE d.dc BY <1>13 DEF u
  <1> QED BY <1>12, <1>13, <1>15, <1>16, <1>17 DEF g, d, t

(* A miss of ic: its victim is clean, so nothing is written back. *)
LEMMA IcMissCountStep ==
  ASSUME HierInv(hier), StatsInv(stats, hier), NEW l \in LineNos, ~Hit(hier.ic, "ic", l),
         NEW w \in WaysOf("ic"), NEW w2 \in WaysOf("l2")
  PROVE  StatsInv(IcMissCount(l, w, w2), IcMiss(hier, l, w, w2))
  <1> DEFINE v   == Victim(hier.ic, "ic", l, w)
             t   == victimize(hier.ic, "ic", l, w)
             h1  == IcEvict(hier, l, w)
             h2  == IcMiss(hier, l, w, w2)
             st1 == CountMiss(stats, "ic", FALSE, v)
             g   == IcMissCount(l, w, w2)
  <1>0. /\ WellFormed(hier) /\ L2Backed(hier) /\ WellPlaced(hier.ic, "ic")
        /\ \A s \in SlotsOf("ic") : ~hier.ic[s].dirty
        /\ "ic" \in Caches /\ "dc" \in Caches /\ "l2" \in Caches
        /\ stats \in Stats /\ Traffic(stats) /\ Paid(stats, "ic", Count(hier.ic, "ic"))
        /\ Paid(stats, "dc", Count(hier.dc, "dc")) /\ Paid(stats, "l2", Count(hier.l2, "l2"))
    BY DEF HierInv, WellFormed, Caches, StatsInv
  <1>1. ~MustWriteBack(v) /\ WellPlaced(t, "ic") /\ \A s \in SlotsOf("ic") : ~t[s].dirty
    <2>1. <<idx("ic", l), w>> \in SlotsOf("ic") BY <1>0, SlotType
    <2>2. WellPlaced(t, "ic") BY <1>0, VictimizeTags
    <2> QED BY <1>0, <2>1, <2>2 DEF victimize, Victim, MustWriteBack, WellPlaced, Tags
  <1>2. /\ st1 \in Stats /\ Paid(st1, "ic", Count(t, "ic"))
        /\ st1["dc"] = stats["dc"] /\ st1["l2"] = stats["l2"]
        /\ st1["ic"]["read_misses"] = stats["ic"]["read_misses"] + 1
        /\ st1["ic"]["writebacks"] = stats["ic"]["writebacks"]
    <2>1. PICK b \in BOOLEAN : b = FALSE OBVIOUS
    <2> DEFINE x == CountMiss(stats, "ic", b, v)
    <2>2. /\ x \in Stats /\ Paid(x, "ic", Count(IF b THEN MarkDirty(t, "ic", l) ELSE t, "ic"))
          /\ \A c \in Caches : c # "ic" => x[c] = stats[c]
          /\ x["ic"]["read_misses"] = stats["ic"]["read_misses"] + One(~b)
          /\ x["ic"]["writebacks"] = stats["ic"]["writebacks"] + One(MustWriteBack(v))
      BY <1>0, CountMissStep
    <2>3. One(~b) = 1 /\ One(MustWriteBack(v)) = 0 /\ (IF b THEN MarkDirty(t, "ic", l) ELSE t) = t
      BY <1>1, <2>1 DEF One
    <2>4. st1 = x BY <2>1, Zenon
    <2>5. stats["ic"]["writebacks"] \in Nat BY <1>0 DEF Stats, Counters
    <2> HIDE DEF x, st1, v, t
    <2> QED BY <1>0, <2>2, <2>3, <2>4, <2>5
  <1>3. g = L2Count(st1, h1, l, FALSE, w2) BY DEF IcMissCount
  <1>4. h1 = [hier EXCEPT !.ic = t] /\ h2 = L2Access(h1, l, FALSE, w2) BY DEF IcEvict, IcMiss
  <1> HIDE DEF v, t, h1, h2, st1, g
  <1>5. h1.ic = t /\ h1.dc = hier.dc /\ h1.l2 = hier.l2 /\ WellFormed(h1) /\ L2Backed(h1)
    <2>1. /\ h1.ic = t /\ h1.dc = hier.dc /\ h1.l2 = hier.l2
          /\ h1.dcF = hier.dcF /\ h1.l2F = hier.l2F /\ h1.memF = hier.memF
      BY <1>0, <1>4 DEF WellFormed
    <2>2. WellFormed(h1) BY <1>0, <1>1, <1>4, <2>1 DEF WellFormed, WellPlaced
    <2>3. L2Backed(h1) BY <1>0, <2>1 DEF L2Backed
    <2> QED BY <2>1, <2>2, <2>3
  <1>6. BelowKept(h1, h2) BY <1>4, <1>5, L2AccessStep
  <1>7. Paid(st1, "l2", Count(h1.l2, "l2")) BY <1>0, <1>2, <1>5 DEF Paid
  <1>8. /\ g \in Stats /\ Paid(g, "l2", Count(h2.l2, "l2"))
        /\ g["ic"] = st1["ic"] /\ g["dc"] = st1["dc"]
        /\ g["l2"]["read_accesses"] = st1["l2"]["read_accesses"] + 1
        /\ g["l2"]["write_accesses"] = st1["l2"]["write_accesses"]
    <2>1. st1 \in Stats /\ WellFormed(h1) BY <1>2, <1>5
    <2>2. LoadCounted(st1, g, h2.l2) BY <1>3, <1>4, <1>7, <2>1, L2CountRead, Zenon
    <2> QED BY <2>2 DEF LoadCounted
  <1>9. Traffic(g)
    <2>1. \A k \in Counters : stats["ic"][k] \in Nat /\ stats["dc"][k] \in Nat
                              /\ stats["l2"][k] \in Nat
      BY <1>0 DEF Stats
    <2> QED BY <1>0, <1>2, <1>8, <2>1 DEF Traffic, Counters
  <1>10. /\ Paid(g, "ic", Count(h2.ic, "ic")) /\ Paid(g, "dc", Count(h2.dc, "dc"))
    BY <1>0, <1>2, <1>5, <1>6, <1>8 DEF Paid, BelowKept
  <1> QED BY <1>8, <1>9, <1>10 DEF StatsInv, g, h2

(* A hit counts one access, and a store hit one dirty line at most. *)
LEMMA HitCountStep ==
  ASSUME HierInv(hier), StatsInv(stats, hier), NEW l \in LineNos
  PROVE  /\ \A c \in {"ic", "dc"} : Hit(hier[c], c, l) => StatsInv(CountHit(stats, c, FALSE), hier)
         /\ Hit(hier.dc, "dc", l) => StatsInv(CountHit(stats, "dc", TRUE), Stored(hier, l))
  <1>0. /\ WellFormed(hier) /\ WellPlaced(hier.ic, "ic") /\ WellPlaced(hier.dc, "dc")
        /\ "ic" \in Caches /\ "dc" \in Caches /\ "l2" \in Caches
        /\ stats \in Stats /\ Traffic(stats) /\ Paid(stats, "ic", Count(hier.ic, "ic"))
        /\ Paid(stats, "dc", Count(hier.dc, "dc")) /\ Paid(stats, "l2", Count(hier.l2, "l2"))
    BY DEF HierInv, WellFormed, Caches, StatsInv
  (* What a hit changes, for a level, a kind of access and its new tags. *)
  <1>1. ASSUME NEW c \in {"ic", "dc"}, Hit(hier[c], c, l), NEW b \in BOOLEAN
        PROVE  LET x == CountHit(stats, c, b)
               IN  /\ x \in Stats /\ Traffic(x)
                   /\ Paid(x, c, Count(IF b THEN MarkDirty(hier[c], c, l) ELSE hier[c], c))
                   /\ \A e \in Caches : e # c => x[e] = stats[e]
    <2> DEFINE x == CountHit(stats, c, b)
    <2>0. c \in Caches /\ WellPlaced(hier[c], c) /\ Paid(stats, c, Count(hier[c], c))
      BY <1>0 DEF Caches
    <2>1. /\ x \in Stats
          /\ Paid(x, c, Count(IF b THEN MarkDirty(hier[c], c, l) ELSE hier[c], c))
          /\ \A e \in Caches : e # c => x[e] = stats[e]
          /\ x[c]["read_misses"] = stats[c]["read_misses"]
          /\ x[c]["write_misses"] = stats[c]["write_misses"]
          /\ x[c]["writebacks"] = stats[c]["writebacks"]
      BY <1>0, <1>1, <2>0, CountHitStep
    <2> HIDE DEF x
    <2>2. Traffic(x) BY <1>0, <2>0, <2>1 DEF Traffic, Caches
    <2> QED BY <2>1, <2>2 DEF x
  <1>2. ASSUME NEW c \in {"ic", "dc"}, Hit(hier[c], c, l)
        PROVE  StatsInv(CountHit(stats, c, FALSE), hier)
    <2>1. PICK b \in BOOLEAN : b = FALSE OBVIOUS
    <2> DEFINE x == CountHit(stats, c, b)
    <2>2. /\ x \in Stats /\ Traffic(x) /\ \A e \in Caches : e # c => x[e] = stats[e]
          /\ Paid(x, c, Count(IF b THEN MarkDirty(hier[c], c, l) ELSE hier[c], c))
      BY <1>1, <1>2
    <2>3. (IF b THEN MarkDirty(hier[c], c, l) ELSE hier[c]) = hier[c] BY <2>1
    <2>4. Paid(x, c, Count(hier[c], c)) BY <2>2, <2>3, Zenon
    <2> HIDE DEF x
    <2>5. StatsInv(x, hier) BY <1>0, <2>2, <2>4 DEF StatsInv, Paid
    <2> QED BY <2>1, <2>5, Zenon DEF x
  <1>3. ASSUME Hit(hier.dc, "dc", l)
        PROVE  StatsInv(CountHit(stats, "dc", TRUE), Stored(hier, l))
    <2>1. PICK b \in BOOLEAN : b = TRUE OBVIOUS
    <2> DEFINE x == CountHit(stats, "dc", b)
               t == MarkDirty(hier.dc, "dc", l)
               h == Stored(hier, l)
    <2>2. /\ x \in Stats /\ Traffic(x) /\ \A e \in Caches : e # "dc" => x[e] = stats[e]
          /\ Paid(x, "dc", Count(IF b THEN t ELSE hier.dc, "dc"))
      BY <1>1, <1>3
    <2>3. (IF b THEN t ELSE hier.dc) = t BY <2>1
    <2>4. Paid(x, "dc", Count(t, "dc")) BY <2>2, <2>3, Zenon
    <2> HIDE DEF x
    <2>5. h.ic = hier.ic /\ h.dc = t /\ h.l2 = hier.l2 BY <1>0 DEF Stored, WellFormed
    <2> HIDE DEF h, t
    <2>6. StatsInv(x, h) BY <1>0, <2>2, <2>4, <2>5 DEF StatsInv, Paid
    <2> QED BY <2>1, <2>6, Zenon DEF x, h
  <1> QED BY <1>2, <1>3
-----------------------------------------------------------------------------
(* The invariant of the simulator with its counters. *)
SInv == HierInv(hier) /\ StatsInv(stats, hier)

(* The empty caches and zeroed counters satisfy the invariant. *)
LEMMA SInvInit == SInit => SInv
  <1> SUFFICES ASSUME SInit PROVE SInv OBVIOUS
  <1>1. HierInv(hier) BY HierInvInit DEF SInit
  <1>2. stats \in Stats /\ \A c \in Caches : \A k \in Counters : stats[c][k] = 0
    BY DEF SInit, Stats
  <1>3. Traffic(stats) BY <1>2 DEF Traffic, Caches, Counters
  <1>4. NoEntry.dirty = FALSE BY DEF NoEntry
  <1>5. ASSUME NEW c \in Caches PROVE Count(hier[c], c) = 0
    <2>1. DirtySlots(hier[c], c) = {} BY <1>4 DEF SInit, Init, DirtySlots, Caches
    <2> QED BY <2>1, FS_EmptySet DEF Count
  <1>6. \A c \in Caches : Paid(stats, c, Count(hier[c], c)) BY <1>2, <1>5 DEF Paid, Counters
  <1> QED BY <1>1, <1>2, <1>3, <1>6 DEF SInv, StatsInv, Caches

(* One access keeps it: the tags by HierInvStep, the counters by the       *)
(* lemmas on hits and misses.                                              *)
LEMMA SInvStep == SInv /\ [SNext]_statsVars => SInv'
  <1> SUFFICES ASSUME SInv, [SNext]_statsVars PROVE SInv' OBVIOUS
  <1>0. HierInv(hier) /\ StatsInv(stats, hier) BY DEF SInv
  <1>1. [Next]_hier
    BY DEF SNext, SReadHit, SWriteHit, Next, statsVars
  <1>2. HierInv(hier') BY <1>0, <1>1, HierInvStep
  <1>3. ASSUME NEW l \in LineNos, NEW c \in {"ic", "dc"}, SReadHit(c, l)
        PROVE  StatsInv(stats', hier')
    BY <1>0, <1>3, HitCountStep, Zenon DEF SReadHit, ReadHit
  <1>4. ASSUME NEW l \in LineNos, SWriteHit(l) PROVE StatsInv(stats', hier')
    BY <1>0, <1>4, HitCountStep, Zenon DEF SWriteHit, WriteHit
  <1>5. ASSUME NEW l \in LineNos, NEW w \in WaysOf("dc"), NEW w1 \in WaysOf("l2"),
               NEW w2 \in WaysOf("l2"), NEW store \in BOOLEAN, ~Hit(hier.dc, "dc", l),
               stats' = DcMissCount(l, store, w, w1, w2),
               hier' = IF store THEN Stored(DcMiss(hier, l, w, w1, w2), l)
                       ELSE DcMiss(hier, l, w, w1, w2)
        PROVE  StatsInv(stats', hier')
    <2> DEFINE d == DcMiss(hier, l, w, w1, w2)
    <2>1. /\ stats' \in Stats /\ Traffic(stats') /\ d.ic = hier.ic
          /\ Paid(stats', "ic", Count(hier.ic, "ic"))
          /\ Paid(stats', "dc", Count(IF store THEN MarkDirty(d.dc, "dc", l) ELSE d.dc, "dc"))
          /\ Paid(stats', "l2", Count(d.l2, "l2"))
      BY <1>0, <1>5, DcMissCountStep
    <2>2. WellFormed(d) BY <1>0, <1>5, DcMissStep DEF HierInv
    <2>3. hier' = IF store THEN Stored(d, l) ELSE d BY <1>5
    <2> HIDE DEF d
    <2>4. /\ hier'.ic = d.ic /\ hier'.l2 = d.l2
          /\ hier'.dc = IF store THEN MarkDirty(d.dc, "dc", l) ELSE d.dc
      <3>1. /\ Stored(d, l).ic = d.ic /\ Stored(d, l).l2 = d.l2
            /\ Stored(d, l).dc = MarkDirty(d.dc, "dc", l)
        BY <2>2 DEF Stored, WellFormed
      <3> QED BY <2>3, <3>1
    <2> QED BY <2>1, <2>4 DEF StatsInv
  <1>6. ASSUME NEW l \in LineNos, NEW w \in WaysOf("dc"), NEW w1 \in WaysOf("l2"),
               NEW w2 \in WaysOf("l2"),
               \/ dc_read(l, w, w1, w2) /\ stats' = DcMissCount(l, FALSE, w, w1, w2)
               \/ dc_write(l, w, w1, w2) /\ stats' = DcMissCount(l, TRUE, w, w1, w2)
        PROVE  StatsInv(stats', hier')
    <2>1. ~Hit(hier.dc, "dc", l) BY <1>6 DEF dc_read, dc_write
    <2>2. \E store \in BOOLEAN :
            /\ stats' = DcMissCount(l, store, w, w1, w2)
            /\ hier' = IF store THEN Stored(DcMiss(hier, l, w, w1, w2), l)
                       ELSE DcMiss(hier, l, w, w1, w2)
      <3>1. CASE dc_read(l, w, w1, w2) /\ stats' = DcMissCount(l, FALSE, w, w1, w2)
        BY <3>1, Zenon DEF dc_read
      <3>2. CASE dc_write(l, w, w1, w2) /\ stats' = DcMissCount(l, TRUE, w, w1, w2)
        BY <3>2, Zenon DEF dc_write
      <3> QED BY <1>6, <3>1, <3>2
    <2> QED BY <1>5, <2>1, <2>2, Zenon
  <1>7. ASSUME NEW l \in LineNos, NEW w \in WaysOf("ic"), NEW w2 \in WaysOf("l2"),
               ic_read(l, w, w2), stats' = IcMissCount(l, w, w2)
        PROVE  StatsInv(stats', hier')
    BY <1>0, <1>7, IcMissCountStep DEF ic_read
  <1>8. StatsInv(stats', hier')
    <2>1. CASE SNext BY <1>3, <1>4, <1>6, <1>7, <2>1, Zenon DEF SNext
    <2>2. CASE UNCHANGED statsVars BY <1>0, <2>2 DEF statsVars
    <2> QED BY <2>1, <2>2
  <1> QED BY <1>2, <1>8 DEF SInv

(* The tags and the counters of the three caches keep their invariant over *)
(* every sequence of accesses.                                             *)
THEOREM CacheInvariant == SSpec => []SInv
  BY SInvInit, SInvStep, PTL DEF SSpec

(* The tags stay well formed, and ic is never dirty. *)
THEOREM CacheTypeCorrect == SSpec => []TypeOK
  <1>1. SInv => TypeOK BY HierInvGives DEF SInv
  <1> QED BY <1>1, CacheInvariant, PTL

(* check_tag has at most one way to find, whatever was evicted before. *)
THEOREM CacheNoDuplicates == SSpec => []NoDuplicates
  <1>1. SInv => NoDuplicates BY HierInvGives DEF SInv
  <1> QED BY <1>1, CacheInvariant, PTL

(* A load finds the newest data: write-back of the victim before the fill, *)
(* and the dirty bit of every store, lose no store in any geometry.        *)
THEOREM CacheNoLostStore == SSpec => []NoLostStore
  <1>1. SInv => NoLostStore BY HierInvGives DEF SInv
  <1> QED BY <1>1, CacheInvariant, PTL

(* A clean line may be dropped without a write-back at either level. *)
THEOREM CacheCleanIsBacked == SSpec => []CleanIsBacked
  <1>1. SInv => CleanIsBacked BY HierInvGives DEF SInv
  <1> QED BY <1>1, CacheInvariant, PTL

(* print_stats reports what the caches did to one another. *)
THEOREM CacheTrafficAgrees == SSpec => []TrafficAgrees
  <1>1. SInv => TrafficAgrees BY DEF SInv, StatsInv, Traffic, TrafficAgrees
  <1> QED BY <1>1, CacheInvariant, PTL

(* No cache writes a store back twice: the write-backs made and the ones   *)
(* still owed never exceed the stores.                                     *)
THEOREM CacheWritebacksPaid == SSpec => []WritebacksPaidFor
  <1>1. ASSUME SInv PROVE WritebacksPaidFor
    <2>1. \A c \in Caches : Paid(stats, c, Count(hier[c], c))
      BY <1>1 DEF SInv, StatsInv, Caches
    <2>2. \A c \in Caches : Count(hier[c], c) = DirtyEntries(c)
      BY DEF Count, DirtySlots, DirtyEntries
    <2> QED BY <2>1, <2>2 DEF WritebacksPaidFor, Paid
  <1> QED BY <1>1, CacheInvariant, PTL
=============================================================================
