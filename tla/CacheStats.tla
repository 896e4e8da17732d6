----------------------------- MODULE CacheStats -----------------------------
(***************************************************************************)
(* The counters of the cache simulator, kept by every access next to the   *)
(* tags of CacheSim: what print_stats reports.  The byte counters are 64   *)
(* times the access counters and are left out.                             *)
(***************************************************************************)
EXTENDS CacheSim

CONSTANT MaxAccesses    \* bound on the first-level accesses of a behaviour

ASSUME MaxAccessesAssumption == MaxAccesses \in Nat

VARIABLE stats          \* cache name -> its five counters

statsVars == <<hier, stats>>

Counters == {"read_accesses", "read_misses", "write_accesses", "write_misses", "writebacks"}

Bump(st, c, k) == [st EXCEPT ![c][k] = @ + 1]

Accesses(store) == IF store THEN "write_accesses" ELSE "read_accesses"
Misses(store)   == IF store THEN "write_misses" ELSE "read_misses"

(* access counts the access, and on a miss the miss and the write-back. *)
CountHit(st, c, store) == Bump(st, c, Accesses(store))

CountMiss(st, c, store, victim) ==
  LET st1 == Bump(Bump(st, c, Accesses(store)), c, Misses(store))
  IN  IF MustWriteBack(victim) THEN Bump(st1, c, "writebacks") ELSE st1

L2Count(st, h, l, store, w) ==
  IF Hit(h.l2, "l2", l) THEN CountHit(st, "l2", store)
  ELSE CountMiss(st, "l2", store, Victim(h.l2, "l2", l, w))

(* Mutant: the fill of a store miss is counted as a write to l2. *)
DcMissCount_StoreFill(l, store, w, w1, w2) ==
  LET v   == Victim(hier.dc, "dc", l, w)
      h1  == [hier EXCEPT !.dc = victimize(hier.dc, "dc", l, w)]
      st1 == CountMiss(stats, "dc", store, v)
      st2 == IF MustWriteBack(v) THEN L2Count(st1, h1, v.line, TRUE, w1) ELSE st1
  IN  L2Count(st2, DcEvict(hier, l, w, w1), l, store, w2)

(* The counters over a miss of dc, in the order of the accesses it makes. *)
DcMissCount(l, store, w, w1, w2) ==
  LET v   == Victim(hier.dc, "dc", l, w)
      h1  == [hier EXCEPT !.dc = victimize(hier.dc, "dc", l, w)]
      st1 == CountMiss(stats, "dc", store, v)
      st2 == IF MustWriteBack(v) THEN L2Count(st1, h1, v.line, TRUE, w1) ELSE st1
  IN  L2Count(st2, DcEvict(hier, l, w, w1), l, FALSE, w2)

IcMissCount(l, w, w2) ==
  L2Count(CountMiss(stats, "ic", FALSE, Victim(hier.ic, "ic", l, w)),
          IcEvict(hier, l, w), l, FALSE, w2)

FirstLevelAccesses ==
  stats["ic"]["read_accesses"] + stats["dc"]["read_accesses"] + stats["dc"]["write_accesses"]

SInit == Init /\ stats = [c \in Caches |-> [k \in Counters |-> 0]]

SReadHit(c, l) == ReadHit(c, l) /\ stats' = CountHit(stats, c, FALSE)
SWriteHit(l)   == WriteHit(l) /\ stats' = CountHit(stats, "dc", TRUE)

SNext ==
  /\ FirstLevelAccesses < MaxAccesses
  /\ \E l \in LineNos :
       \/ \E c \in {"ic", "dc"} : SReadHit(c, l)
       \/ SWriteHit(l)
       \/ \E w \in WaysOf("dc"), w1, w2 \in WaysOf("l2") :
            \/ dc_read(l, w, w1, w2) /\ stats' = DcMissCount(l, FALSE, w, w1, w2)
            \/ dc_write(l, w, w1, w2) /\ stats' = DcMissCount(l, TRUE, w, w1, w2)
       \/ \E w \in WaysOf("ic"), w2 \in WaysOf("l2") :
            ic_read(l, w, w2) /\ stats' = IcMissCount(l, w, w2)

SSpec == SInit /\ [][SNext]_statsVars
-----------------------------------------------------------------------------
(* The statistics of the three caches agree: l2 is read once per miss of   *)
(* either first-level cache and written once per write-back of dc, and ic  *)
(* writes nothing back.                                                    *)
TrafficAgrees ==
  /\ stats["l2"]["read_accesses"] =
       stats["ic"]["read_misses"] + stats["dc"]["read_misses"] + stats["dc"]["write_misses"]
  /\ stats["l2"]["write_accesses"] = stats["dc"]["writebacks"]
  /\ stats["ic"]["writebacks"] = 0

DirtyEntries(c) == Cardinality({s \in SlotsOf(c) : hier[c][s].dirty})

(* Every write-back was paid for by a store: no cache writes the same      *)
(* store back twice, whatever its victims are.                             *)
WritebacksPaidFor ==
  \A c \in Caches :
    /\ stats[c]["writebacks"] + DirtyEntries(c) <= stats[c]["write_accesses"]
    /\ stats[c]["writebacks"] <= stats[c]["read_misses"] + stats[c]["write_misses"]
=============================================================================
