---------------------------- MODULE KvSegmentPool ----------------------------
(***************************************************************************)
(* The KV segment pool (crates/memory/src/segment.rs) under arbitrary      *)
(* callers: each holder allocates a segment from either end, takes one     *)
(* more reference on any part of somebody's segment (prefix sharing), or   *)
(* drops the references it has.  Callers respect the asserted              *)
(* preconditions; `held` is their knowledge, `pool` and `stats` the code's *)
(* state.                                                                  *)
(***************************************************************************)
EXTENDS KvSegmentOps, FiniteSets

CONSTANTS Total,       \* physical pages (`total`)
          Holder,      \* callers' handles
          Sizes,       \* segment lengths callers ask for
          MaxAllocs    \* bound on the cumulative page counter `allocs`

ASSUME PoolAssumption == /\ Total \in Nat /\ MaxAllocs \in Nat
                         /\ Sizes \subseteq Nat \ {0}
                         /\ IsFiniteSet(Holder)

VARIABLES pool,        \* refs and free, see KvSegmentOps
          stats,       \* allocs, frees, segAllocs, segFrees
          held         \* holder -> segment, the empty segment for none

vars == <<pool, stats, held>>

NoSeg == Seg(0, 0)
Idle(h) == held[h] = NoSeg

Init == /\ pool = NewPool(Total)
        /\ stats = [allocs |-> 0, frees |-> 0, segAllocs |-> 0, segFrees |-> 0]
        /\ held = [h \in Holder |-> NoSeg]

Granted(h, seg) ==
  /\ held' = [held EXCEPT ![h] = seg]
  /\ stats' = [stats EXCEPT !.allocs = @ + seg.len, !.segAllocs = @ + 1]

AllocFront(h, n) ==
  /\ Idle(h) /\ CanAlloc(pool, n) /\ stats.allocs + n <= MaxAllocs
  /\ pool' = Alloc(pool, n)
  /\ Granted(h, AllocSeg(pool, n))

AllocBack(h, n) ==
  /\ Idle(h) /\ LastFit(pool, n) # 0 /\ stats.allocs + n <= MaxAllocs
  /\ pool' = AllocFromEnd(pool, n)
  /\ Granted(h, EndSeg(pool, n))

\* `ref_` on a part of the segment of g, which h then owns on its own.
Share(h, g, part) ==
  /\ Idle(h) /\ ~Idle(g)
  /\ part.len > 0 /\ SegPages(part) \subseteq SegPages(held[g])
  /\ CanRef(pool, part)
  /\ pool' = Ref(pool, part)
  /\ held' = [held EXCEPT ![h] = part]
  /\ UNCHANGED stats

\* `free` and `unref` are one operation (drop_refs).
Release(h) ==
  /\ ~Idle(h) /\ CanUnref(pool, held[h])
  /\ LET zeroed == Zeroed(pool, held[h]) IN
       stats' = IF zeroed = {} THEN stats
                ELSE [stats EXCEPT !.frees = @ + Cardinality(zeroed), !.segFrees = @ + 1]
  /\ pool' = Unref(pool, held[h])
  /\ held' = [held EXCEPT ![h] = NoSeg]

Parts == {Seg(b, n) : b \in 0 .. Total - 1, n \in 1 .. Total}

Next == \E h \in Holder :
          \/ \E n \in Sizes : AllocFront(h, n)
          \/ \E n \in Sizes : AllocBack(h, n)
          \/ \E g \in Holder, part \in Parts : Share(h, g, part)
          \/ Release(h)

Spec == Init /\ [][Next]_vars

----------------------------------------------------------------------------
\* The free list covers exactly the unreferenced pages, its runs are disjoint
\* and no two of them touch, so the largest run is the longest stretch of
\* free pages and "no single run fits" is the truth (assert_conserved, and
\* alloc's contract that only contiguity can refuse a request), and the pages
\* in use are those the cumulative counters say ("used == allocs - frees"): no
\* sequence of allocations, shares and partial releases loses a page.
FreeListExact ==
  LET runs == pool.free IN
  /\ UNION {SegPages(runs[i]) : i \in DOMAIN runs} = {p \in DOMAIN pool.refs : pool.refs[p] = 0}
  /\ \A i, j \in DOMAIN runs :
       i # j => SegEnd(runs[i]) < runs[j].base \/ SegEnd(runs[j]) < runs[i].base
  /\ \A i \in DOMAIN runs : runs[i].len > 0
  /\ Cardinality(InUse(pool)) + FreeCount(pool) = Total
  /\ Cardinality(InUse(pool)) = stats.allocs - stats.frees

\* The pool implements SharedPages: allocation hands out unreferenced pages
\* only, and a shared page outlives all holders but the last.
Abs == INSTANCE SharedPages
         WITH Page <- 0 .. Total - 1,
              refs <- pool.refs,
              hold <- [h \in Holder |-> SegPages(held[h])]

ImplementsSharedPages == Abs!Spec
RefsExact == Abs!RefsExact
=============================================================================
