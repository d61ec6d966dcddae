------------------------ MODULE KvSegmentPool_proofs ------------------------
(***************************************************************************)
(* Proofs about KvSegmentPool for every size of pool, every finite set of  *)
(* holders and every set of request sizes.  The inductive invariant says   *)
(* that the free list is the list of the maximal stretches of unreferenced *)
(* pages (Stretches, CacheOps_proofs): that its runs keep apart is     *)
(* what lets one scan of an insertion coalesce, and that it covers every   *)
(* unreferenced page is what lets a cut be counted.  The pool then         *)
(* implements SharedPages step by step, and inherits what is proved there. *)
(***************************************************************************)
EXTENDS KvSegmentPool, CacheOps_proofs

Pages == 0 .. Total - 1
FreePages == {p \in Pages : pool.refs[p] = 0}

Stats == [allocs : Nat, frees : Nat, segAllocs : Nat, segFrees : Nat]

PoolOK == /\ pool.refs \in [Pages -> Nat]
          /\ Stretches(pool.free, FreePages)
HeldOK == /\ held \in [Holder -> Run \union {NoSeg}]
          /\ \A h \in Holder : SegPages(held[h]) \subseteq Pages
StatsOK == /\ stats \in Stats
           /\ Cardinality(InUse(pool)) = stats.allocs - stats.frees

Inv == PoolOK /\ HeldOK /\ StatsOK

LEMMA PagesFinite == IsFiniteSet(Pages) /\ Cardinality(Pages) = Total
<1>1. Total \in Nat /\ 0 \in Int /\ Total - 1 \in Int BY PoolAssumption
<1>2. IsFiniteSet(0..(Total - 1)) /\ Cardinality(0..(Total - 1)) = IF 0 > Total - 1 THEN 0 ELSE (Total - 1) - 0 + 1
  BY <1>1, FS_Interval
<1> QED BY <1>1, <1>2 DEF Pages

LEMMA NoPages == SegPages(NoSeg) = {} /\ NoSeg \notin Run
BY DEF NoSeg, Seg, SegEnd, SegPages, Run

LEMMA InUseIs ==
  ASSUME PoolOK
  PROVE  InUse(pool) = Pages \ FreePages /\ IsFiniteSet(InUse(pool)) /\ DOMAIN pool.refs = Pages
<1>1. DOMAIN pool.refs = Pages /\ \A p \in Pages : pool.refs[p] \in Nat BY DEF PoolOK
<1>2. InUse(pool) = Pages \ FreePages BY <1>1 DEF InUse, FreePages
<1> QED BY <1>1, <1>2, PagesFinite, FS_Subset

-----------------------------------------------------------------------------
\* What the free list, the counters and the pool as a whole say of each other.
LEMMA InvExact == ASSUME Inv PROVE FreeListExact
<1> DEFINE runs == pool.free
<1>1. /\ runs \in Seq(Run) /\ AllApart(runs) /\ Covered(runs) = FreePages /\ DOMAIN runs = 1..Len(runs)
  BY DEF Inv, PoolOK, Stretches
<1>2. DOMAIN pool.refs = Pages /\ InUse(pool) = Pages \ FreePages /\ IsFiniteSet(InUse(pool))
  BY InUseIs DEF Inv
<1>3. UNION {SegPages(runs[i]) : i \in DOMAIN runs} = {p \in DOMAIN pool.refs : pool.refs[p] = 0}
  BY <1>1, <1>2 DEF Covered, FreePages
<1>4. \A i, j \in DOMAIN runs :
        i # j => SegEnd(runs[i]) < runs[j].base \/ SegEnd(runs[j]) < runs[i].base
  BY <1>1 DEF AllApart, Apart
<1>5. \A i \in DOMAIN runs : runs[i].len > 0
  <2> TAKE i \in DOMAIN runs
  <2>1. runs[i] \in Run BY <1>1
  <2> QED BY <2>1, RunFacts
<1>6. Cardinality(InUse(pool)) + FreeCount(pool) = Total
  <2>1. IsFiniteSet(FreePages) /\ Counted(0, runs) = Cardinality(FreePages)
    BY CountedIsCovered DEF Inv, PoolOK
  <2>2. FreeCount(pool) = Counted(0, runs) BY Zenon DEF FreeCount, Counted
  <2>3. InUse(pool) \union FreePages = Pages /\ InUse(pool) \intersect FreePages = {}
    BY <1>2 DEF FreePages
  <2>4. Cardinality(Pages) = Cardinality(InUse(pool)) + Cardinality(FreePages) - Cardinality({})
    BY <1>2, <2>1, <2>3, FS_Union
  <2>5. Cardinality(InUse(pool)) \in Nat /\ Cardinality(FreePages) \in Nat /\ Cardinality({}) = 0
    BY <1>2, <2>1, FS_CardinalityType, FS_EmptySet
  <2> QED BY <2>1, <2>2, <2>4, <2>5, PagesFinite
<1>7. Cardinality(InUse(pool)) = stats.allocs - stats.frees BY DEF Inv, StatsOK
<1> HIDE DEF runs
<1> QED BY <1>3, <1>4, <1>5, <1>6, <1>7 DEF FreeListExact, runs

LEMMA InitInv == Init => Inv
<1> SUFFICES ASSUME Init PROVE Inv OBVIOUS
<1>1. Total \in Nat BY PoolAssumption
<1>2. pool.refs = [p \in Pages |-> 0] /\ FreePages = Pages BY DEF Init, NewPool, Pages, FreePages
<1>3. Stretches(pool.free, Pages)
  <2>1. CASE Total = 0
    <3>1. pool.free = <<>> /\ Pages = {} BY <2>1 DEF Init, NewPool, Pages
    <3>2. AllApart(<<>>) /\ Covered(<<>>) = {} BY DEF AllApart, Covered
    <3> QED BY <3>1, <3>2 DEF Stretches
  <2>2. CASE Total # 0
    <3> DEFINE r == Seg(0, Total)
    <3>1. pool.free = <<r>> BY <2>2 DEF Init, NewPool
    <3>2. r \in Run /\ r.base = 0 /\ SegEnd(r) = Total BY <1>1, <2>2, SegIsRun
    <3>3. SegPages(r) = Pages BY <3>2 DEF SegPages, Pages
    <3> HIDE DEF r
    <3>4. <<r>> \in Seq(Run) /\ Len(<<r>>) = 1 /\ <<r>>[1] = r BY <3>2
    <3>5. AllApart(<<r>>) BY <3>4 DEF AllApart
    <3>6. Covered(<<r>>) = SegPages(r)
      <4>1. \A i : i \in 1..1 <=> i = 1 OBVIOUS
      <4>2. \A p : p \in Covered(<<r>>) <=> p \in SegPages(r) BY <3>4, <4>1, CoveredBy
      <4> QED BY <4>2
    <3> QED BY <3>1, <3>3, <3>4, <3>5, <3>6 DEF Stretches
  <2> QED BY <2>1, <2>2
<1>4. PoolOK BY <1>2, <1>3 DEF PoolOK
<1>5. HeldOK BY NoPages DEF Init, HeldOK
<1>6. InUse(pool) = {} BY <1>2, <1>4, InUseIs
<1>7. StatsOK BY <1>6, FS_EmptySet DEF Init, StatsOK, Stats
<1> QED BY <1>4, <1>5, <1>7 DEF Inv

-----------------------------------------------------------------------------
(* Allocation *)

\* What the two searches cut: a segment of unreferenced pages from the i-th
\* run, and what is left of the run.
Cut(i, seg, left) ==
  /\ i \in 1..Len(pool.free) /\ seg \in Run
  /\ pool' = CutFrom(pool, i, seg, left)
  /\ SegPages(seg) \subseteq FreePages
  /\ Stretches(pool'.free, FreePages \ SegPages(seg))

LEMMA Cuts ==
  ASSUME PoolOK, NEW n \in Sizes
  PROVE  /\ CanAlloc(pool, n) /\ pool' = Alloc(pool, n)
              => \E i, left : Cut(i, AllocSeg(pool, n), left) /\ AllocSeg(pool, n).len = n
         /\ LastFit(pool, n) # 0 /\ pool' = AllocFromEnd(pool, n)
              => \E i, left : Cut(i, EndSeg(pool, n), left) /\ EndSeg(pool, n).len = n
<1>1. n \in Nat \ {0} /\ n \in Nat BY PoolAssumption
<1>2. pool.free \in Seq(Run) /\ \A i \in 1..Len(pool.free) : pool.free[i] \in Run BY DEF PoolOK, Stretches
<1>3. ASSUME NEW i \in 1..Len(pool.free), NEW seg \in Run, NEW left,
             pool' = CutFrom(pool, i, seg, left),
             \/ left.len = 0 /\ SegPages(seg) = SegPages(pool.free[i])
             \/ /\ left \in Run
                /\ SegPages(left) \union SegPages(seg) = SegPages(pool.free[i])
                /\ SegPages(left) \intersect SegPages(seg) = {}
                /\ pool.free[i].base <= left.base /\ SegEnd(left) <= SegEnd(pool.free[i])
      PROVE  Cut(i, seg, left)
  <2>1. pool'.free = (IF left.len > 0 THEN <<left>> ELSE <<>>) \o RemoveAt(pool.free, i)
    BY <1>3 DEF CutFrom
  <2>2. /\ SegPages(seg) \subseteq FreePages
        /\ Stretches((IF left.len > 0 THEN <<left>> ELSE <<>>) \o RemoveAt(pool.free, i),
                     FreePages \ SegPages(seg))
    BY <1>3, CutKeeps DEF PoolOK
  <2> QED BY <1>3, <2>1, <2>2 DEF Cut
<1>4. ASSUME CanAlloc(pool, n), pool' = Alloc(pool, n)
      PROVE  \E i, left : Cut(i, AllocSeg(pool, n), left) /\ AllocSeg(pool, n).len = n
  <2> DEFINE i == FirstFit(pool, n)
             r == pool.free[i]
             left == Seg(r.base + n, r.len - n)
  <2>1. i \in 1..Len(pool.free) /\ r.len >= n BY <1>1, <1>2, <1>4, FitFacts DEF CanAlloc
  <2>2. pool' = CutFrom(pool, i, AllocSeg(pool, n), left) BY <1>4 DEF Alloc, AllocSeg
  <2>3. r \in Run /\ n <= r.len
    <3>1. r \in Run BY <1>2, <2>1
    <3>2. r.len \in Nat BY <3>1, RunFacts
    <3> QED BY <1>1, <2>1, <3>1, <3>2
  <2>4. AllocSeg(pool, n) = Seg(r.base, n) BY DEF AllocSeg
  <2> HIDE DEF i, r
  <2>5. /\ Seg(r.base, n) \in Run
        /\ \/ left.len = 0 /\ SegPages(Seg(r.base, n)) = SegPages(r)
           \/ /\ left \in Run
              /\ SegPages(left) \union SegPages(Seg(r.base, n)) = SegPages(r)
              /\ SegPages(left) \intersect SegPages(Seg(r.base, n)) = {}
              /\ r.base <= left.base /\ SegEnd(left) <= SegEnd(r)
    BY <1>1, <2>3, CutsOf
  <2>6. Seg(r.base, n).len = n BY DEF Seg
  <2> HIDE DEF left
  <2>7. Cut(i, AllocSeg(pool, n), left) BY <1>3, <2>1, <2>2, <2>4, <2>5 DEF r
  <2> QED BY <2>4, <2>6, <2>7
<1>5. ASSUME LastFit(pool, n) # 0, pool' = AllocFromEnd(pool, n)
      PROVE  \E i, left : Cut(i, EndSeg(pool, n), left) /\ EndSeg(pool, n).len = n
  <2> DEFINE i == LastFit(pool, n)
             r == pool.free[i]
             left == Seg(r.base, r.len - n)
  <2>1. i \in 1..Len(pool.free) /\ r.len >= n BY <1>1, <1>2, <1>5, FitFacts
  <2>2. pool' = CutFrom(pool, i, EndSeg(pool, n), left) BY <1>5 DEF AllocFromEnd
  <2>3. r \in Run /\ n <= r.len
    <3>1. r \in Run BY <1>2, <2>1
    <3>2. r.len \in Nat BY <3>1, RunFacts
    <3> QED BY <1>1, <2>1, <3>1, <3>2
  <2> DEFINE seg == Seg(SegEnd(r) - n, n)
  <2>4. EndSeg(pool, n) = seg BY DEF EndSeg
  <2> HIDE DEF i, r
  <2>5. /\ seg \in Run
        /\ \/ left.len = 0 /\ SegPages(seg) = SegPages(r)
           \/ /\ left \in Run
              /\ SegPages(left) \union SegPages(seg) = SegPages(r)
              /\ SegPages(left) \intersect SegPages(seg) = {}
              /\ r.base <= left.base /\ SegEnd(left) <= SegEnd(r)
    BY <1>1, <2>3, CutsOf
  <2>6. seg.len = n BY DEF Seg
  <2> HIDE DEF left, seg
  <2>7. Cut(i, EndSeg(pool, n), left) BY <1>3, <2>1, <2>2, <2>4, <2>5 DEF r
  <2> QED BY <2>4, <2>6, <2>7
<1> QED BY <1>4, <1>5

\* A cut hands out unreferenced pages, which are then referenced once.
LEMMA CutRefs ==
  ASSUME PoolOK, NEW i, NEW seg, NEW left, Cut(i, seg, left)
  PROVE  /\ pool'.refs = [p \in Pages |-> IF p \in SegPages(seg) THEN 1 ELSE pool.refs[p]]
         /\ PoolOK' /\ FreePages' = FreePages \ SegPages(seg)
         /\ InUse(pool)' = InUse(pool) \union SegPages(seg)
         /\ InUse(pool) \intersect SegPages(seg) = {}
         /\ SegPages(seg) \subseteq Pages /\ SegPages(seg) # {}
<1>1. DOMAIN pool.refs = Pages /\ InUse(pool) = Pages \ FreePages BY InUseIs
<1>2. pool'.refs = [p \in Pages |-> IF p \in SegPages(seg) THEN 1 ELSE pool.refs[p]]
  BY <1>1 DEF Cut, CutFrom
<1>3. SegPages(seg) \subseteq FreePages /\ FreePages \subseteq Pages /\ SegPages(seg) # {}
  BY RunFacts DEF Cut, FreePages
<1>4. FreePages' = FreePages \ SegPages(seg)
  <2>1. FreePages' = {p \in Pages : pool'.refs[p] = 0} BY DEF FreePages, Pages
  <2> QED BY <1>2, <2>1 DEF FreePages
<1>5. PoolOK'
  <2>1. Pages' = Pages BY DEF Pages
  <2>2. pool'.refs \in [Pages -> Nat] BY <1>2 DEF PoolOK
  <2>3. Stretches(pool'.free, FreePages') BY <1>4 DEF Cut
  <2> QED BY <2>1, <2>2, <2>3 DEF PoolOK
<1>6. InUse(pool)' = Pages \ FreePages'
  <2>1. DOMAIN pool'.refs = Pages /\ (\A p \in Pages : pool'.refs[p] \in Nat) BY <1>2 DEF PoolOK
  <2>2. InUse(pool)' = {p \in Pages : pool'.refs[p] > 0} BY <2>1 DEF InUse
  <2>3. FreePages' = {p \in Pages : pool'.refs[p] = 0} BY DEF FreePages, Pages
  <2> QED BY <2>1, <2>2, <2>3
<1> QED BY <1>1, <1>2, <1>3, <1>4, <1>5, <1>6

LEMMA CutInv ==
  ASSUME Inv, NEW i, NEW seg, NEW left, Cut(i, seg, left), NEW h \in Holder, Granted(h, seg)
  PROVE  Inv'
<1>1. PoolOK' /\ InUse(pool)' = InUse(pool) \union SegPages(seg)
      /\ InUse(pool) \intersect SegPages(seg) = {} /\ SegPages(seg) \subseteq Pages
  BY CutRefs DEF Inv
<1>2. seg \in Run BY DEF Cut
<1>3. HeldOK'
  <2>1. held' \in [Holder -> Run \union {NoSeg}] BY <1>2 DEF Inv, HeldOK, Granted
  <2>2. \A g \in Holder : SegPages(held'[g]) \subseteq Pages
    <3> TAKE g \in Holder
    <3>1. held'[g] = seg \/ held'[g] = held[g] BY DEF Inv, HeldOK, Granted
    <3> QED BY <1>1, <3>1 DEF Inv, HeldOK
  <2> QED BY <2>1, <2>2 DEF HeldOK, Pages
<1>4. StatsOK'
  <2>1. IsFiniteSet(InUse(pool)) /\ Cardinality(InUse(pool)) = stats.allocs - stats.frees
        /\ stats \in Stats
    BY InUseIs DEF Inv, StatsOK
  <2>2. seg.base \in Nat /\ seg.len \in Nat /\ seg.len > 0 /\ SegPages(seg) = seg.base..(SegEnd(seg) - 1)
        /\ SegEnd(seg) = seg.base + seg.len
    BY <1>2, RunFacts DEF SegPages
  <2>3. IsFiniteSet(SegPages(seg)) /\ Cardinality(SegPages(seg)) = seg.len
    <3>1. SegEnd(seg) - 1 \in Int /\ seg.base \in Int BY <2>2
    <3>2. /\ IsFiniteSet(SegPages(seg))
          /\ Cardinality(SegPages(seg)) = IF seg.base > SegEnd(seg) - 1 THEN 0 ELSE (SegEnd(seg) - 1) - seg.base + 1
      BY <2>2, <3>1, FS_Interval
    <3> QED BY <2>2, <3>2
  <2>4. Cardinality(InUse(pool)') = Cardinality(InUse(pool)) + Cardinality(SegPages(seg)) - Cardinality({})
    BY <1>1, <2>1, <2>3, FS_Union
  <2>5. Cardinality(InUse(pool)) \in Nat /\ Cardinality({}) = 0 BY <2>1, FS_CardinalityType, FS_EmptySet
  <2>6. stats' \in Stats /\ stats'.allocs = stats.allocs + seg.len /\ stats'.frees = stats.frees
    <3>1. /\ stats.allocs \in Nat /\ stats.frees \in Nat /\ stats.segAllocs \in Nat /\ stats.segFrees \in Nat
          /\ stats = [allocs |-> stats.allocs, frees |-> stats.frees,
                      segAllocs |-> stats.segAllocs, segFrees |-> stats.segFrees]
      BY <2>1 DEF Stats
    <3>2. stats' = [allocs |-> stats.allocs + seg.len, frees |-> stats.frees,
                    segAllocs |-> stats.segAllocs + 1, segFrees |-> stats.segFrees]
      BY <3>1 DEF Granted
    <3>3. stats.allocs + seg.len \in Nat /\ stats.segAllocs + 1 \in Nat BY <2>2, <3>1
    <3> QED BY <3>1, <3>2, <3>3 DEF Stats
  <2>7. Cardinality(InUse(pool)') = stats'.allocs - stats'.frees
    <3>1. stats.allocs \in Nat /\ stats.frees \in Nat BY <2>1 DEF Stats
    <3> QED BY <2>1, <2>2, <2>3, <2>4, <2>5, <2>6, <3>1
  <2> QED BY <2>6, <2>7 DEF StatsOK, Stats
<1> QED BY <1>1, <1>3, <1>4 DEF Inv

-----------------------------------------------------------------------------
(* Sharing *)

LEMMA ShareInv ==
  ASSUME Inv, NEW h \in Holder, NEW g \in Holder, NEW part \in Parts, Share(h, g, part)
  PROVE  /\ Inv' /\ part \in Run /\ SegPages(part) \subseteq Pages /\ SegPages(part) # {}
         /\ pool'.refs = [p \in Pages |-> IF p \in SegPages(part) THEN pool.refs[p] + 1 ELSE pool.refs[p]]
<1>1. DOMAIN pool.refs = Pages /\ \A p \in Pages : pool.refs[p] \in Nat BY InUseIs DEF Inv, PoolOK
<1>2. part \in Run
  <2>1. PICK b \in 0..Total - 1, n \in 1..Total : part = Seg(b, n) BY DEF Parts
  <2>2. b \in Nat /\ n \in Nat /\ n > 0 BY PoolAssumption
  <2> QED BY <2>1, <2>2, SegIsRun
<1>3. SegPages(part) \subseteq Pages /\ SegPages(part) # {} BY <1>2, RunFacts DEF Share, Inv, HeldOK
<1>4. /\ pool'.refs = [p \in Pages |-> IF p \in SegPages(part) THEN pool.refs[p] + 1 ELSE pool.refs[p]]
      /\ pool'.free = pool.free
  BY <1>1 DEF Share, Ref
<1>5. \A p \in Pages : pool'.refs[p] \in Nat /\ (pool'.refs[p] = 0 <=> pool.refs[p] = 0)
  <2> TAKE p \in Pages
  <2>1. CASE p \in SegPages(part)
    <3>1. pool.refs[p] >= 1 /\ pool.refs[p] \in Nat BY <1>1, <2>1 DEF Share, CanRef
    <3>2. pool'.refs[p] = pool.refs[p] + 1 BY <1>4, <2>1
    <3> QED BY <3>1, <3>2
  <2>2. CASE p \notin SegPages(part)
    <3>1. pool'.refs[p] = pool.refs[p] /\ pool.refs[p] \in Nat BY <1>1, <1>4, <2>2
    <3> QED BY <3>1
  <2> QED BY <2>1, <2>2
<1>6. FreePages' = FreePages
  <2>1. FreePages' = {p \in Pages : pool'.refs[p] = 0} BY DEF FreePages, Pages
  <2> QED BY <1>5, <2>1 DEF FreePages
<1>7. PoolOK'
  <2>1. Pages' = Pages BY DEF Pages
  <2>2. pool'.refs \in [Pages -> Nat] BY <1>4, <1>5
  <2>3. Stretches(pool'.free, FreePages') BY <1>4, <1>6 DEF Inv, PoolOK
  <2> QED BY <2>1, <2>2, <2>3 DEF PoolOK
<1>8. InUse(pool)' = InUse(pool)
  <2>1. DOMAIN pool'.refs = Pages BY <1>4
  <2>2. InUse(pool)' = {p \in Pages : pool'.refs[p] > 0} BY <2>1 DEF InUse
  <2>3. InUse(pool) = {p \in Pages : pool.refs[p] > 0} BY <1>1 DEF InUse
  <2> QED BY <1>1, <1>5, <2>2, <2>3
<1>9. StatsOK' BY <1>8 DEF Inv, StatsOK, Share, Stats
<1>10. HeldOK'
  <2>1. held' = [held EXCEPT ![h] = part] BY DEF Share
  <2>2. held' \in [Holder -> Run \union {NoSeg}] BY <1>2, <2>1 DEF Inv, HeldOK
  <2>3. \A x \in Holder : SegPages(held'[x]) \subseteq Pages BY <1>3, <2>1 DEF Inv, HeldOK
  <2> QED BY <2>2, <2>3 DEF HeldOK, Pages
<1> QED BY <1>2, <1>3, <1>4, <1>7, <1>9, <1>10 DEF Inv

-----------------------------------------------------------------------------
(* Release *)

LEMMA ReleaseInv ==
  ASSUME Inv, NEW h \in Holder, Release(h)
  PROVE  /\ Inv' /\ held[h] \in Run
         /\ pool'.refs = [p \in Pages |-> IF p \in SegPages(held[h]) THEN pool.refs[p] - 1 ELSE pool.refs[p]]
<1> DEFINE seg == held[h]
           Z == Zeroed(pool, seg)
<1>1. DOMAIN pool.refs = Pages /\ \A p \in Pages : pool.refs[p] \in Nat BY InUseIs DEF Inv, PoolOK
<1>2. seg \in Run /\ SegPages(seg) \subseteq Pages /\ \A p \in SegPages(seg) : pool.refs[p] >= 1
  BY DEF Release, Idle, CanUnref, Inv, HeldOK
<1>3. /\ pool'.refs = [p \in Pages |-> IF p \in SegPages(seg) THEN pool.refs[p] - 1 ELSE pool.refs[p]]
      /\ pool'.free = FoldLeft(InsertRun, pool.free, ZeroedRuns(pool.refs, seg))
  BY <1>1 DEF Release, Unref
<1>4. Z = {p \in SegPages(seg) : pool.refs[p] = 1} /\ Z \subseteq Pages BY <1>2 DEF Zeroed
<1> HIDE DEF seg, Z
<1>5. \A p \in Pages : /\ pool'.refs[p] \in Nat
                       /\ (pool'.refs[p] = 0 <=> pool.refs[p] = 0 \/ p \in Z)
  <2> TAKE p \in Pages
  <2>1. CASE p \in SegPages(seg)
    <3>1. pool'.refs[p] = pool.refs[p] - 1 /\ pool.refs[p] >= 1 /\ pool.refs[p] \in Nat BY <1>1, <1>2, <1>3, <2>1
    <3>2. p \in Z <=> pool.refs[p] = 1 BY <1>4, <2>1
    <3> QED BY <3>1, <3>2
  <2>2. CASE p \notin SegPages(seg)
    <3>1. pool'.refs[p] = pool.refs[p] /\ p \notin Z BY <1>3, <1>4, <2>2
    <3> QED BY <1>1, <3>1
  <2> QED BY <2>1, <2>2
<1>6. FreePages' = FreePages \union Z
  <2>1. FreePages' = {p \in Pages : pool'.refs[p] = 0} BY DEF FreePages, Pages
  <2> QED BY <1>4, <1>5, <2>1 DEF FreePages
<1>7. PoolOK'
  <2>1. Pages' = Pages BY DEF Pages
  <2>2. pool'.refs \in [Pages -> Nat] BY <1>3, <1>5
  <2>3. \A p \in FreePages : pool.refs[p] = 0 BY DEF FreePages
  <2>4. Stretches(pool.free, FreePages) BY DEF Inv, PoolOK
  <2>5. Stretches(Inserted(pool.free, ZeroedRuns(pool.refs, seg)),
                  FreePages \union {p \in SegPages(seg) : pool.refs[p] = 1})
    BY <1>2, <2>3, <2>4, UnrefKeeps
  <2>6. pool'.free = Inserted(pool.free, ZeroedRuns(pool.refs, seg)) BY <1>3, Zenon DEF Inserted
  <2>7. Stretches(pool'.free, FreePages') BY <1>4, <1>6, <2>5, <2>6
  <2> QED BY <2>1, <2>2, <2>7 DEF PoolOK
<1>8. InUse(pool)' = InUse(pool) \ Z /\ Z \subseteq InUse(pool)
  <2>1. DOMAIN pool'.refs = Pages BY <1>3
  <2>2. InUse(pool)' = {p \in Pages : pool'.refs[p] > 0} BY <2>1 DEF InUse
  <2>3. InUse(pool) = {p \in Pages : pool.refs[p] > 0} BY <1>1 DEF InUse
  <2>4. \A p \in Pages : pool'.refs[p] > 0 <=> pool.refs[p] > 0 /\ p \notin Z BY <1>1, <1>5
  <2> QED BY <1>4, <2>2, <2>3, <2>4
<1>9. StatsOK'
  <2>1. IsFiniteSet(InUse(pool)) /\ Cardinality(InUse(pool)) = stats.allocs - stats.frees /\ stats \in Stats
    BY InUseIs DEF Inv, StatsOK
  <2>2. IsFiniteSet(Z) /\ Cardinality(Z) \in Nat BY <1>8, <2>1, FS_Subset, FS_CardinalityType
  <2>3. Cardinality(InUse(pool) \ Z) = Cardinality(InUse(pool)) - Cardinality(Z)
    <3>1. IsFiniteSet(InUse(pool) \ Z) BY <2>1, FS_Subset
    <3>2. (InUse(pool) \ Z) \union Z = InUse(pool) /\ (InUse(pool) \ Z) \intersect Z = {} BY <1>8
    <3>3. Cardinality(InUse(pool)) = Cardinality(InUse(pool) \ Z) + Cardinality(Z) - Cardinality({})
      BY <2>2, <3>1, <3>2, FS_Union
    <3>4. Cardinality(InUse(pool) \ Z) \in Nat /\ Cardinality({}) = 0 BY <3>1, FS_CardinalityType, FS_EmptySet
    <3> QED BY <2>2, <3>3, <3>4
  <2>4. stats' = IF Z = {} THEN stats
                 ELSE [stats EXCEPT !.frees = @ + Cardinality(Z), !.segFrees = @ + 1]
    BY DEF Release, Z, seg
  <2>5. /\ stats.allocs \in Nat /\ stats.frees \in Nat /\ stats.segAllocs \in Nat /\ stats.segFrees \in Nat
        /\ stats = [allocs |-> stats.allocs, frees |-> stats.frees,
                    segAllocs |-> stats.segAllocs, segFrees |-> stats.segFrees]
    BY <2>1 DEF Stats
  <2>6. CASE Z = {} 
    <3>1. stats' = stats /\ InUse(pool)' = InUse(pool) BY <1>8, <2>4, <2>6
    <3> QED BY <2>1, <3>1 DEF StatsOK, Stats
  <2>7. CASE Z # {}
    <3>1. stats' = [allocs |-> stats.allocs, frees |-> stats.frees + Cardinality(Z),
                    segAllocs |-> stats.segAllocs, segFrees |-> stats.segFrees + 1]
      BY <2>4, <2>5, <2>7
    <3>2. stats.frees + Cardinality(Z) \in Nat /\ stats.segFrees + 1 \in Nat BY <2>2, <2>5
    <3>3. stats' \in Stats BY <2>5, <3>1, <3>2 DEF Stats
    <3>4. Cardinality(InUse(pool)') = stats'.allocs - stats'.frees
      <4>1. stats'.allocs = stats.allocs /\ stats'.frees = stats.frees + Cardinality(Z) BY <3>1
      <4>2. Cardinality(InUse(pool)') = stats.allocs - stats.frees - Cardinality(Z) BY <1>8, <2>1, <2>3
      <4> QED BY <2>2, <2>5, <4>1, <4>2
    <3> QED BY <3>3, <3>4 DEF StatsOK, Stats
  <2> QED BY <2>6, <2>7
<1>10. HeldOK'
  <2>1. held' = [held EXCEPT ![h] = NoSeg] BY DEF Release
  <2>2. held' \in [Holder -> Run \union {NoSeg}] BY <2>1 DEF Inv, HeldOK
  <2>3. \A x \in Holder : SegPages(held'[x]) \subseteq Pages BY <2>1, NoPages DEF Inv, HeldOK
  <2> QED BY <2>2, <2>3 DEF HeldOK, Pages
<1> QED BY <1>2, <1>3, <1>7, <1>9, <1>10 DEF Inv, seg

-----------------------------------------------------------------------------
(* The steps *)

LEMMA NextInv == Inv /\ [Next]_vars => Inv'
<1> SUFFICES ASSUME Inv, [Next]_vars PROVE Inv' OBVIOUS
<1>1. ASSUME NEW h \in Holder, NEW n \in Sizes, AllocFront(h, n) PROVE Inv'
  <2>1. PICK i, left : Cut(i, AllocSeg(pool, n), left) BY <1>1, Cuts DEF AllocFront, Inv
  <2> QED BY <1>1, <2>1, CutInv DEF AllocFront
<1>2. ASSUME NEW h \in Holder, NEW n \in Sizes, AllocBack(h, n) PROVE Inv'
  <2>1. PICK i, left : Cut(i, EndSeg(pool, n), left) BY <1>2, Cuts DEF AllocBack, Inv
  <2> QED BY <1>2, <2>1, CutInv DEF AllocBack
<1>3. ASSUME NEW h \in Holder, NEW g \in Holder, NEW part \in Parts, Share(h, g, part) PROVE Inv'
  BY <1>3, ShareInv
<1>4. ASSUME NEW h \in Holder, Release(h) PROVE Inv' BY <1>4, ReleaseInv
<1>5. CASE UNCHANGED vars
  BY <1>5 DEF vars, Inv, PoolOK, HeldOK, StatsOK, FreePages, Pages, Stats, InUse
<1> QED BY <1>1, <1>2, <1>3, <1>4, <1>5 DEF Next

\* The free list covers exactly the unreferenced pages with runs that keep a
\* page between them, and the cumulative counters agree with the pages in use,
\* for a pool of any size (assert_conserved of segment.rs).
THEOREM NothingLeaks == Spec => []FreeListExact
<1>1. Init => Inv BY InitInv
<1>2. Inv /\ [Next]_vars => Inv' BY NextInv
<1>3. Inv => FreeListExact BY InvExact
<1> QED BY <1>1, <1>2, <1>3, PTL DEF Spec

-----------------------------------------------------------------------------
(* The refinement *)

LEMMA CutIsGrant ==
  ASSUME Inv, NEW h \in Holder, Idle(h), NEW i, NEW seg, NEW left, Cut(i, seg, left), Granted(h, seg)
  PROVE  Abs!Next
<1>1. SegPages(held[h]) = {} BY NoPages DEF Idle
<1>2. /\ pool'.refs = [p \in Pages |-> IF p \in SegPages(seg) THEN 1 ELSE pool.refs[p]]
      /\ SegPages(seg) \subseteq Pages /\ SegPages(seg) # {}
  BY CutRefs DEF Inv
<1>3. \A p \in SegPages(seg) : pool.refs[p] = 0 BY DEF Cut, FreePages
<1>4. [x \in Holder |-> SegPages(held'[x])] = [[x \in Holder |-> SegPages(held[x])] EXCEPT ![h] = SegPages(seg)]
  BY DEF Inv, HeldOK, Granted
<1>5. Abs!Grant(h, SegPages(seg)) BY <1>1, <1>2, <1>3, <1>4 DEF Abs!Grant, Pages
<1>6. SegPages(seg) \in SUBSET (0..Total - 1) BY <1>2 DEF Pages
<1> QED BY <1>5, <1>6 DEF Abs!Next

LEMMA StepRefines == Inv /\ [Next]_vars => [Abs!Next]_(Abs!vars)
<1> SUFFICES ASSUME Inv, [Next]_vars PROVE [Abs!Next]_(Abs!vars) OBVIOUS
<1>1. ASSUME NEW h \in Holder, NEW n \in Sizes, AllocFront(h, n) PROVE Abs!Next
  <2>1. PICK i, left : Cut(i, AllocSeg(pool, n), left) BY <1>1, Cuts DEF AllocFront, Inv
  <2> QED BY <1>1, <2>1, CutIsGrant DEF AllocFront
<1>2. ASSUME NEW h \in Holder, NEW n \in Sizes, AllocBack(h, n) PROVE Abs!Next
  <2>1. PICK i, left : Cut(i, EndSeg(pool, n), left) BY <1>2, Cuts DEF AllocBack, Inv
  <2> QED BY <1>2, <2>1, CutIsGrant DEF AllocBack
<1>3. ASSUME NEW h \in Holder, NEW g \in Holder, NEW part \in Parts, Share(h, g, part) PROVE Abs!Next
  <2>1. SegPages(held[h]) = {} BY <1>3, NoPages DEF Share, Idle
  <2>2. /\ SegPages(part) \subseteq Pages /\ SegPages(part) # {}
        /\ pool'.refs = [p \in Pages |-> IF p \in SegPages(part) THEN pool.refs[p] + 1 ELSE pool.refs[p]]
    BY <1>3, ShareInv
  <2>3. \A p \in SegPages(part) : pool.refs[p] >= 1 BY <1>3 DEF Share, CanRef
  <2>4. [x \in Holder |-> SegPages(held'[x])] = [[x \in Holder |-> SegPages(held[x])] EXCEPT ![h] = SegPages(part)]
    BY <1>3 DEF Inv, HeldOK, Share
  <2>5. Abs!Share(h, SegPages(part)) BY <2>1, <2>2, <2>3, <2>4 DEF Abs!Share, Pages
  <2>6. SegPages(part) \in SUBSET (0..Total - 1) BY <2>2 DEF Pages
  <2> QED BY <2>5, <2>6 DEF Abs!Next
<1>4. ASSUME NEW h \in Holder, Release(h) PROVE Abs!Next
  <2>1. /\ held[h] \in Run
        /\ pool'.refs = [p \in Pages |-> IF p \in SegPages(held[h]) THEN pool.refs[p] - 1 ELSE pool.refs[p]]
    BY <1>4, ReleaseInv
  <2>2. SegPages(held[h]) # {} BY <2>1, RunFacts
  <2>3. [x \in Holder |-> SegPages(held'[x])] = [[x \in Holder |-> SegPages(held[x])] EXCEPT ![h] = {}]
    BY <1>4, NoPages DEF Inv, HeldOK, Release
  <2>4. Abs!Release(h) BY <2>1, <2>2, <2>3 DEF Abs!Release, Pages
  <2> QED BY <2>4 DEF Abs!Next
<1>5. CASE UNCHANGED vars BY <1>5 DEF vars, Abs!vars
<1> QED BY <1>1, <1>2, <1>3, <1>4, <1>5 DEF Next

\* Every step of the pool is a grant, a share or a release of SharedPages: an
\* allocation hands out unreferenced pages only, and a shared page outlives
\* all its holders but the last.
THEOREM PoolRefines == Spec => ImplementsSharedPages
<1>1. Init => Inv BY InitInv
<1>2. Inv /\ [Next]_vars => Inv' BY NextInv
<1>3. Inv /\ [Next]_vars => [Abs!Next]_(Abs!vars) BY StepRefines
<1>4. Init => Abs!Init
  <2> SUFFICES ASSUME Init PROVE Abs!Init OBVIOUS
  <2>1. pool.refs = [p \in 0..Total - 1 |-> 0] BY DEF Init, NewPool
  <2>2. [h \in Holder |-> SegPages(held[h])] = [h \in Holder |-> {}] BY NoPages DEF Init
  <2> QED BY <2>1, <2>2 DEF Abs!Init
<1> QED BY <1>1, <1>2, <1>3, <1>4, PTL DEF Spec, ImplementsSharedPages, Abs!Spec

-----------------------------------------------------------------------------
(* What SharedPages promises.  Counts are exact is the whole invariant: a    *)
(* count of zero says nothing about holders unless counts are exact, and     *)
(* the exactness of a step needs the holders before it to be exact.          *)

Hold == [h \in Holder |-> SegPages(held[h])]

\* The pages S get a reference more.
Adds(refs, S, counts) == /\ counts = [p \in Pages |-> counts[p]]
                         /\ \A p \in Pages : counts[p] = IF p \in S THEN refs[p] + 1 ELSE refs[p]

\* Holder h comes to hold the pages S.
Holds(hold, h, S, after) == after = [hold EXCEPT ![h] = S]

HoldersIn(hold, p) == {h \in Holder : p \in hold[h]}

Exact(refs, hold) == /\ refs \in [Pages -> Nat]
                     /\ hold \in [Holder -> SUBSET Pages]
                     /\ \A p \in Pages : refs[p] = Cardinality(HoldersIn(hold, p))

\* The holders of a page are finitely many, and none exactly when it has no
\* reference.
LEMMA HoldersFinite ==
  ASSUME NEW hold, NEW p
  PROVE  /\ IsFiniteSet(HoldersIn(hold, p))
         /\ Cardinality(HoldersIn(hold, p)) \in Nat
         /\ Cardinality(HoldersIn(hold, p)) = 0 <=> HoldersIn(hold, p) = {}
BY PoolAssumption, FS_Subset, FS_CardinalityType, FS_EmptySet DEF HoldersIn

\* A holder that starts to hold S adds one to the holders of each page of S
\* and leaves the holders of the other pages alone.
LEMMA HoldAdds ==
  ASSUME NEW hold \in [Holder -> SUBSET Pages], NEW h \in Holder, NEW S \in SUBSET Pages, hold[h] = {},
         NEW p \in Pages, NEW after, Holds(hold, h, S, after)
  PROVE  /\ p \in S    => Cardinality(HoldersIn(after, p)) = Cardinality(HoldersIn(hold, p)) + 1
         /\ p \notin S => HoldersIn(after, p) = HoldersIn(hold, p)
<1>1. h \notin HoldersIn(hold, p) BY DEF HoldersIn, Holds
<1>2. p \in S => HoldersIn(after, p) = HoldersIn(hold, p) \cup {h} BY DEF HoldersIn, Holds
<1>3. p \notin S => HoldersIn(after, p) = HoldersIn(hold, p) BY DEF HoldersIn, Holds
<1>4. Cardinality(HoldersIn(hold, p) \cup {h}) = Cardinality(HoldersIn(hold, p)) + 1
  BY <1>1, HoldersFinite, FS_AddElement
<1> QED BY <1>2, <1>3, <1>4

\* A holder that lets go removes itself from the holders of what it held.
LEMMA HoldDrops ==
  ASSUME NEW hold \in [Holder -> SUBSET Pages], NEW h \in Holder, NEW p \in Pages,
         NEW after, Holds(hold, h, {}, after)
  PROVE  /\ p \in hold[h]    => Cardinality(HoldersIn(after, p)) = Cardinality(HoldersIn(hold, p)) - 1
         /\ p \notin hold[h] => HoldersIn(after, p) = HoldersIn(hold, p)
<1>1. p \in hold[h] => h \in HoldersIn(hold, p) BY DEF HoldersIn, Holds
<1>2. p \in hold[h] => HoldersIn(after, p) = HoldersIn(hold, p) \ {h} BY DEF HoldersIn, Holds
<1>3. p \notin hold[h] => HoldersIn(after, p) = HoldersIn(hold, p) BY DEF HoldersIn, Holds
<1>4. p \in hold[h] => Cardinality(HoldersIn(hold, p) \ {h}) = Cardinality(HoldersIn(hold, p)) - 1
  BY <1>1, HoldersFinite, FS_RemoveElement
<1> QED BY <1>2, <1>3, <1>4

LEMMA HoldExact ==
  ASSUME NEW refs, NEW hold, Exact(refs, hold), NEW h \in Holder, NEW S \in SUBSET Pages, hold[h] = {},
         NEW after, Holds(hold, h, S, after), NEW counts, Adds(refs, S, counts)
  PROVE  Exact(counts, after)
<1>1. hold \in [Holder -> SUBSET Pages] /\ after \in [Holder -> SUBSET Pages] BY DEF Exact, Holds
<1>2. ASSUME NEW p \in Pages PROVE counts[p] \in Nat /\ Cardinality(HoldersIn(after, p)) = counts[p]
  <2>1. /\ refs[p] = Cardinality(HoldersIn(hold, p)) /\ refs[p] \in Nat
        /\ counts[p] = IF p \in S THEN refs[p] + 1 ELSE refs[p]
    BY DEF Exact, Adds
  <2>2. /\ p \in S    => Cardinality(HoldersIn(after, p)) = Cardinality(HoldersIn(hold, p)) + 1
        /\ p \notin S => HoldersIn(after, p) = HoldersIn(hold, p)
    BY <1>1, HoldAdds
  <2> QED BY <2>1, <2>2
<1>3. counts \in [Pages -> Nat] BY <1>2 DEF Adds
<1> QED BY <1>1, <1>2, <1>3 DEF Exact

LEMMA ReleaseExact ==
  ASSUME NEW refs, NEW hold, Exact(refs, hold), NEW h \in Holder,
         NEW after, Holds(hold, h, {}, after), NEW counts, counts = [p \in Pages |-> counts[p]],
         \A p \in Pages : counts[p] = IF p \in hold[h] THEN refs[p] - 1 ELSE refs[p]
  PROVE  Exact(counts, after)
<1>1. hold \in [Holder -> SUBSET Pages] /\ after \in [Holder -> SUBSET Pages] BY DEF Exact, Holds
<1>2. ASSUME NEW p \in Pages PROVE counts[p] \in Nat /\ Cardinality(HoldersIn(after, p)) = counts[p]
  <2>1. refs[p] = Cardinality(HoldersIn(hold, p)) /\ refs[p] \in Nat BY DEF Exact
  <2>2. /\ p \in hold[h]    => Cardinality(HoldersIn(after, p)) = Cardinality(HoldersIn(hold, p)) - 1
        /\ p \notin hold[h] => HoldersIn(after, p) = HoldersIn(hold, p)
    BY <1>1, HoldDrops
  <2> QED BY <2>1, <2>2, HoldersFinite
<1>3. counts \in [Pages -> Nat] BY <1>2
<1> QED BY <1>1, <1>2, <1>3 DEF Exact

LEMMA SharedInit == Abs!Init => Exact(pool.refs, Hold)
<1> SUFFICES ASSUME Abs!Init PROVE Exact(pool.refs, Hold) OBVIOUS
<1>1. pool.refs = [p \in Pages |-> 0] /\ Hold = [h \in Holder |-> {}] BY DEF Abs!Init, Pages, Hold
<1>2. \A p : HoldersIn(Hold, p) = {} BY <1>1 DEF HoldersIn
<1>3. \A p : Cardinality(HoldersIn(Hold, p)) = 0 BY <1>2, FS_EmptySet
<1> QED BY <1>1, <1>3 DEF Exact

LEMMA SharedNext == Exact(pool.refs, Hold) /\ [Abs!Next]_(Abs!vars) => Exact(pool.refs, Hold)'
<1> SUFFICES ASSUME Exact(pool.refs, Hold), [Abs!Next]_(Abs!vars) PROVE Exact(pool'.refs, Hold') BY DEF Exact, HoldersIn, Pages
<1>0. Exact(pool.refs, Hold) OBVIOUS
<1>1. ASSUME NEW h \in Holder, NEW S \in SUBSET (0..Total - 1), Abs!Grant(h, S) PROVE Exact(pool'.refs, Hold')
  <2> DEFINE after == Hold'
             counts == pool'.refs
  <2>1. counts = [p \in Pages |-> IF p \in S THEN 1 ELSE pool.refs[p]]
    BY <1>1 DEF Abs!Grant, Pages
  <2>2. Holds(Hold, h, S, after) /\ Hold[h] = {} /\ S \in SUBSET Pages
    BY <1>1 DEF Abs!Grant, Hold, Pages, Holds
  <2>3. \A p \in S : pool.refs[p] = 0 BY <1>1 DEF Abs!Grant
  <2>4. Adds(pool.refs, S, counts)
    <3> HIDE DEF after, counts
    <3>1. counts = [p \in Pages |-> counts[p]] BY <2>1
    <3>2. ASSUME NEW p \in Pages PROVE counts[p] = IF p \in S THEN pool.refs[p] + 1 ELSE pool.refs[p]
      <4>1. counts[p] = IF p \in S THEN 1 ELSE pool.refs[p] BY <2>1
      <4>2. CASE p \in S
        <5>1. pool.refs[p] = 0 BY <2>3, <4>2
        <5> QED BY <4>1, <4>2, <5>1
      <4> QED BY <4>1, <4>2
    <3> QED BY <3>1, <3>2 DEF Adds
  <2> HIDE DEF after, counts
  <2>5. Exact(counts, after) BY <1>0, <2>2, <2>4, HoldExact, Zenon
  <2> QED BY <2>5 DEF after, counts
<1>2. ASSUME NEW h \in Holder, NEW S \in SUBSET (0..Total - 1), Abs!Share(h, S) PROVE Exact(pool'.refs, Hold')
  <2> DEFINE after == Hold'
             counts == pool'.refs
  <2>1. counts = [p \in Pages |-> IF p \in S THEN pool.refs[p] + 1 ELSE pool.refs[p]]
    BY <1>2 DEF Abs!Share, Pages
  <2>2. Holds(Hold, h, S, after) /\ Hold[h] = {} /\ S \in SUBSET Pages
    BY <1>2 DEF Abs!Share, Hold, Pages, Holds
  <2>3. \A p \in S : pool.refs[p] >= 1 BY <1>2 DEF Abs!Share
  <2>4. Adds(pool.refs, S, counts)
    <3> HIDE DEF after, counts
    <3>1. counts = [p \in Pages |-> counts[p]] BY <2>1
    <3>2. \A p \in Pages : counts[p] = IF p \in S THEN pool.refs[p] + 1 ELSE pool.refs[p] BY <1>0, <2>1, <2>3 DEF Exact
    <3> QED BY <3>1, <3>2 DEF Adds
  <2> HIDE DEF after, counts
  <2>5. Exact(counts, after) BY <1>0, <2>2, <2>4, HoldExact, Zenon
  <2> QED BY <2>5 DEF after, counts
<1>3. ASSUME NEW h \in Holder, Abs!Release(h) PROVE Exact(pool'.refs, Hold')
  <2> DEFINE after == Hold'
             counts == pool'.refs
  <2>1. counts = [p \in Pages |-> IF p \in Hold[h] THEN pool.refs[p] - 1 ELSE pool.refs[p]]
    BY <1>3 DEF Abs!Release, Pages, Hold
  <2>2. Holds(Hold, h, {}, after) BY <1>3 DEF Abs!Release, Hold, Holds
  <2>3. /\ counts = [p \in Pages |-> counts[p]]
        /\ \A p \in Pages : counts[p] = IF p \in Hold[h] THEN pool.refs[p] - 1 ELSE pool.refs[p]
    BY <2>1
  <2> HIDE DEF after, counts
  <2>4. Exact(counts, after) BY <2>2, <2>3, ReleaseExact
  <2> QED BY <2>4 DEF after, counts
<1>4. CASE UNCHANGED Abs!vars BY <1>4 DEF Abs!vars, Hold
<1> QED BY <1>1, <1>2, <1>3, <1>4 DEF Abs!Next

LEMMA SharedInvariant == Abs!Spec => []Exact(pool.refs, Hold)
BY SharedInit, SharedNext, PTL DEF Abs!Spec

\* Counting as SharedPages counts.
LEMMA SameCount == \A S : Abs!Cardinality(S) = Cardinality(S)
BY DEF Abs!Cardinality, Cardinality

LEMMA SameHolders == \A p : Abs!HoldersOf(p) = HoldersIn(Hold, p)
BY DEF Abs!HoldersOf, HoldersIn, Hold

\* A page's count is the number of its holders, always: no leak, no double
\* free, whatever the order of grants, shares and releases.
THEOREM CountsAreExact == Abs!Spec => []Abs!RefsExact
<1>1. Exact(pool.refs, Hold) => Abs!RefsExact BY SameCount, SameHolders DEF Exact, Abs!RefsExact, Pages
<1> QED BY <1>1, SharedInvariant, PTL

\* A page somebody holds is never free.
THEOREM HeldPagesStayLive == Abs!Spec => []Abs!NeverFreedUnderHolder
<1>1. Exact(pool.refs, Hold) => Abs!NeverFreedUnderHolder
  <2> SUFFICES ASSUME Exact(pool.refs, Hold), NEW p \in 0..Total - 1, HoldersIn(Hold, p) # {} PROVE pool.refs[p] > 0
    BY SameHolders DEF Abs!NeverFreedUnderHolder
  <2> QED BY HoldersFinite DEF Exact, Pages
<1> QED BY <1>1, SharedInvariant, PTL

\* No step makes a holder the owner of a mix of free and shared pages.
THEOREM GrantsAreUniform == Abs!Spec => [][Abs!NoMixedGrant]_(Abs!vars)
<1>1. Exact(pool.refs, Hold) /\ [Abs!Next]_(Abs!vars) => [Abs!NoMixedGrant]_(Abs!vars)
  <2> SUFFICES ASSUME Exact(pool.refs, Hold), Abs!Next, NEW h \in Holder, Hold[h] = {}, Hold'[h] # {}
               PROVE  \/ \A p \in Hold'[h] : HoldersIn(Hold, p) = {}
                      \/ \A p \in Hold'[h] : HoldersIn(Hold, p) # {}
    BY SameHolders DEF Abs!NoMixedGrant, Hold
  <2>1. \A p \in Pages : (pool.refs[p] = 0) <=> (HoldersIn(Hold, p) = {}) BY HoldersFinite DEF Exact
  <2>2. ASSUME NEW g \in Holder, Abs!Release(g) PROVE FALSE
    BY <2>2 DEF Abs!Release, Hold
  <2>3. PICK g \in Holder, S \in SUBSET (0..Total - 1) : Abs!Grant(g, S) \/ Abs!Share(g, S) BY <2>2 DEF Abs!Next
  <2>4. Hold' = [Hold EXCEPT ![g] = S] BY <2>3 DEF Abs!Grant, Abs!Share, Hold
  <2>5. g = h /\ Hold'[h] = S BY <2>4 DEF Hold
  <2>6. (\A p \in S : pool.refs[p] = 0) \/ (\A p \in S : pool.refs[p] >= 1) BY <2>3 DEF Abs!Grant, Abs!Share
  <2>7. S \subseteq Pages BY DEF Pages
  <2>8. (\A p \in S : HoldersIn(Hold, p) = {}) \/ (\A p \in S : HoldersIn(Hold, p) # {}) BY <2>1, <2>6, <2>7
  <2> QED BY <2>5, <2>8
<1> QED BY <1>1, SharedInvariant, PTL DEF Abs!Spec

\* The reference count of a page is the number of the holders of segments it
\* lies in, in the pool as in SharedPages.
THEOREM PoolCountsExact == Spec => []RefsExact
<1>1. Spec => Abs!Spec BY PoolRefines DEF ImplementsSharedPages
<1>2. Abs!RefsExact => RefsExact BY DEF RefsExact
<1> QED BY <1>1, <1>2, CountsAreExact, PTL
=============================================================================
