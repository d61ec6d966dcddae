---------------------------- MODULE KvSegmentOps ----------------------------
(***************************************************************************)
(* The operations of the KV segment pool (crates/memory/src/segment.rs) as *)
(* functions from a pool to a pool.  A pool is a record                    *)
(*   refs : page -> reference count, 0 for a free page                     *)
(*   free : the free runs, most recently released first.                   *)
(* The pool is owned by one thread, so each operation is atomic; the       *)
(* modules that extend this one decide who calls it and when.  The four    *)
(* cumulative counters live in KvSegmentPool, the only module that         *)
(* observes them.                                                          *)
(***************************************************************************)
EXTENDS Integers, Sequences, SequencesExt, FiniteSetsExt

Seg(b, n) == [base |-> b, len |-> n]
SegEnd(s) == s.base + s.len
SegPages(s) == s.base .. (SegEnd(s) - 1)

NewPool(total) ==
  [refs |-> [p \in 0 .. total - 1 |-> 0],
   free |-> IF total = 0 THEN <<>> ELSE <<Seg(0, total)>>]

InUse(pool) == {p \in DOMAIN pool.refs : pool.refs[p] > 0}
FreeCount(pool) == FoldLeft(LAMBDA n, r : n + r.len, 0, pool.free)

----------------------------------------------------------------------------
\* Allocation.

\* `seg` is cut from the i-th free run; what is left of the run goes to the
\* front of the list.
CutFrom(pool, i, seg, left) ==
  [refs |-> [p \in DOMAIN pool.refs |->
               IF p \in SegPages(seg) THEN 1 ELSE pool.refs[p]],
   free |-> (IF left.len > 0 THEN <<left>> ELSE <<>>) \o RemoveAt(pool.free, i)]

\* First fit from the front of the list; 0 when no single run is long enough.
FirstFit(pool, n) == SelectInSeq(pool.free, LAMBDA r : r.len >= n)
LastFit(pool, n) == SelectLastInSeq(pool.free, LAMBDA r : r.len >= n)

CanAlloc(pool, n) == n > 0 /\ FirstFit(pool, n) # 0

AllocSeg(pool, n) == Seg(pool.free[FirstFit(pool, n)].base, n)
Alloc(pool, n) ==
  LET i == FirstFit(pool, n) IN
  LET run == pool.free[i]
  IN  CutFrom(pool, i, Seg(run.base, n), Seg(run.base + n, run.len - n))

\* alloc_from_end scans the list from the back and cuts the end of the run.
EndSeg(pool, n) == Seg(SegEnd(pool.free[LastFit(pool, n)]) - n, n)
AllocFromEnd(pool, n) ==
  LET i == LastFit(pool, n) IN
  LET run == pool.free[i]
  IN  CutFrom(pool, i, EndSeg(pool, n), Seg(run.base, run.len - n))

----------------------------------------------------------------------------
\* Sharing: one more reference on every page, all of which must be live.

\* A share that counts the first page only (mutant).
RefFirstPage(pool, seg) == [pool EXCEPT !.refs[seg.base] = @ + 1]

CanRef(pool, seg) == \A p \in SegPages(seg) : pool.refs[p] >= 1
Ref(pool, seg) ==
  [pool EXCEPT !.refs = [p \in DOMAIN @ |-> IF p \in SegPages(seg) THEN @[p] + 1 ELSE @[p]]]

----------------------------------------------------------------------------
\* Release: one reference less on every page; the pages that reach 0 go back
\* to the free list as maximal runs, each at the front.

\* An insertion that looks for the left neighbour only (mutant).
InsertRunLeftOnly(free, run) ==
  LET absorb(acc, other) ==
        IF SegEnd(other) = acc.run.base
        THEN [acc EXCEPT !.run = Seg(other.base, @.len + other.len)]
        ELSE [acc EXCEPT !.kept = Append(@, other)]
      done == FoldLeft(absorb, [run |-> run, kept |-> <<>>], free)
  IN  <<done.run>> \o done.kept

\* The scan of insert_run: absorb every run that touches the one being
\* inserted (which grows as it does), keep the others in their order.
Absorb(acc, other) ==
  IF SegEnd(other) = acc.run.base
  THEN [acc EXCEPT !.run = Seg(other.base, acc.run.len + other.len)]
  ELSE IF SegEnd(acc.run) = other.base
  THEN [acc EXCEPT !.run = Seg(acc.run.base, acc.run.len + other.len)]
  ELSE [acc EXCEPT !.kept = Append(acc.kept, other)]

InsertRun(free, run) ==
  LET done == FoldLeft(Absorb, [run |-> run, kept |-> <<>>], free)
  IN  <<done.run>> \o done.kept

\* The pages that reach 0, in ascending order, as maximal runs.
Extend(refs, runs, p) ==
  IF refs[p] # 1 THEN runs
  ELSE IF runs # <<>> /\ SegEnd(Last(runs)) = p
  THEN [runs EXCEPT ![Len(runs)] = Seg(Last(runs).base, Last(runs).len + 1)]
  ELSE Append(runs, Seg(p, 1))

ZeroedRuns(refs, seg) ==
  FoldLeft(LAMBDA runs, p : Extend(refs, runs, p),
           <<>>, [i \in 1 .. seg.len |-> seg.base + i - 1])

CanUnref(pool, seg) == \A p \in SegPages(seg) : pool.refs[p] >= 1
Zeroed(pool, seg) == {p \in SegPages(seg) : pool.refs[p] = 1}
Unref(pool, seg) ==
  [refs |-> [p \in DOMAIN pool.refs |->
               IF p \in SegPages(seg) THEN pool.refs[p] - 1 ELSE pool.refs[p]],
   free |-> FoldLeft(InsertRun, pool.free, ZeroedRuns(pool.refs, seg))]
=============================================================================
