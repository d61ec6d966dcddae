----------------------------- MODULE KvExecutor -----------------------------
(***************************************************************************)
(* The batch executor (bin/reinfer/src/sched_loop.rs, CudaBatchExecutor)   *)
(* as functions on a record                                                *)
(*   pool   : the page pool (KvSegmentOps)                                 *)
(*   store  : token slot of the shared pool -> KV                          *)
(*   engine : position in the engine's own pool -> KV                      *)
(*   single : the request whose KV lives in the engine pool.               *)
(* The KV of a token depends on every token before it, so a KV is the      *)
(* sequence of tokens it was computed from, Garbage when its computation   *)
(* read something else than that.  The engine treats its layers alike, so  *)
(* one layer of its pool is kept; a layer of a segment starts LayerPages   *)
(* after the one before.                                                   *)
(***************************************************************************)
EXTENDS KvSegmentOps, SchedAdmission

Garbage == <<>>
NoSingle == [id |-> "none", seg |-> Seg(0, 0), kvLen |-> 0]
Layers == 0 .. NLayer - 1
Anchor == EndSeg(NewPool(KvPages), WindowPages)
PhantomToken == 0

NewExec ==
  [pool   |-> AllocFromEnd(NewPool(KvPages), WindowPages),
   store  |-> [s \in 0 .. KvPages * Block - 1 |-> Garbage],
   engine |-> [i \in 0 .. LayerPages * Block - 1 |-> Garbage],
   single |-> NoSingle]

\* Slot of position i in layer li of a segment or cached run at page `base`.
SlotOf(base, li, i) == (base + li * LayerPages) * Block + i

\* What position `pos` holds after `token` is decoded there, reading kv[0..pos).
KvAfter(kv, pos, token) ==
  IF pos = 0 THEN <<token>>
  ELSE IF /\ Len(kv[pos - 1]) = pos
          /\ \A i \in 0 .. pos - 1 : kv[i] = SubSeq(kv[pos - 1], 1, i + 1)
       THEN Append(kv[pos - 1], token)
       ELSE Garbage

----------------------------------------------------------------------------
\* Copies between the pools, whole pages of every layer.

CopyEngineToPool(x, seg, page0, pages) ==
  LET positions == 0 .. pages * Block - 1
      layersOf(s) == {li \in Layers : s - SlotOf(seg.base + page0, li, 0) \in positions}
  IN  [x EXCEPT !.store = [s \in DOMAIN @ |->
         IF layersOf(s) = {} THEN @[s]
         ELSE x.engine[s - SlotOf(seg.base + page0, Min(layersOf(s)), 0)]]]

CopyPoolToEngine(x, base, pages) ==
  LET at(i) == {x.store[SlotOf(base, li, i)] : li \in Layers}
  IN  [x EXCEPT !.engine = [i \in DOMAIN @ |->
         IF i >= pages * Block THEN @[i]
         ELSE IF Cardinality(at(i)) = 1 THEN CHOOSE kv \in at(i) : TRUE
         ELSE Garbage]]

\* A flush forgotten: the singleton is dropped and stays in the engine pool
\* only (mutant).
FlushNothing(x) == [x EXCEPT !.single = NoSingle]

\* The singleton leaves the engine pool for its segment.
FlushSingleton(x) ==
  IF x.single = NoSingle THEN x
  ELSE [CopyEngineToPool(x, x.single.seg, 0, PagesFor(x.single.kvLen)) EXCEPT !.single = NoSingle]

DropSingleton(x, id) == IF x.single.id = id THEN [x EXCEPT !.single = NoSingle] ELSE x

----------------------------------------------------------------------------
\* Prefill.  The engine computes a chunk from position 0 on its own.

Prefill(x, ids) ==
  LET y == FlushSingleton(x)
  IN  [y EXCEPT !.engine = [i \in DOMAIN @ |->
         IF i < Len(ids) THEN SubSeq(ids, 1, i + 1) ELSE @[i]]]

\* The cached run first, then one step for every token of the suffix.
PrefillPrefixHit(x, base, keyLen, suffix) ==
  LET y == CopyPoolToEngine(FlushSingleton(x), base, keyLen \div Block)
      step(e, j) == [e EXCEPT ![keyLen + j - 1] = KvAfter(e, keyLen + j - 1, suffix[j])]
  IN  [y EXCEPT !.engine = FoldLeft(step, @, [j \in 1 .. Len(suffix) |-> j])]

CommitStage(x, seg, start, len) == CopyEngineToPool(x, seg, start \div Block, PagesFor(len))

AdoptSingleton(x, id, seg, start, len) ==
  LET y == IF start > 0 THEN CopyPoolToEngine(x, seg.base, PagesFor(start)) ELSE x
  IN  [y EXCEPT !.single = [id |-> id, seg |-> seg, kvLen |-> start + len]]

----------------------------------------------------------------------------
\* Decode.  `rs` maps the ids of the batch to records with token, pos, kvLen
\* and seg.

DecodeAlone(x, id, r) ==
  LET y == IF x.single.id = id THEN x ELSE CopyPoolToEngine(x, r.seg.base, PagesFor(r.kvLen))
  IN  [y EXCEPT !.engine[r.pos] = KvAfter(y.engine, r.pos, r.token),
                !.single = [id |-> id, seg |-> r.seg, kvLen |-> r.kvLen]]

\* What a batch writes to the segments; the anchor rides along as a phantom.
BatchWrites(store, rs) ==
  LET phantom == [token |-> PhantomToken, pos |-> 0, kvLen |-> 1, seg |-> Anchor]
      layerKv(r, li) == [i \in 0 .. r.pos |-> store[SlotOf(r.seg.base, li, i)]]
  IN  {<<SlotOf(r.seg.base, li, r.pos), KvAfter(layerKv(r, li), r.pos, r.token)>> :
         r \in {rs[id] : id \in DOMAIN rs} \union {phantom}, li \in Layers}

DecodeTogether(x, rs) ==
  LET y == FlushSingleton(x)
      writes == BatchWrites(y.store, rs)
  IN  [y EXCEPT !.store = [s \in DOMAIN @ |->
         IF \E w \in writes : w[1] = s THEN (CHOOSE w \in writes : w[1] = s)[2] ELSE @[s]]]

DecodeBatch(x, rs) ==
  IF Cardinality(DOMAIN rs) = 1
  THEN LET id == CHOOSE id \in DOMAIN rs : TRUE IN DecodeAlone(x, id, rs[id])
  ELSE DecodeTogether(x, rs)

----------------------------------------------------------------------------
\* Segments and cached runs.

FreeSegment(x, seg) == [x EXCEPT !.pool = Unref(@, seg)]

LayerRun(base, pages, li) == Seg(base + li * LayerPages, pages)
LayerRuns(base, pages) == [n \in 1 .. NLayer |-> LayerRun(base, pages, n - 1)]

\* An eviction that gives back the run of the first layer only (mutant).
UnrefFirstLayer(x, base, pages) == [x EXCEPT !.pool = Unref(@, LayerRun(base, pages, 0))]

UnrefPrefix(x, base, pages) == [x EXCEPT !.pool = FoldLeft(Unref, @, LayerRuns(base, pages))]

\* A refill that trusts the segment to hold the KV (mutant).
RefillUnflushed(x, id, seg, pages) ==
  FreeSegment([x EXCEPT !.pool = FoldLeft(Ref, @, LayerRuns(seg.base, pages)), !.single = NoSingle], seg)

\* The request's own singleton is flushed first; any singleton is taken.
RefillPrefix(x, id, seg, pages) ==
  LET y == IF x.single.id = id THEN CopyEngineToPool(x, seg, 0, PagesFor(x.single.kvLen)) ELSE x
  IN  FreeSegment([y EXCEPT !.pool = FoldLeft(Ref, @, LayerRuns(seg.base, pages)), !.single = NoSingle],
                  seg)
=============================================================================
