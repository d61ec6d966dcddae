---------------------------- MODULE LayerGeometry ----------------------------
(***************************************************************************)
(* The geometry of the fused decode kernels: FusedDecodeKernels::          *)
(* build_plans and LayerFusedKernels::build decide from a model's shape,   *)
(* three environment words and the device which kernel runs a layer, on    *)
(* how many blocks, and which prefix of them crosses each barrier.  The    *)
(* stages of the kernel then count on those prefixes: a stage's blocks     *)
(* read what the blocks of earlier stages wrote.                           *)
(***************************************************************************)
EXTENDS Integers, Sequences, SequencesExt

Most(a, b) == IF a < b THEN b ELSE a
Least(a, b) == IF a < b THEN a ELSE b
CeilDiv(n, m) == (n + m - 1) \div m

LayerFusedSpec(Num) ==
    [h : Num, q_heads : Num, kv_heads : Num, d : Num, ffn : Num, vocab : Num, max_kv : Num]

-----------------------------------------------------------------------------
(* The plans of the vector products and their partial sums *)

\* Columns are cut in 256s, the reduction in slabs, for some 96 or 192 blocks.
Cols(n) == Most(CeilDiv(n, 256), 1)
Slabs(n, k) ==
    Least(Most(CeilDiv(IF 2 * n < k THEN 192 ELSE 96, Cols(n)), 1), Most(k \div 32, 1))

Plan(n, k) == [n |-> n, k |-> k, slabs |-> Slabs(n, k)]

\* One row of the plan table per product, in the table's order.
Plans(m) ==
    LET nqk == m.q_heads * m.d
        kvk == m.kv_heads * m.d
    IN <<Plan(nqk, m.h), Plan(kvk, m.h), Plan(kvk, m.h), Plan(m.h, nqk),
         Plan(m.ffn, m.h), Plan(m.ffn, m.h), Plan(m.h, m.ffn), Plan(m.vocab, m.h)>>
Q == 1
K == 2
V == 3
O == 4
Gate == 5
Up == 6
Down == 7
Lm == 8

\* The partial sums of each product have a segment of one buffer, one after
\* the other; the head's is laid out for a single slab.
Offset(m, i) ==
    FoldLeft(LAMBDA off, p : off + p.n * p.slabs, 0, SubSeq(Plans(m), 1, i - 1))
PartialsLen(m) == Offset(m, Lm) + m.vocab

\* What the products write stays inside the buffer.
PartialsFit(m) == Offset(m, Lm) + m.vocab * Plans(m)[Lm].slabs <= PartialsLen(m)

\* The rows that share a launch: row i of a group starts at block ColOff.
Groups == {<<Q, K, V>>, <<O>>, <<Gate, Up>>, <<Down>>}
Blocks256(p) == Cols(p.n) * p.slabs
ColOff(m, group, j) ==
    FoldLeft(LAMBDA off, i : off + Blocks256(Plans(m)[i]), 0, SubSeq(group, 1, j - 1))
GroupGrid(m, group) == ColOff(m, group, Len(group) + 1)

\* The merged gate/up and down stage: the block of a down slab computes itself
\* the stripe of activations its part of the reduction lies in.
SlabFrom(p, s) == s * CeilDiv(p.k, p.slabs)
SlabTo(p, s) == Least(SlabFrom(p, s) + CeilDiv(p.k, p.slabs), p.k)
Merges(p, stripe) ==
    LET slab_k == CeilDiv(p.k, p.slabs)
        per_stripe == stripe \div slab_k
    IN /\ slab_k <= stripe
       /\ stripe % slab_k = 0
       /\ (p.slabs \div per_stripe) * stripe >= p.k
       /\ \A s \in 0..(p.slabs - 1) :
              LET lo == (s \div per_stripe) * stripe
              IN lo <= SlabFrom(p, s) /\ SlabTo(p, s) <= lo + stripe

\* The gates of the fused kernels and, above them, of the layer kernel.
FusedFits(m) ==
    /\ m.d >= 32
    /\ 256 % m.d = 0
    /\ m.h <= 1024
    /\ Merges(Plans(m)[Down], 256)

LayerFits(m) ==
    /\ m.d \in 64..256
    /\ 512 % m.d = 0
    /\ m.d % 2 = 0
    /\ m.h <= 1024
    /\ m.max_kv # 0
    /\ Merges(Plans(m)[Down], 512)

\* The slots of a head's region whose squares the head-norm's tree adds up,
\* from the last stride of the tree to its first.
TreeReads(d) ==
    FoldLeft(LAMBDA slots, st : slots \cup {s + st : s \in {x \in slots : x < st /\ x < d}},
             {0}, <<1, 2, 4, 8, 16, 32, 64>>)

\* The norm of a head is that of its own d elements: other slots of the region
\* hold what was in shared memory before.
NormExact(d) == TreeReads(d) = 0..(d - 1)

-----------------------------------------------------------------------------
(* The choice of a kernel *)

BlockWidth(word) == IF word = "off" THEN 1 ELSE 2      \* unset, or any other word
ColWidth(word) == CASE word = "2" -> 2 [] word = "4" -> 4 [] OTHER -> 1
PipeOn(word) == word = "on"

Chosen(words) ==
    LET w == BlockWidth(words.bw)
        wc == IF w = 2 THEN ColWidth(words.wc) ELSE 1
    IN [w |-> w, wc |-> wc, pipe |-> PipeOn(words.pipe) /\ w = 2 /\ wc = 1]

Entry(c) ==
    CASE c.w = 1 -> "layer_fused"
      [] c.w = 2 /\ c.wc = 1 /\ c.pipe -> "layer_fused_bw2_pipe"
      [] c.w = 2 /\ c.wc = 1 /\ ~c.pipe -> "layer_fused_bw2"
      [] c.w = 2 /\ c.wc = 2 -> "layer_fused_bw2_wc2"
      [] c.w = 2 /\ c.wc = 4 -> "layer_fused_bw2_wc4"

\* Two blocks of a widened kernel must fit an SM: fewer columns a thread, then
\* the narrow kernel, are taken otherwise.
Narrow(c, occ) == IF c.w = 2 /\ c.wc > 1 /\ occ[Entry(c)] < 2 THEN [c EXCEPT !.wc = 1] ELSE c
Single(c, occ) ==
    IF c.w = 2 /\ occ[Entry(c)] < 2 THEN [w |-> 1, wc |-> 1, pipe |-> FALSE] ELSE c
Settled(words, occ) == Single(Narrow(Chosen(words), occ), occ)

\* The occupancy queries that must have an answer.
Asked(words, occ) ==
    {Entry(Chosen(words)), Entry(Narrow(Chosen(words), occ)), Entry(Settled(words, occ))}

Shared(m) == (m.d + m.max_kv) * 4

\* What a build needs of the device; an engine goes without the kernel when
\* one of these fails.
Buildable(m, words, dev) ==
    /\ FusedFits(m) /\ LayerFits(m)
    /\ dev.smem > 0 /\ Shared(m) <= dev.smem
    /\ \A e \in Asked(words, dev.occ) : dev.occ[e] > 0
    /\ dev.sms > 0

-----------------------------------------------------------------------------
(* The stages' tiles, the grid and the barriers' participants *)

Tiles(p, tw) == CeilDiv(p.n, tw) * p.slabs

TileCounts(m, c) ==
    LET p == Plans(m)
        tw == IF c.w = 2 THEN 256 * c.wc ELSE 512
        tw7 == IF c.w = 2 /\ c.wc > 1 THEN 512 * c.wc ELSE 512
        tw_p2 == IF c.w = 2 THEN 256 ELSE 512
    IN [qkv |-> Tiles(p[Q], tw) + Tiles(p[K], tw) + Tiles(p[V], tw),
        p2 |-> CeilDiv(p[Q].n, tw_p2) + 2 * CeilDiv(p[K].n, tw_p2),
        heads |-> m.q_heads,
        o |-> Tiles(p[O], 512),
        gu |-> 2 * Tiles(p[Gate], tw),
        gu_d |-> Tiles(p[Down], tw7)]

MaxTiles(t) == Most(t.qkv, Most(t.p2, Most(t.heads, Most(t.o, Most(t.gu, t.gu_d)))))

\* The blocks that take a pair of tiles each.
Half(n) == CeilDiv(n, 2)

\* The prefixes of the two trees of the pipe kernel.
PipeA0(t, grid) == Least(Half(t.qkv), grid)
PipeB(t, grid) ==
    Least(Most(Half(t.gu), Most(t.gu_d, Most(t.o, Most(t.heads, Half(t.p2))))), grid)

Geometry(m, words, dev) ==
    LET c == Settled(words, dev.occ)
        t == TileCounts(m, c)
        grid == Most(Least(dev.occ[Entry(c)] * dev.sms, MaxTiles(t)), 1)
    IN [w |-> c.w, pipe |-> c.pipe, grid |-> grid, tiles |-> t]

\* P1, P2, P4 and P5 of the kernel.
AfterP2(g) == Least(Most(g.tiles.p2, g.tiles.heads), g.grid)
AfterFlash(g) == Least(Most(g.tiles.heads, g.tiles.o), g.grid)
AfterRms(g) == Least(g.tiles.gu, g.grid)
AfterGu(g) == Least(Most(g.tiles.gu, g.tiles.gu_d), g.grid)

\* The participants of the nine barriers in the order they are crossed: slots
\* 0, 1, 2, 3, 7, 4, 5, 6 and 8 of the table.
SlotWidths(g) ==
    LET pA0 == PipeA0(g.tiles, g.grid)
        pB == PipeB(g.tiles, g.grid)
    IN IF g.pipe
       THEN <<pA0, AfterP2(g), AfterFlash(g), pB, pB, pB, pB, pB, pB>>
       ELSE <<g.grid, AfterP2(g), AfterFlash(g), g.grid, g.grid, AfterRms(g), AfterGu(g),
              g.grid, g.grid>>

-----------------------------------------------------------------------------
(* What the stages count on *)

\* Stage s ends at the s-th barrier crossed:
\*   1 gather and p1_qkv, 2 p2_qkv, 3 flash, 4 p1_o, 5 add(o), 6 rms(o),
\*   7 p1_gu, 8 p2_gu_d, 9 add(down), 10 rms(down).
Stages == 1..10

\* The blocks that have not retired before stage s.
Alive(g, s) ==
    IF ~g.pipe THEN g.grid
    ELSE IF s = 1 THEN PipeA0(g.tiles, g.grid)
    ELSE Least(PipeA0(g.tiles, g.grid), PipeB(g.tiles, g.grid))

\* The prefix of the grid that has work in stage s: tiles are dealt out over
\* the whole grid, retired blocks included.
Workers(g, s) ==
    LET dealt(n) == Least(n, g.grid)
        pairs(n) == dealt(IF g.w = 2 THEN Half(n) ELSE n)
    IN CASE s = 1 -> pairs(g.tiles.qkv)
         [] s = 2 -> pairs(g.tiles.p2)
         [] s = 3 -> dealt(g.tiles.heads)
         [] s = 4 -> dealt(g.tiles.o)
         [] s \in {5, 9} -> IF g.pipe THEN PipeB(g.tiles, g.grid) ELSE g.grid
         [] s \in {6, 10} -> 1
         [] s = 7 -> pairs(g.tiles.gu)
         [] s = 8 -> dealt(g.tiles.gu_d)

\* Stage b reads what stage a wrote, or writes what it read: the partial sums,
\* q/k/v, the attention and the activations from stage to stage, xn (read by 1
\* and 7, written by 6 and 10) and x (read by 6, written by 5 and 9).  The
\* gather is done by every block, so all of them cross the first barrier.
Uses == {<<s, s + 1>> : s \in 1..9} \cup {<<1, 6>>, <<7, 10>>, <<6, 9>>, <<5, 9>>}

\* Some barrier between the two stages is crossed by the workers of both.
Ordered(g, a, b) ==
    \E j \in a..(b - 1) : /\ Workers(g, a) <= SlotWidths(g)[j]
                          /\ Workers(g, b) <= SlotWidths(g)[j]

\* Every tile has a block, every barrier is crossed by all the blocks it
\* counts, and every use waits for its stage.
StagesCovered(g) ==
    /\ \A s \in Stages : Workers(g, s) <= Alive(g, s)
    /\ \A j \in 1..9 : SlotWidths(g)[j] \in 1..Alive(g, j)
    /\ SlotWidths(g)[1] = Alive(g, 1)
    /\ \A u \in Uses : Ordered(g, u[1], u[2])

\* What build does not check of the pipe kernel's prefixes.
PipeFits(g) ==
    /\ PipeB(g.tiles, g.grid) <= PipeA0(g.tiles, g.grid)
    /\ AfterP2(g) <= PipeB(g.tiles, g.grid)
=============================================================================
