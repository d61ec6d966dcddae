---------------------------- MODULE MCGridBarrier ----------------------------
EXTENDS GridBarrier, LayerGeometry

\* Qwen3-0.6B, the model of the code's comments, and small ones: a grid wider
\* than some prefixes, a head as wide as a tile, a vocabulary of one block, a
\* down projection whose slabs do not divide a stripe.
Qwen == [h |-> 1024, q_heads |-> 16, kv_heads |-> 8, d |-> 128, ffn |-> 3072,
         vocab |-> 151936, max_kv |-> 4096]
Tiny == [h |-> 64, q_heads |-> 1, kv_heads |-> 1, d |-> 64, ffn |-> 512,
         vocab |-> 256, max_kv |-> 64]
Shapes == {Qwen, Tiny} \cup
    [h : {64, 896}, q_heads : {2, 14}, kv_heads : {2}, d : {32, 64, 256}, ffn : {512, 4864},
     vocab : {30000}, max_kv : {512, 30000}]

Settings == [bw : {"unset", "off"}, wc : {"unset", "2", "4"}, pipe : {"unset", "on"}]
Kernels == {Entry(Chosen(words)) : words \in Settings}
Devices == [occ : [Kernels -> {0, 1, 2}], sms : {3, 48}, smem : {101376}]

Builds == {<<m, words, dev>> \in {m \in Shapes : FusedFits(m) /\ LayerFits(m)} \X Settings \X Devices :
               Buildable(m, words, dev)}

\* Every layer kernel that is built is covered, but for pipe prefixes build
\* does not compare.
ASSUME CoveredUnlessPipe ==
    \A <<m, words, dev>> \in Builds :
        LET g == Geometry(m, words, dev) IN (g.pipe => PipeFits(g)) => StagesCovered(g)

\* The prefixes the comments give for Qwen3-0.6B fit.
ASSUME QwenPipe ==
    LET t == TileCounts(Qwen, [w |-> 2, wc |-> 1, pipe |-> TRUE])
        g == [w |-> 2, pipe |-> TRUE, grid |-> 170, tiles |-> t]
    IN PipeA0(t, g.grid) = 144 /\ PipeB(t, g.grid) = 96 /\ PipeFits(g)

\* Some prefixes that are built do not fit: the blocks a barrier counts have
\* retired, and the watchdog ends every step.
ASSUME SomePipeStalls ==
    \E <<m, words, dev>> \in Builds :
        LET g == Geometry(m, words, dev) IN g.pipe /\ ~StagesCovered(g)

\* The rows of a launch share its blocks out, and only a head of several slabs
\* outgrows the partials.
ASSUME RowsDisjoint ==
    \A m \in Shapes : \A group \in Groups : \A j \in DOMAIN group :
        ColOff(m, group, j) + Blocks256(Plans(m)[group[j]]) =
            IF j = Len(group) THEN GroupGrid(m, group) ELSE ColOff(m, group, j + 1)
ASSUME PartialsUnlessSmall ==
    \A m \in Shapes : PartialsFit(m) <=> Plans(m)[Lm].slabs = 1

\* Of the heads the gates let through, the norm is exact for those of 128.
ASSUME NormOf128 == {d \in {32, 64, 128, 256} : NormExact(d)} = {128}

\* Three of the barriers of the small model's layer on three blocks: the one
\* crossed by two of them, between two that all three cross.
Widths == <<3, 2, 3>>

ASSUME TinyLayer ==
    LET words == [bw |-> "off", wc |-> "unset", pipe |-> "unset"]
        dev == [occ |-> [e \in Kernels |-> 1], sms |-> 3, smem |-> 101376]
    IN Buildable(Tiny, words, dev) /\ Widths = SubSeq(SlotWidths(Geometry(Tiny, words, dev)), 2, 4)
=============================================================================
