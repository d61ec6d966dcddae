--------------------------- MODULE DecodePrograms ---------------------------
(***************************************************************************)
(* The launch sequences of the engine (engine.rs): the ways to decode one  *)
(* token, the batched prefill and the batched decode step.  A program is a *)
(* sequence of items; an item is the launches to make and, where the code  *)
(* has a second way to the same end, the launches to make when one of the  *)
(* first is refused.                                                       *)
(*                                                                         *)
(* b is the build the engine was loaded with (DecodeTiers).                *)
(***************************************************************************)
EXTENDS Launches

Only(launches) == [main |-> launches, alt |-> <<>>]
Else(launches, others) == [main |-> launches, alt |-> others]
One(launch) == Only(<<launch>>)

PerLayer(Layer(_)) == Concat([i \in 1..NumLayers |-> Layer(i - 1)])

\* gemm_exec_plan: the custom kernel pair when it is loaded and made for the
\* plan, cublas when it is not or when one of the pair is refused.
GemmExecPlan(b, plan) ==
    IF b.jgemm /\ ~plan.f32 THEN Else(JgemmLaunch(plan, 1), <<Execute(plan, 1)>>)
                            ELSE One(Execute(plan, 1))

\* The head norms of q and k, where the model has them.
HeadNorms(li, rows) ==
    IF HeadNorm THEN <<One(LaunchRmsHeads("q", QNorm(li), rows)),
                       One(LaunchRmsHeads("k", KNorm(li), rows))>>
                ELSE <<>>

FlashOrNaive(b, flash, naive) == IF b.flash THEN Else(<<flash>>, <<naive>>) ELSE One(naive)

-----------------------------------------------------------------------------
\* step_decode_launches, after the dispatch: one launch per operation.
SplitQkv(b, li) ==
    <<One(LaunchRmsNorm("x", "xn", AttnNorm(li))),
      GemmExecPlan(b, F16Plans(li).q),
      One(LaunchCastF32F16("c_q", "q", 1)),
      GemmExecPlan(b, F16Plans(li).k),
      One(LaunchCastF32F16("c_k", "k", 1)),
      GemmExecPlan(b, F16Plans(li).v),
      One(LaunchCastF32F16("c_v", "v", 1))>>

SplitAttention(b, li, pos) ==
    HeadNorms(li, 1) \o
    <<One(LaunchRopeHeads("q", pos, TRUE)),
      One(LaunchRopeHeads("k", pos, FALSE)),
      One(LaunchKvWrite(li * PP + pos \div BlockLen, pos % BlockLen)),
      FlashOrNaive(b, LaunchFlash(li), LaunchGqa(li))>>

SplitFfn(b, li) ==
    <<GemmExecPlan(b, F16Plans(li).o),
      One(LaunchFusedAddRms("x", "c_o", "xn", FfnNorm(li))),
      GemmExecPlan(b, F16Plans(li).gate),
      GemmExecPlan(b, F16Plans(li).up),
      One(LaunchFusedCastSwiglu("c_g", "c_u", "down", 1)),
      GemmExecPlan(b, F16Plans(li).down),
      One(LaunchAddCast("x", "c_d"))>>

SplitHead(b) ==
    <<One(LaunchRmsNorm("x", "xn", FinalNorm)),
      GemmExecPlan(b, LmHeadPlan(b))>>

StepDecodeSplit(b, token, pos) ==
    <<One(LaunchGather(token, "x")), One(UploadLens(pos + 1))>>
        \o PerLayer(LAMBDA li : SplitQkv(b, li) \o SplitAttention(b, li, pos) \o SplitFfn(b, li))
        \o SplitHead(b)

-----------------------------------------------------------------------------
\* step_decode_launches_fused: eight launches per layer.
FusedLayer(li, pos) ==
    <<LaunchP1(QkvRows(F16Plans(li))), LaunchP2Qkv(li, pos), LaunchFlashFused(li),
      LaunchP1(ORows(F16Plans(li))), LaunchP2AddRms("po", FfnNorm(li)),
      LaunchP1(GateUpRows(F16Plans(li))), LaunchP2GuD(li), LaunchP2AddRms("pd", NextNorm(li))>>

\* The head reads the row the last layer normed.
FusedHead(b) == <<LaunchP1(LmRows(LmHeadPlan(b))), LaunchReduce("plm", "logits")>>

Ones(launches) == [i \in DOMAIN launches |-> One(launches[i])]

StepDecodeFused(b, token, pos) ==
    Ones(<<LaunchGather(token, "x"), LaunchRmsNorm("x", "xn", AttnNorm(0)), UploadLens(pos + 1)>>)
        \o PerLayer(LAMBDA li : Ones(FusedLayer(li, pos)))
        \o Ones(FusedHead(b))

\* step_decode_launches_layer_fused: one kernel per layer.

StepDecodeLayerFused(b, token, pos) ==
    <<One(UploadLens(pos + 1))>>
        \o PerLayer(LAMBDA li : <<One(LaunchLayer(li, pos, token))>>)
        \o Ones(FusedHead(b))

-----------------------------------------------------------------------------
\* step_decode_launches_f32: the residual stays f32, the cache f16.
F32Qkv(b, li) ==
    <<One(LaunchRmsNormF32("x32", "xn32", AttnNorm(li))),
      GemmExecPlan(b, F32Plans(li).q),
      GemmExecPlan(b, F32Plans(li).k),
      GemmExecPlan(b, F32Plans(li).v)>>

F32HeadNorms(li) ==
    IF HeadNorm THEN <<One(LaunchRmsNormF32("c_q", "c_q", QNorm(li))),
                       One(LaunchRmsNormF32("c_k", "c_k", KNorm(li)))>>
                ELSE <<>>

F32Attention(b, li, pos) ==
    F32HeadNorms(li) \o
    <<One(LaunchRopeF32("c_q", pos)), One(LaunchRopeF32("c_k", pos)),
      One(LaunchScaleF32("c_q")),
      One(LaunchCastF32F16("c_k", "k", 1)), One(LaunchCastF32F16("c_v", "v", 1)),
      One(LaunchKvWrite(li * PP + pos \div BlockLen, pos % BlockLen)),
      FlashOrNaive(b, LaunchFlashF32(li), LaunchGqaF32(li))>>

F32Ffn(b, li) ==
    <<GemmExecPlan(b, F32Plans(li).o),
      One(LaunchAddMask("x32", "c_o")),
      One(LaunchRmsNormF32("x32", "xn32", FfnNorm(li))),
      GemmExecPlan(b, F32Plans(li).gate),
      GemmExecPlan(b, F32Plans(li).up),
      One(LaunchSwigluF32("c_g", "c_u", "c_g")),
      GemmExecPlan(b, F32Plans(li).down),
      One(LaunchAddMask("x32", "c_o"))>>

StepDecodeF32(b, token, pos) ==
    <<One(LaunchGatherF32(token, "x32")), One(UploadLens(pos + 1))>>
        \o PerLayer(LAMBDA li : F32Qkv(b, li) \o F32Attention(b, li, pos) \o F32Ffn(b, li))
        \o <<One(LaunchRmsNormF32("x32", "xn32", FinalNorm)),
             GemmExecPlan(b, LmHeadPlan(b))>>

-----------------------------------------------------------------------------
\* prefill_batch_fmha: the whole prompt at once, one row per position.
GemmRows(a, w, c, rows) == One(Execute(RowMajorF16(a, w, c), rows))

GemmCast(a, w, c, out, rows) ==
    <<GemmRows(a, w, c, rows), One(LaunchCastF32F16(c, out, rows))>>

\* The three products at once, where the weights were fused at load time and
\* REINFER_PREFILL_SEP_QKV is unset.
PrefillQkv(li, sep, n) ==
    IF sep THEN GemmCast("xn", Proj("q", li), "c_q", "q", n)
                    \o GemmCast("xn", Proj("k", li), "c_k", "k", n)
                    \o GemmCast("xn", Proj("v", li), "c_v", "v", n)
           ELSE <<One([op |-> "cublas_qkv", w |-> QkvProj(li), rows |-> n]),
                  One(LaunchCastSplitQkv(n))>>

PrefillLayer(li, sep, n) ==
    <<One(LaunchRmsNormRows(AttnNorm(li), n))>>
        \o PrefillQkv(li, sep, n)
        \o HeadNorms(li, n)
        \o Ones(<<LaunchRopeRows("q", n), LaunchRopeRows("k", n), LaunchScale("q", n),
                  LaunchBatchedPrefill(n), LaunchKvWriteSeq(li, n)>>)
        \o GemmCast("o", Proj("o", li), "c_o", "oadd", n)
        \o Ones(<<LaunchAdd("x", "oadd", n), LaunchRmsNormRows(FfnNorm(li), n)>>)
        \o GemmCast("xn", Proj("gate", li), "c_g", "gate", n)
        \o GemmCast("xn", Proj("up", li), "c_u", "up", n)
        \o <<One(LaunchSwiglu("gate", "up", "down", n))>>
        \o GemmCast("down", Proj("down", li), "c_d", "l2", n)
        \o <<One(LaunchAdd("x", "l2", n))>>

PrefillBatchFmha(ids, sep) ==
    LET n == Len(ids)
    IN  <<One([op |-> "upload", into |-> "toks", values |-> ids]), One(LaunchGatherRows(n))>>
            \o PerLayer(LAMBDA li : PrefillLayer(li, sep, n))
            \o <<One(LaunchRmsNormRows(FinalNorm, n)), GemmRows("xn", LmHead, "logits", n)>>

-----------------------------------------------------------------------------
\* batch_step_impl: one row per request, the attention through the page
\* tables of the batch.  A request r is [token, pos, len, base].
GemmBatchJgemm(b, a, w, c, rows) ==
    LET plan == RowMajorF16(a, w, c)
    IN  IF b.jgemm THEN Else(JgemmLaunch(plan, rows), <<Execute(plan, rows)>>)
                   ELSE One(Execute(plan, rows))

BatchGemmCast(b, a, w, c, out, rows) ==
    <<GemmBatchJgemm(b, a, w, c, rows), One(LaunchCastF32F16(c, out, rows))>>

\* The V rows start after as many pages as the furthest window reaches.
PoolPages(reqs) ==
    FoldLeft(LAMBDA acc, r : IF r.base + TotalPages > acc THEN r.base + TotalPages ELSE acc,
             0, reqs)

Upload(into, values) == One([op |-> "upload", into |-> into, values |-> values])

\* What is copied to the device for every step, and what only when the
\* requests' windows changed since it was copied last.
BatchTables(reqs) ==
    [i \in DOMAIN reqs |->
        [li \in 1..NumLayers |-> IdentityTable(reqs[i].base + (li - 1) * PP)]]

BatchKey(reqs) == [i \in DOMAIN reqs |-> <<"shared", reqs[i].base>>]

\* Mutant: the tables are copied again only when the batch changes its size.
BatchStageBySize(reqs, key) ==
    <<Upload("toks", [i \in DOMAIN reqs |-> reqs[i].token]),
      Upload("lens", [i \in DOMAIN reqs |-> reqs[i].len]),
      Upload("pos", [i \in DOMAIN reqs |-> reqs[i].pos])>>
        \o (IF Len(key) = Len(reqs) THEN <<>>
            ELSE <<Upload("pages", BatchTables(reqs)),
                   Upload("kvPtrs", [i \in DOMAIN reqs |-> "shared"]),
                   Upload("key", BatchKey(reqs))>>)

BatchStage(reqs, key) ==
    <<Upload("toks", [i \in DOMAIN reqs |-> reqs[i].token]),
      Upload("lens", [i \in DOMAIN reqs |-> reqs[i].len]),
      Upload("pos", [i \in DOMAIN reqs |-> reqs[i].pos])>>
        \o (IF key = BatchKey(reqs) THEN <<>>
            ELSE <<Upload("pages", BatchTables(reqs)),
                   Upload("kvPtrs", [i \in DOMAIN reqs |-> "shared"]),
                   Upload("key", BatchKey(reqs))>>)

BatchLayer(b, li, n, pool) ==
    <<One(LaunchRmsNormRows(AttnNorm(li), n))>>
        \o BatchGemmCast(b, "xn", Proj("q", li), "c_q", "q", n)
        \o BatchGemmCast(b, "xn", Proj("k", li), "c_k", "k", n)
        \o BatchGemmCast(b, "xn", Proj("v", li), "c_v", "v", n)
        \o HeadNorms(li, n)
        \o Ones(<<LaunchRopeBatch("q", TRUE, n), LaunchRopeBatch("k", FALSE, n),
                  LaunchKvWriteBatch(li, n, pool)>>)
        \o <<Else(<<LaunchFlashBatch(li, n, pool)>>, [i \in 1..n |-> LaunchGqaLane(li, i, pool)])>>
        \o BatchGemmCast(b, "attn", Proj("o", li), "c_o", "oadd", n)
        \o Ones(<<LaunchAdd("x", "oadd", n), LaunchRmsNormRows(FfnNorm(li), n)>>)
        \o <<GemmBatchJgemm(b, "xn", Proj("gate", li), "c_g", n),
             GemmBatchJgemm(b, "xn", Proj("up", li), "c_u", n),
             One(LaunchFusedCastSwiglu("c_g", "c_u", "down", n))>>
        \o BatchGemmCast(b, "down", Proj("down", li), "c_d", "oadd", n)
        \o <<One(LaunchAdd("x", "oadd", n))>>

BatchStepImpl(b, reqs, key) ==
    LET n == Len(reqs)
    IN  BatchStage(reqs, key)
            \o <<One(LaunchGatherRows(n))>>
            \o PerLayer(LAMBDA li : BatchLayer(b, li, n, PoolPages(reqs)))
            \o <<One(LaunchRmsNormRows(FinalNorm, n)),
                 GemmBatchJgemm(b, "xn", LmHead, "logits", n)>>

-----------------------------------------------------------------------------
\* The layer kernel runs the launches of the fused layer as its stages, a grid
\* barrier between them, that of layer 0 the gather and the norm before.
LayerStages(l) ==
    (IF l.li = 0 THEN <<LaunchGather(l.token, "x"), LaunchRmsNorm("x", "xn", AttnNorm(0))>>
                 ELSE <<>>) \o FusedLayer(l.li, l.pos)

\* A replayed graph is one launch of all its nodes.
Unfolded(launches) ==
    LET nodes == Concat([i \in DOMAIN launches |->
                            IF launches[i].op = "graph" THEN launches[i].nodes ELSE <<launches[i]>>])
    IN  Concat([i \in DOMAIN nodes |->
                    IF nodes[i].op = "layer" THEN LayerStages(nodes[i]) ELSE <<nodes[i]>>])

Run(m, launches) ==
    LET ran == Unfolded(launches)
        after[i \in 0 .. Len(ran)] == IF i = 0 THEN m ELSE Effect(after[i - 1], ran[i])
    IN  after[Len(ran)]
=============================================================================
