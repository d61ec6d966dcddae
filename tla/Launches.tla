------------------------------ MODULE Launches ------------------------------
(***************************************************************************)
(* The launch functions of the CUDA crate: each packs the arguments of one *)
(* kernel and submits it.  Here it is the record of those arguments, and   *)
(* Effect says what the kernel of a record does.  Counts, strides and      *)
(* grids of the shapes the model fixes are left out.                       *)
(***************************************************************************)
EXTENDS DecodeKernels

CONSTANT PP                  \* pages of one layer of a sequence

ASSUME PPAssumption == PP \in Nat \ {0}

MaxKv == PP * BlockLen
TotalPages == NumLayers * PP

\* The weights of a layer and of the head.
AttnNorm(li) == <<"attn_norm", li>>
FfnNorm(li) == <<"ffn_norm", li>>
QNorm(li) == <<"q_norm", li>>
KNorm(li) == <<"k_norm", li>>
Proj(name, li) == <<name \o "_proj", li>>
QkvProj(li) == [w \in {"q", "k", "v"} |-> Proj(w, li)]   \* joined column by column
FinalNorm == <<"final_norm", 0>>
LmHead == <<"lm_head", 0>>

\* Mutant: the norm of the layer itself.
NextNormOwn(li) == IF li + 1 < NumLayers THEN AttnNorm(li) ELSE FinalNorm

\* The norm that follows layer li.
NextNorm(li) == IF li + 1 < NumLayers THEN AttnNorm(li + 1) ELSE FinalNorm

IdentityTable(page) == [j \in 1..PP |-> page + j - 1]

-----------------------------------------------------------------------------
\* engine.rs, DenseKernels
LaunchGather(token, out) == [op |-> "gather", token |-> token, out |-> out]
LaunchGatherF32(token, out) == [op |-> "gather_f32", token |-> token, out |-> out]
LaunchRmsNorm(x, out, w) == [op |-> "rms", x |-> x, out |-> out, w |-> w, rows |-> 1]
LaunchRmsHeads(x, w, rows) == [op |-> "rms", x |-> x, out |-> x, w |-> w, rows |-> rows]
LaunchRopeHeads(x, pos, scaled) == [op |-> "rope", x |-> x, pos |-> pos, scaled |-> scaled]
LaunchScale(x, rows) == [op |-> "scale", x |-> x, rows |-> rows]
LaunchScaleF32(x) == [op |-> "scale_f32", x |-> x]
LaunchAdd(out, x, rows) == [op |-> "add", out |-> out, x |-> x, rows |-> rows]
LaunchAddCast(out, x) == [op |-> "add_cast", out |-> out, x |-> x]
LaunchFusedAddRms(x, c, out, w) ==
    [op |-> "add_rms", x |-> x, c |-> c, out |-> out, w |-> w]
LaunchSwiglu(gate, up, out, rows) ==
    [op |-> "swiglu", gate |-> gate, up |-> up, out |-> out, rows |-> rows]
LaunchSwigluF32(gate, up, out) == [op |-> "swiglu_f32", gate |-> gate, up |-> up, out |-> out]
LaunchFusedCastSwiglu(gate, up, out, rows) ==
    [op |-> "cast_swiglu", gate |-> gate, up |-> up, out |-> out, rows |-> rows]
LaunchKvWrite(page, off) ==
    [op |-> "kv_write", k |-> "k", v |-> "v", kv |-> "own", phys |-> page, off |-> off,
     total |-> TotalPages]

\* diff.rs
LaunchCastF32F16(x, out, rows) == [op |-> "cast", x |-> x, out |-> out, rows |-> rows]
LaunchRmsNormF32(x, out, w) == [op |-> "rms_f32", x |-> x, out |-> out, w |-> w]
LaunchRopeF32(x, pos) == [op |-> "rope_f32", x |-> x, out |-> x, pos |-> pos]
LaunchAddMask(out, x) == [op |-> "add_f32", out |-> out, x |-> x]

\* engine.rs, upload_lens: the copy every single step starts with.
UploadLens(len) == [op |-> "upload", into |-> "lens", values |-> <<len>>]

-----------------------------------------------------------------------------
\* gemm.rs: a plan names the operand, the weight and the product.
RowMajorF16(a, w, c) == [a |-> a, w |-> w, c |-> c, f32 |-> FALSE]
RowMajorF32(a, w, c) == [a |-> a, w |-> w, c |-> c, f32 |-> TRUE]

Execute(plan, rows) ==
    [op |-> "cublas", a |-> plan.a, w |-> plan.w, c |-> plan.c, f32 |-> plan.f32, rows |-> rows]

\* Two kernels on the shared partials, for one row or for a batch of rows.
JgemmLaunch(plan, rows) ==
    <<[op |-> "gemv_p1", a |-> plan.a, w |-> plan.w, rows |-> rows],
      [op |-> "reduce", part |-> "part", c |-> plan.c, rows |-> rows]>>

\* DecodeGemmPlans: the products of a step, built once when the engine is
\* loaded with the f16 channel or with the f32 one.
F16Plans(li) ==
    LET Plan(name, a, c) == RowMajorF16(a, Proj(name, li), c)
    IN  [q |-> Plan("q", "xn", "c_q"), k |-> Plan("k", "xn", "c_k"), v |-> Plan("v", "xn", "c_v"),
         o |-> Plan("o", "attn", "c_o"), gate |-> Plan("gate", "xn", "c_g"),
         up |-> Plan("up", "xn", "c_u"), down |-> Plan("down", "down", "c_d")]

F32Plans(li) ==
    LET Plan(name, a, c) == RowMajorF32(a, Proj(name, li), c)
    IN  [q |-> Plan("q", "xn32", "c_q"), k |-> Plan("k", "xn32", "c_k"),
         v |-> Plan("v", "xn32", "c_v"), o |-> Plan("o", "attn32", "c_o"),
         gate |-> Plan("gate", "xn32", "c_g"), up |-> Plan("up", "xn32", "c_u"),
         down |-> Plan("down", "c_g", "c_o")]

LmHeadPlan(b) == IF b.f32 THEN RowMajorF32("xn32", LmHead, "logits")
                          ELSE RowMajorF16("xn", LmHead, "logits")

-----------------------------------------------------------------------------
\* decode.rs.  The flash kernels are given the identity page table of the
\* layer and the token capacity of the pages; the naive ones the number of
\* pages of all layers, as the stride of a head's scores.
FlashArgs(op, li) ==
    [op |-> op, q |-> "q", out |-> "attn", k |-> "k", v |-> "v", kv |-> "own",
     pages |-> IdentityTable(li * PP), identity |-> TRUE, maxKv |-> MaxKv, total |-> TotalPages]

LaunchFlash(li) == FlashArgs("flash", li)
LaunchFlashFused(li) == FlashArgs("flash_fused", li)
LaunchFlashF32(li) == [FlashArgs("flash_f32", li) EXCEPT !.q = "c_q", !.out = "attn32"]

LaunchGqa(li) ==
    [FlashArgs("gqa", li) EXCEPT !.maxKv = TotalPages] @@ [lane |-> 1, batched |-> FALSE]
LaunchGqaF32(li) ==
    [FlashArgs("gqa_f32", li) EXCEPT !.maxKv = TotalPages, !.q = "c_q", !.out = "attn32"]

LaunchFlashBatch(li, rows, pool) ==
    [op |-> "flash_batch", q |-> "q", out |-> "attn", identity |-> TRUE, maxKv |-> MaxKv,
     total |-> pool, layer |-> li, rows |-> rows]

\* One lane of a batch, after the batched kernel was refused.
LaunchGqaLane(li, lane, pool) ==
    [op |-> "gqa", q |-> "q", out |-> "attn", kv |-> "shared", identity |-> FALSE,
     maxKv |-> MaxKv, total |-> pool, layer |-> li, lane |-> lane, batched |-> TRUE]

-----------------------------------------------------------------------------
\* fused.rs.  The plan table: operand, weight and partials of each product.
PlanRow(plan, into) == [a |-> plan.a, w |-> plan.w, into |-> into]
QkvRows(plans) == <<PlanRow(plans.q, "pq"), PlanRow(plans.k, "pk"), PlanRow(plans.v, "pv")>>
ORows(plans) == <<PlanRow(plans.o, "po")>>
GateUpRows(plans) == <<PlanRow(plans.gate, "pg"), PlanRow(plans.up, "pu")>>
LmRows(plan) == <<PlanRow(plan, "plm")>>

LaunchP1(rows) == [op |-> "multi", plan |-> rows]
LaunchP2Qkv(li, pos) == [op |-> "p2_qkv", wq |-> QNorm(li), wk |-> KNorm(li), pos |-> pos]
LaunchP2GuD(li) == [op |-> "p2_gu_d", w |-> Proj("down", li)]
LaunchP2AddRms(part, w) == [op |-> "p2_add_rms", part |-> part, w |-> w]
LaunchReduce(part, c) == [op |-> "reduce", part |-> part, c |-> c, rows |-> 1]

\* layer_fused.rs: one kernel for a layer; that of layer 0 reads the token.
LaunchLayer(li, pos, token) == [op |-> "layer", li |-> li, pos |-> pos, token |-> token]

-----------------------------------------------------------------------------
\* prefill kernels (fmha.rs) and batch kernels (batch.rs)
LaunchGatherRows(rows) == [op |-> "gather_rows", out |-> "x", rows |-> rows]
LaunchRmsNormRows(w, rows) == [op |-> "rms", x |-> "x", out |-> "xn", w |-> w, rows |-> rows]
LaunchRopeRows(x, rows) == [op |-> "rope_rows", x |-> x, rows |-> rows]
LaunchKvWriteSeq(li, rows) ==
    [op |-> "kv_write_seq", kv |-> "own", page |-> li * PP, total |-> TotalPages, rows |-> rows]
LaunchCastSplitQkv(rows) == [op |-> "cast_split", rows |-> rows]
LaunchBatchedPrefill(rows) == [op |-> "fmha", rows |-> rows]
LaunchRopeBatch(x, scaled, rows) ==
    [op |-> "rope_batch", x |-> x, scaled |-> scaled, rows |-> rows]
LaunchKvWriteBatch(li, rows, pool) ==
    [op |-> "kv_write_batch", layer |-> li, total |-> pool, rows |-> rows]

-----------------------------------------------------------------------------
Effect(m, l) ==
    CASE l.op = "upload" -> [m EXCEPT ![l.into] = l.values]
      [] l.op = "gather" -> GatherRow(m, l)
      [] l.op = "gather_f32" -> GatherRowF32(m, l)
      [] l.op = "rms" -> RmsNorm(m, l)
      [] l.op = "rope" -> RopeHeads(m, l)
      [] l.op = "scale" -> Scale(m, l)
      [] l.op = "scale_f32" -> ScaleF32(m, l)
      [] l.op = "add" -> AddF16(m, l)
      [] l.op = "add_cast" -> AddCast(m, l)
      [] l.op = "add_rms" -> FusedAddRms(m, l)
      [] l.op = "swiglu" -> Swiglu(m, l)
      [] l.op = "swiglu_f32" -> SwigluF32(m, l)
      [] l.op = "cast_swiglu" -> FusedCastSwiglu(m, l)
      [] l.op = "kv_write" -> KvWriteRow(m, l)
      [] l.op = "cast" -> CastF32F16(m, l)
      [] l.op = "rms_f32" -> RmsNormF32(m, l)
      [] l.op = "rope_f32" -> RopeF32(m, l)
      [] l.op = "add_f32" -> AddF32(m, l)
      [] l.op = "cublas" -> CublasGemm(m, l)
      [] l.op = "cublas_qkv" -> CublasGemmQkv(m, l)
      [] l.op = "gemv_p1" -> GemvPartials(m, l)
      [] l.op = "flash" -> FlashGqa(m, l)
      [] l.op = "flash_f32" -> FlashGqaF32(m, l)
      [] l.op = "flash_fused" -> FlashGqaFused(m, l)
      [] l.op = "flash_batch" -> FlashGqaBatch(m, l)
      [] l.op = "gqa" -> NaiveGqa(m, l)
      [] l.op = "gqa_f32" -> NaiveGqaF32(m, l)
      [] l.op = "multi" -> GemvMulti(m, l)
      [] l.op = "p2_qkv" -> P2Qkv(m, l)
      [] l.op = "p2_gu_d" -> P2GuD(m, l)
      [] l.op = "p2_add_rms" -> P2AddRms(m, l)
      [] l.op = "reduce" -> GemvReduce(m, l)
      [] l.op = "gather_rows" -> GatherRows(m, l)
      [] l.op = "rope_rows" -> RopeRows(m, l)
      [] l.op = "rope_batch" -> RopeBatch(m, l)
      [] l.op = "kv_write_seq" -> KvWriteSeq(m, l)
      [] l.op = "kv_write_batch" -> KvWriteBatch(m, l)
      [] l.op = "cast_split" -> CastSplitQkv(m, l)
      [] l.op = "fmha" -> FmhaPrefill(m, l)

Concat(seqs) ==
    LET upTo[i \in 0 .. Len(seqs)] == IF i = 0 THEN <<>> ELSE upTo[i - 1] \o seqs[i]
    IN  upTo[Len(seqs)]
=============================================================================
