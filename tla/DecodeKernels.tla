--------------------------- MODULE DecodeKernels ---------------------------
(***************************************************************************)
(* What each decode kernel does to device memory.  A memory is a record of *)
(* buffers, each a sequence of rows (one row for the decode scratch, one   *)
(* per lane or position for the batch and prefill scratch), and of the KV  *)
(* pools.  A pool is flat: the K rows of all pages, then the V rows, the   *)
(* second region starting where the launch says the first one ends.        *)
(*                                                                         *)
(* A launch l is a record of the arguments it was given: buffers by name,  *)
(* scalars by value.  A kernel that computes over lanes (a grid of rows)   *)
(* writes the first l.rows rows and leaves the others alone.               *)
(***************************************************************************)
EXTENDS ForwardPass

CONSTANT BlockLen            \* BLOCK_LEN, positions per page

ASSUME BlockLenAssumption == BlockLen \in Nat \ {0}

Write(m, buf, n, Cell(_)) ==
    [m EXCEPT ![buf] = [i \in 1..n |-> Cell(i)] \o SubSeq(@, n + 1, Len(@))]

KRow(page, off) == page * BlockLen + off
VRow(total, page, off) == (total + page) * BlockLen + off

\* Position t of a lane whose page table is `pages': the identity shortcut
\* reads on from the first page, whatever the rest of the table says.
PageOf(l, pages, t) == IF l.identity THEN pages[1] + t \div BlockLen
                                     ELSE pages[t \div BlockLen + 1]

Attend(m, l, pool, pages, query, len) ==
    LET Row(t) == KRow(PageOf(l, pages, t), t % BlockLen)
        Key(i) == ReadHalf(m.kv[pool][Row(i - 1)])
        Val(i) == ReadHalf(m.kv[pool][l.total * BlockLen + Row(i - 1)])
    IN  Apply(<<"attend", 0>>,
              <<query>> \o [i \in 1..len |-> Key(i)] \o [i \in 1..len |-> Val(i)])

StoreKv(m, l, pool, page, off, key, val) ==
    [m EXCEPT !.kv[pool][KRow(page, off)] = key,
              !.kv[pool][VRow(l.total, page, off)] = val]

-----------------------------------------------------------------------------
\* dense_kernels.cu
GatherRow(m, l) ==
    Write(m, l.out, 1, LAMBDA i : Half(Apply(<<"embed", 0>>, <<Value("token", 0, <<l.token>>)>>)))

GatherRowF32(m, l) ==
    Write(m, l.out, 1, LAMBDA i : Single(Apply(<<"embed", 0>>, <<Value("token", 0, <<l.token>>)>>)))

\* One block per row or, with a head's weight, per head of every row; the
\* heads of a row are one element here.
RmsNorm(m, l) ==
    Write(m, l.out, l.rows, LAMBDA i : Half(Apply(l.w, <<ReadHalf(m[l.x][i])>>)))

\* The rotation by l.pos, then the factor folded in; 1.0 leaves the value.
Rotate(value, pos, scaled) ==
    LET r == Apply(<<"rope", pos>>, <<value>>)
    IN  IF scaled THEN Apply(<<"scale", 0>>, <<r>>) ELSE r

RopeHeads(m, l) ==
    Write(m, l.x, 1, LAMBDA i : Half(Rotate(ReadHalf(m[l.x][i]), l.pos, l.scaled)))

Scale(m, l) ==
    Write(m, l.x, l.rows, LAMBDA i : Half(Apply(<<"scale", 0>>, <<ReadHalf(m[l.x][i])>>)))

ScaleF32(m, l) ==
    Write(m, l.x, 1, LAMBDA i : Single(Apply(<<"scale", 0>>, <<ReadSingle(m[l.x][i])>>)))

\* out += x, both f16.
AddF16(m, l) ==
    Write(m, l.out, l.rows,
          LAMBDA i : Half(Apply(<<"add", 0>>, <<ReadHalf(m[l.out][i]), ReadHalf(m[l.x][i])>>)))

\* out += f16(x), x still f32.
AddCast(m, l) ==
    Write(m, l.out, 1,
          LAMBDA i : Half(Apply(<<"add", 0>>, <<ReadHalf(m[l.out][i]), ReadSingle(m[l.x][i])>>)))

\* x += f16(c) and out = rms(x), one launch, one row.
FusedAddRms(m, l) ==
    LET sum == Apply(<<"add", 0>>, <<ReadHalf(m[l.x][1]), ReadSingle(m[l.c][1])>>)
    IN  [m EXCEPT ![l.x] = <<Half(sum)>>, ![l.out] = <<Half(Apply(l.w, <<sum>>))>>]

Swiglu(m, l) ==
    Write(m, l.out, l.rows,
          LAMBDA i : Half(Apply(<<"swiglu", 0>>, <<ReadHalf(m[l.gate][i]), ReadHalf(m[l.up][i])>>)))

SwigluF32(m, l) ==
    Write(m, l.out, 1,
          LAMBDA i : Single(Apply(<<"swiglu", 0>>,
                                  <<ReadSingle(m[l.gate][i]), ReadSingle(m[l.up][i])>>)))

FusedCastSwiglu(m, l) ==
    Write(m, l.out, l.rows,
          LAMBDA i : Half(Apply(<<"swiglu", 0>>,
                                <<ReadSingle(m[l.gate][i]), ReadSingle(m[l.up][i])>>)))

KvWriteRow(m, l) == StoreKv(m, l, l.kv, l.phys, l.off, m[l.k][1], m[l.v][1])

-----------------------------------------------------------------------------
\* diff_kernels.cu
CastF32F16(m, l) ==
    Write(m, l.out, l.rows, LAMBDA i : Half(ReadSingle(m[l.x][i])))

RmsNormF32(m, l) ==
    Write(m, l.out, 1, LAMBDA i : Single(Apply(l.w, <<ReadSingle(m[l.x][i])>>)))

RopeF32(m, l) ==
    Write(m, l.out, 1, LAMBDA i : Single(Rotate(ReadSingle(m[l.x][i]), l.pos, FALSE)))

AddF32(m, l) ==
    Write(m, l.out, 1,
          LAMBDA i : Single(Apply(<<"add", 0>>, <<ReadSingle(m[l.out][i]), ReadSingle(m[l.x][i])>>)))

-----------------------------------------------------------------------------
\* gemm_m1.cu: the slab partials of a product, then their sum.  The rows of
\* a batch have a chunk of the partials each.
GemvPartials(m, l) ==
    Write(m, "part", l.rows, LAMBDA i : Partial(Apply(l.w, <<ReadHalf(m[l.a][i])>>)))

GemvReduce(m, l) ==
    Write(m, l.c, l.rows, LAMBDA i : Single(ReadPartial(m[l.part][i])))

\* cublasGemmEx on the same operands.
CublasGemm(m, l) ==
    Write(m, l.c, l.rows,
          LAMBDA i : Single(Apply(l.w, <<IF l.f32 THEN ReadSingle(m[l.a][i])
                                                  ELSE ReadHalf(m[l.a][i])>>)))

-----------------------------------------------------------------------------
\* decode_flash_kernels.cu: a length outside 1..max_kv leaves out untouched.
FlashGqa(m, l) ==
    LET len == m.lens[1]
    IN  IF len \notin 1..l.maxKv THEN m
        ELSE Write(m, l.out, 1,
                   LAMBDA i : Half(Attend(m, l, l.kv, l.pages, ReadHalf(m[l.q][i]), len)))

FlashGqaF32(m, l) ==
    LET len == m.lens[1]
    IN  IF len \notin 1..l.maxKv THEN m
        ELSE Write(m, l.out, 1,
                   LAMBDA i : Single(Attend(m, l, l.kv, l.pages, ReadSingle(m[l.q][i]), len)))

\* One lane per row: its own length, page table and pool.
FlashGqaBatch(m, l) ==
    Write(m, l.out, l.rows,
          LAMBDA i : IF m.lens[i] \notin 1..l.maxKv THEN m[l.out][i]
                     ELSE Half(Attend(m, l, m.kvPtrs[i], m.pages[i][l.layer + 1],
                                      ReadHalf(m[l.q][i]), m.lens[i])))

\* The new position is stored by the kernel before it attends: its slot is
\* the last one of kv_len, in the pages of this layer.
FlashGqaFused(m, l) ==
    LET len == m.lens[1]
        pos == len - 1
        stored == StoreKv(m, l, l.kv, PageOf(l, l.pages, pos), pos % BlockLen,
                          m[l.k][1], m[l.v][1])
    IN  IF len \notin 1..l.maxKv THEN m
        ELSE Write(stored, l.out, 1,
                   LAMBDA i : Half(Attend(stored, l, l.kv, l.pages, ReadHalf(m[l.q][i]), len)))

\* decode_gqa_kernels.cu: the reference kernels, always by the page table.
\* l.maxKv is the stride of a head's scores, not a limit: past it the heads
\* write over each other's, and any result may come out, Junk the worst.
Scored(l, len, value) == IF len <= l.maxKv THEN value ELSE Junk

NaiveGqa(m, l) ==
    LET len == m.lens[l.lane]
        table == IF l.batched THEN m.pages[l.lane][l.layer + 1] ELSE l.pages
        a(i) == Attend(m, [l EXCEPT !.identity = FALSE], l.kv, table, ReadHalf(m[l.q][i]), len)
    IN  IF len <= 0 THEN m
        ELSE [m EXCEPT ![l.out][l.lane] = Half(Scored(l, len, a(l.lane)))]

NaiveGqaF32(m, l) ==
    LET len == m.lens[1]
        a(i) == Attend(m, [l EXCEPT !.identity = FALSE], l.kv, l.pages, ReadSingle(m[l.q][i]), len)
    IN  IF len <= 0 THEN m
        ELSE Write(m, l.out, 1, LAMBDA i : Single(Scored(l, len, a(i))))

-----------------------------------------------------------------------------
\* decode_fused_kernels.cu.  A row of a plan table names the operand, the
\* weight and the partials of one product; a launch runs some rows at once.
GemvMulti(m, l) ==
    LET RowInto(buf) == CHOOSE r \in ToSet(l.plan) : r.into = buf
    IN  [b \in DOMAIN m |->
            IF \E r \in ToSet(l.plan) : r.into = b
            THEN <<Partial(Apply(RowInto(b).w, <<ReadHalf(m[RowInto(b).a][1])>>))>>
                    \o Tail(m[b])
            ELSE m[b]]

\* Second phase of q, k and v: the sums, the head norms, the rotation.  That the
\* norm is the head's holds for 128 rows a head (LayerGeometry, NormExact).
P2Qkv(m, l) ==
    LET Normed(w, value) == IF HeadNorm THEN Apply(w, <<value>>) ELSE value
        Rotated(w, part, scaled) == Half(Rotate(Normed(w, ReadPartial(part[1])), l.pos, scaled))
    IN  [m EXCEPT !.q[1] = Rotated(l.wq, m.pq, TRUE),
                  !.k[1] = Rotated(l.wk, m.pk, FALSE),
                  !.v[1] = Half(ReadPartial(m.pv[1]))]

\* x += the sum of the partials, then out = rms(x).
P2AddRms(m, l) ==
    LET sum == Apply(<<"add", 0>>, <<ReadHalf(m.x[1]), ReadPartial(m[l.part][1])>>)
    IN  [m EXCEPT !.x[1] = Half(sum), !.xn[1] = Half(Apply(l.w, <<sum>>))]

\* Second phase of gate and up, swiglu, first phase of down.
P2GuD(m, l) ==
    LET act == Apply(<<"swiglu", 0>>, <<ReadPartial(m.pg[1]), ReadPartial(m.pu[1])>>)
    IN  [m EXCEPT !.down[1] = Half(act), !.pd[1] = Partial(Apply(l.w, <<act>>))]

-----------------------------------------------------------------------------
\* decode_batch_kernels.cu and prefill_kernels.cu: one row per lane or per
\* position of the prompt.
GatherRows(m, l) ==
    Write(m, l.out, l.rows,
          LAMBDA i : Half(Apply(<<"embed", 0>>, <<Value("token", 0, <<m.toks[i]>>)>>)))

RopeRows(m, l) ==
    Write(m, l.x, l.rows, LAMBDA i : Half(Rotate(ReadHalf(m[l.x][i]), i - 1, FALSE)))

RopeBatch(m, l) ==
    Write(m, l.x, l.rows, LAMBDA i : Half(Rotate(ReadHalf(m[l.x][i]), m.pos[i], l.scaled)))

\* The lanes' positions are in different pages, so their order is immaterial.
KvWriteBatch(m, l) ==
    LET StoreLane(acc, i) ==
            StoreKv(acc, l, m.kvPtrs[i], m.pages[i][l.layer + 1][1] + m.pos[i] \div BlockLen,
                    m.pos[i] % BlockLen, m.k[i], m.v[i])
    IN  FoldLeft(StoreLane, m, [i \in 1..l.rows |-> i])

KvWriteSeq(m, l) ==
    LET StorePosition(acc, i) ==
            StoreKv(acc, l, l.kv, l.page + (i - 1) \div BlockLen, (i - 1) % BlockLen, m.k[i], m.v[i])
    IN  FoldLeft(StorePosition, m, [i \in 1..l.rows |-> i])

\* The fused product writes q, k and v side by side in one f32 row.
CublasGemmQkv(m, l) ==
    Write(m, "c_qkv", l.rows,
          LAMBDA i : <<"f32", [w \in DOMAIN l.w |-> Apply(l.w[w], <<ReadHalf(m.xn[i])>>)]>>)

CastSplitQkv(m, l) ==
    LET Part(w, acc) == Write(acc, w, l.rows, LAMBDA i : Half(m.c_qkv[i][2][w]))
    IN  Part("q", Part("k", Part("v", m)))

\* fmha: row i attends to rows 1..i, straight from the q, k and v buffers.
FmhaPrefill(m, l) ==
    Write(m, "o", l.rows,
          LAMBDA i : Half(Apply(<<"attend", 0>>,
                                <<ReadHalf(m.q[i])>> \o [j \in 1..i |-> ReadHalf(m.k[j])]
                                                     \o [j \in 1..i |-> ReadHalf(m.v[j])])))
=============================================================================
