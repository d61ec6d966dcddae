--------------------------- MODULE SchedAdmission ---------------------------
(***************************************************************************)
(* What the scheduler decides in one step, as pure functions: the request  *)
(* estimate and the admission gates (crates/scheduler/src/admission.rs),   *)
(* the waiting and victim orders (policy.rs), batch selection (batch.rs),  *)
(* and the sizes the loop derives from its configuration (sched_loop.rs).  *)
(*                                                                         *)
(* The moving average of output lengths never falls below EMA_FLOOR = 64   *)
(* and only lowers the estimate of a request that asks for more output     *)
(* than that; the requests of a model ask for less, so their estimate is   *)
(* what they ask for, busy or not.                                         *)
(***************************************************************************)
EXTENDS RadixOps

CONSTANTS NLayer,           \* transformer layers
          MaxLen,           \* context window in tokens (`max_model_len`)
          KvPages,          \* pages of the shared pool, the anchor window included
          MaxNumSeqs,       \* --max-num-seqs
          ChunkSize,        \* longest prefill chunk
          AddedOutputLen,   \* slack on every output estimate (16 in the code)
          MaxWaiting        \* `max_waiting_tokens` (16 in the code)

ASSUME ConfigAssumption ==
  /\ {NLayer, MaxLen, Block, KvPages, ChunkSize} \subseteq Nat \ {0}
  /\ {MaxNumSeqs, AddedOutputLen, MaxWaiting} \subseteq Nat
  /\ KvPages >= NLayer * ((MaxLen + Block - 1) \div Block)

PagesFor(tokens) == (tokens + Block - 1) \div Block
LayerPages == PagesFor(MaxLen)
WindowPages == NLayer * LayerPages
PoolTokens == (KvPages - WindowPages) * Block
AdmitCap == Min({(KvPages - WindowPages) \div WindowPages, MaxNumSeqs})

----------------------------------------------------------------------------
\* Admission.

\* a: tokens held at admission; b: tokens still to come.  A chunked prefill
\* in progress lives longer.
Estimate(promptLen, maxNew, chunkedLeft) ==
  [a |-> promptLen + 1,
   b |-> maxNew + AddedOutputLen
           + ((chunkedLeft + ChunkSize - 1) \div ChunkSize) * (MaxWaiting + 1)]

IsBusy(usedTokens) == PoolTokens > 0 /\ 10 * usedTokens >= 8 * PoolTokens

SumOver(S, f(_)) == MapThenSumSet(f, S)

\* Peak occupancy of the working set w, a function to estimates: with the
\* requests in descending order of b, all those up to k hold a and grow by b[k].
\* Among equal b the longest prefix is the largest term.
PeakTokens(w) ==
  LET upTo(k) == {j \in DOMAIN w : w[j].b >= w[k].b}
      term(k) == w[k].b * Cardinality(upTo(k)) + SumOver(upTo(k), LAMBDA j : w[j].a)
  IN  Max({term(k) : k \in DOMAIN w} \union {0})

\* `firstChunk` is 0 for a request that does not start its first prefill.
Admitted(w, firstChunk, chunkSum, busy) ==
  LET sumA == SumOver(DOMAIN w, LAMBDA j : w[j].a)
      sumB == SumOver(DOMAIN w, LAMBDA j : w[j].b)
  IN  /\ Cardinality(DOMAIN w) <= AdmitCap
      /\ IF busy THEN sumA + sumB <= PoolTokens
         ELSE sumA <= PoolTokens /\ sumB <= PoolTokens
      /\ PeakTokens(w) <= PoolTokens
      /\ firstChunk = 0 \/ chunkSum + firstChunk <= 2 * PoolTokens

----------------------------------------------------------------------------
\* Batch selection.  Requests are records with id, arrival (a number of its
\* own for each), resume, and for waiting ones prompt and cached.

\* The members of S sorted by a strict order, a set of pairs: first the one
\* that none comes before.
InOrder(S, before) ==
  [i \in 1 .. Cardinality(S) |->
     CHOOSE w \in S : Cardinality({v \in S : <<v, w>> \in before}) = i - 1]

\* Resumed requests first, then by arrival.
OrderWaiting(waiting) ==
  InOrder(waiting, {p \in waiting \X waiting :
    IF p[1].resume # p[2].resume THEN p[1].resume ELSE p[1].arrival < p[2].arrival})

\* Newest first, resumed ones last.
OrderVictims(decoding) ==
  InOrder(decoding, {p \in decoding \X decoding :
    IF p[1].resume # p[2].resume THEN p[2].resume ELSE p[1].arrival > p[2].arrival})

\* The chunk the budget left has for the next waiting request, if any.
TakeChunk(acc, w) ==
  LET chunk == Min({w.prompt - w.cached, ChunkSize, acc.left})
  IN  IF chunk <= 0 THEN acc
      ELSE [left |-> acc.left - chunk,
            plan |-> Append(acc.plan, [id |-> w.id, start |-> w.cached,
                                       end |-> w.cached + chunk])]

\* Decoding requests take one token each; those the budget does not hold are
\* preempted.  The rest of the budget goes to prefill chunks in policy order.
SelectBatch(waiting, decoding, budget) ==
  LET keep == Min({Cardinality(decoding), budget})
      victims == SubSeq(OrderVictims(decoding), 1, Cardinality(decoding) - keep)
  IN  [preempted |-> [i \in DOMAIN victims |-> victims[i].id],
       prefill |-> FoldLeft(TakeChunk, [left |-> budget - keep, plan |-> <<>>],
                            OrderWaiting(waiting)).plan]

\* Chunk ends are cut to whole pages, except at the end of the prompt.
AlignChunkEnd(end, promptLen) ==
  IF end >= promptLen THEN promptLen ELSE (end \div Block) * Block
=============================================================================
