------------------------------ MODULE DecodeStep ------------------------------
(***************************************************************************)
(* The CUDA engine's decode, prefill and batch steps                       *)
(* (crates/cuda/src/engine.rs), the captured graphs they replay            *)
(* (crates/cuda/src/graph.rs) and the bounded sync that ends each of them  *)
(* (crates/cuda/src/stream.rs), as a host thread and the stream it feeds.  *)
(*                                                                         *)
(* The host writes its pinned staging cells and queues work; the stream    *)
(* runs the queue in order, and reads the staging cells only when it gets  *)
(* to them.  A sync that gives up leaves the work queued, and the next     *)
(* step writes the same cells.                                             *)
(*                                                                         *)
(* Logits are what attention saw: the KV entries of the positions below    *)
(* the length, which must be the tokens of the sequence the caller is in.  *)
(* A batch step is followed on one of its lanes.                           *)
(***************************************************************************)
EXTENDS Naturals, Sequences

CONSTANTS
  Tokens,      \* token values
  MaxLen,      \* longest sequence (pp * BLOCK_LEN positions)
  Segs,        \* segments of the shared batch pool
  Own,         \* the engine's own pool
  Stray,       \* a KV entry no token wrote
  StepSmall, Split, StepLarge, Count,   \* the bucket table
  WedgeCap,    \* launches that hang in one behaviour
  QueueCap,    \* items the host leaves queued before it stops calling
  Starves      \* TRUE: a hang may also end by itself, without the watchdog

ASSUME DecodeAssumption ==
  /\ MaxLen \in Nat \ {0, 1} /\ QueueCap \in Nat /\ WedgeCap \in Nat
  /\ StepSmall \in Nat \ {0} /\ StepLarge \in Nat \ {0} /\ Count \in Nat \ {0}
  /\ Split \in Nat /\ Split % StepSmall = 0 /\ Split \div StepSmall <= Count
  /\ Own \notin Segs /\ Stray \notin Tokens
  /\ Starves \in BOOLEAN

Pools == Segs \union {Own}
Buckets == 0 .. (Count - 1)
Lens == 1 .. MaxLen

VARIABLES
  call,      \* the caller's request being served, or Idle
  context,   \* per pool, the tokens of the sequence the caller decodes there
  result,    \* what the last call returned: logits and what they should be
  stall,     \* decode_stall: the last sync timed out
  graphs,    \* graph_execs: per bucket, the captured graph
  failed,    \* graph_failed
  lensHb,    \* pinned length cell of the single step
  rowHb,     \* pinned staging of the batch step: token, position, segment
  pagesKey,  \* batch_pages_key: the segment whose page table was uploaded
  queue,     \* the stream
  lensDev, rowDev, kv, logits,   \* device memory
  fired,     \* the watchdog word of the barrier table
  hung,      \* the launch at the head of the stream does not progress
  hangs      \* launches hung so far

hostVars == <<call, context, result, stall, graphs, failed, lensHb, rowHb, pagesKey>>
gpuVars == <<queue, lensDev, rowDev, kv, logits, fired, hung, hangs>>
vars == <<hostVars, gpuVars>>

Idle == [kind |-> "idle"]
NoGraph == [bound |-> FALSE]
None == [ok |-> FALSE]

EmptyRow == [tok |-> Stray, pos |-> 0, seg |-> Stray]

Init ==
  /\ call = Idle
  /\ context = [p \in Pools |-> <<>>]
  /\ result = None
  /\ stall = FALSE
  /\ graphs = [b \in Buckets |-> NoGraph]
  /\ failed = {}
  /\ lensHb = 0
  /\ rowHb = EmptyRow
  /\ pagesKey = Stray
  /\ queue = <<>>
  /\ lensDev = 0
  /\ rowDev = EmptyRow
  /\ kv = [p \in Pools |-> [i \in Lens |-> Stray]]
  /\ logits = <<>>
  /\ fired = FALSE
  /\ hung = FALSE
  /\ hangs = 0

-----------------------------------------------------------------------------
(* Buckets *)

CeilDiv(a, b) == (a + b - 1) \div b

Least(a, b) == IF a < b THEN a ELSE b

\* bucket_index, as an index from 0; lengths beyond the table share the last.
BucketIndex(len) ==
  IF len <= Split
  THEN CeilDiv(len, StepSmall) - 1
  ELSE Least((Split \div StepSmall) + CeilDiv(len - Split, StepLarge) - 1, Count - 1)

-----------------------------------------------------------------------------
(* Captured graphs *)

\* A refresh that leaves the position baked (mutant).
TokenOnly(params, tok, pos) == [params EXCEPT !.tok = tok]

\* replay: every refresh node (gather token, rope position) is set again from
\* its cell before the exec is updated from the graph.
Refreshed(params, tok, pos) == [params EXCEPT !.tok = tok, !.pos = pos]

-----------------------------------------------------------------------------
(* Queueing the work of one decode step *)

Cur == call.ids[call.i]
CurPos == Len(context[Own]) + call.i - 1

\* upload_lens and the kernels of the step, with their parameters by value.
StepWork(tok, pos) == <<[op |-> "lens"], [op |-> "step", tok |-> tok, pos |-> pos]>>

\* The step goes on to its bounded sync.
ToSync(work) ==
  /\ queue' = queue \o work
  /\ call' = [call EXCEPT !.pc = "sync"]

InStep == call # Idle /\ call.pc = "step"

\* write_step and the pinned length, before the graph decision.
WriteCells == lensHb' = CurPos + 1

StepFrame ==
  UNCHANGED <<context, result, stall, rowHb, pagesKey, lensDev, rowDev, kv, logits,
              fired, hung, hangs>>

\* A known-failed bucket, or the trace anchors: the launch sequence runs
\* eager, on whichever tier (declaration, layer-fused, fused, split) takes it.
StepEager ==
  /\ InStep
  /\ WriteCells
  /\ BucketIndex(CurPos + 1) \in failed
  /\ ToSync(StepWork(Cur, CurPos))
  /\ UNCHANGED <<graphs, failed>>
  /\ StepFrame

\* The first step of a bucket captures it, and runs eager all the same.  A
\* capture, count, read-back, instantiation or seed failure fails the bucket.
StepCapture ==
  LET b == BucketIndex(CurPos + 1) IN
  /\ InStep
  /\ WriteCells
  /\ b \notin failed
  /\ ~graphs[b].bound
  /\ \/ /\ graphs' = [graphs EXCEPT ![b] =
                        [bound |-> TRUE, tok |-> Cur, pos |-> CurPos]]
        /\ failed' = failed
     \/ /\ failed' = failed \union {b}
        /\ graphs' = graphs
  /\ ToSync(StepWork(Cur, CurPos))
  /\ StepFrame

\* The bound exec is refreshed from the cells and launched.
StepReplay ==
  LET b == BucketIndex(CurPos + 1)
      g == Refreshed(graphs[b], Cur, CurPos) IN
  /\ InStep
  /\ WriteCells
  /\ b \notin failed
  /\ graphs[b].bound
  /\ graphs' = [graphs EXCEPT ![b] = g]
  /\ ToSync(StepWork(g.tok, g.pos))
  /\ UNCHANGED failed
  /\ StepFrame

\* A replay failure that keeps the half-refreshed exec (mutant).
KeepBound(gs, b) == gs

\* A bucket whose replay failed loses its exec.
Dropped(gs, b) == [gs EXCEPT ![b] = NoGraph]

\* A node refresh, the re-instantiation or the launch failed: nothing of the
\* graph ran, the bucket is given up and the step runs eager.
StepReplayFails ==
  LET b == BucketIndex(CurPos + 1) IN
  /\ InStep
  /\ WriteCells
  /\ b \notin failed
  /\ graphs[b].bound
  /\ graphs' = Dropped(graphs, b)
  /\ failed' = failed \union {b}
  /\ ToSync(StepWork(Cur, CurPos))
  /\ StepFrame

-----------------------------------------------------------------------------
(* The other two steps *)

\* prefill_batch_fmha queues the whole prompt, which takes the positions of
\* the own pool from the first on.
PrefillLaunch ==
  /\ call # Idle /\ call.pc = "prefill"
  /\ queue' = Append(queue, [op |-> "prefill", ids |-> call.ids])
  /\ call' = [call EXCEPT !.pc = "sync"]
  /\ UNCHANGED <<context, result, stall, graphs, failed, lensHb, rowHb, pagesKey,
                 lensDev, rowDev, kv, logits, fired, hung, hangs>>

\* The page table and pool pointers are uploaded when the segments changed.
PagesUpload(key, seg) == IF key = seg THEN <<>> ELSE <<[op |-> "seg"]>>

\* Tokens and positions go up every time; the lengths, one past the positions,
\* travel with them.
Copies(seg) ==
  <<[op |-> "tok"], [op |-> "pos"]>> \o PagesUpload(pagesKey, seg)

\* batch_step_impl writes the pinned staging of the lane's token, queues the
\* copies, takes the segments for uploaded, and queues the kernels.
BatchStage(kernels) ==
  LET s == call.pool
      pos == Len(context[s]) IN
  /\ call # Idle /\ call.pc = "batch"
  /\ rowHb' = [tok |-> call.ids[1], pos |-> pos,
               seg |-> IF pagesKey = s THEN rowHb.seg ELSE s]
  /\ pagesKey' = s
  /\ queue' = queue \o Copies(s) \o kernels
  /\ UNCHANGED <<stall, graphs, failed, lensHb,
                 lensDev, rowDev, kv, logits, fired, hung, hangs>>

BatchLaunch ==
  /\ BatchStage(<<[op |-> "batch"]>>)
  /\ call' = [call EXCEPT !.pc = "sync"]
  /\ UNCHANGED <<context, result>>

-----------------------------------------------------------------------------
(* The bounded sync and what the call returns *)

\* The caller abandons the sequence of a call that failed.
Fail ==
  /\ call' = Idle
  /\ result' = None
  /\ context' = [context EXCEPT ![call.pool] = <<>>]

\* A failed FMHA prefill runs again token by token; another call fails.
FailOrFallBack ==
  IF call.kind = "prefill"
  THEN /\ call' = [call EXCEPT !.kind = "steps", !.pc = "step", !.i = 1]
       /\ UNCHANGED <<context, result>>
  ELSE Fail

Deliver(ids) ==
  /\ call' = Idle
  /\ context' = [context EXCEPT ![call.pool] = @ \o ids]
  /\ result' = [ok |-> TRUE, logits |-> logits, of |-> context'[call.pool]]

\* The stream drained in time: the step failed if the watchdog left a record,
\* and its logits are read back otherwise.  The record
\* is reset on the stream.
SyncDrained ==
  /\ call # Idle /\ call.pc = "sync"
  /\ queue = <<>>
  /\ stall' = FALSE
  /\ IF fired
     THEN FailOrFallBack /\ queue' = Append(queue, [op |-> "reset"])
     ELSE /\ queue' = queue
          /\ IF call.kind = "steps" /\ call.i < Len(call.ids)
             THEN /\ call' = [call EXCEPT !.i = @ + 1, !.pc = "step"]
                  /\ UNCHANGED <<context, result>>
             ELSE Deliver(call.ids)
  /\ UNCHANGED <<graphs, failed, lensHb, rowHb, pagesKey,
                 lensDev, rowDev, kv, logits, fired, hung, hangs>>

\* It did not, which takes a launch that hangs: no readback, and the work
\* stays queued.
SyncTimesOut ==
  /\ call # Idle /\ call.pc = "sync"
  /\ hung
  /\ stall' = TRUE
  /\ FailOrFallBack
  /\ UNCHANGED <<graphs, failed, lensHb, rowHb, pagesKey, gpuVars>>

\* The launches of a step or of a prefill fail on the host before the sync.
LaunchFails ==
  /\ call # Idle /\ call.pc \in {"step", "prefill"}
  /\ FailOrFallBack
  /\ lensHb' = IF call.pc = "step" THEN CurPos + 1 ELSE lensHb
  /\ queue' = IF call.pc = "step" THEN Append(queue, [op |-> "lens"]) ELSE queue
  /\ UNCHANGED <<stall, graphs, failed, rowHb, pagesKey,
                 lensDev, rowDev, kv, logits, fired, hung, hangs>>

\* A kernel of the batch step fails to launch.
BatchLaunchFails == BatchStage(<<>>) /\ Fail

-----------------------------------------------------------------------------
(* The caller *)

NewCall(c) ==
  /\ call = Idle
  /\ Len(queue) < QueueCap
  /\ call' = c
  /\ result' = None
  /\ UNCHANGED <<context, stall, graphs, failed, lensHb, rowHb, pagesKey, gpuVars>>

\* A sequence repeats one token: that tells its entries from those of the other
\* sequences, and Entry tells their positions apart.
TokensFor(p) == IF context[p] = <<>> THEN Tokens ELSE {context[p][1]}

CallStep ==
  /\ Len(context[Own]) < MaxLen
  /\ \E t \in TokensFor(Own) :
       NewCall([kind |-> "steps", pool |-> Own, ids |-> <<t>>, i |-> 1, pc |-> "step"])

CallPrefill ==
  /\ context[Own] = <<>>
  /\ \E t \in Tokens :
       NewCall([kind |-> "prefill", pool |-> Own, ids |-> <<t, t>>, i |-> 1,
                pc |-> "prefill"])

CallBatch ==
  \E s \in Segs :
    /\ Len(context[s]) < MaxLen
    /\ \E t \in TokensFor(s) :
         NewCall([kind |-> "batch", pool |-> s, ids |-> <<t>>, i |-> 1, pc |-> "batch"])

\* The request that decodes in pool p is over.
EndSequence(p) ==
  /\ call = Idle
  /\ context[p] # <<>>
  /\ context' = [context EXCEPT ![p] = <<>>]
  /\ result' = None
  /\ UNCHANGED <<call, stall, graphs, failed, lensHb, rowHb, pagesKey, gpuVars>>

-----------------------------------------------------------------------------
(* The stream *)

\* The KV entry a token leaves: what later attention reads there is wrong
\* unless the token was rotated to that position.
Entry(tok, pos, slot) == IF pos + 1 = slot THEN tok ELSE Stray

Write(p, slot, e) ==
  IF slot \in Lens THEN [kv EXCEPT ![p][slot] = e] ELSE kv

Attended(store, p, len) == [i \in 1 .. len |-> store[p][i]]

Head1 == queue[1]

\* Kernels that run over a table a watchdog left dirty compute anything: the
\* slot they write stands for that.
RunStep ==
  LET e == IF fired THEN Stray ELSE Entry(Head1.tok, Head1.pos, lensDev) IN
  /\ Head1.op = "step"
  /\ kv' = Write(Own, lensDev, e)
  /\ logits' = Attended(kv', Own, lensDev)
  /\ UNCHANGED <<lensDev, rowDev, fired>>

RunPrefill ==
  /\ Head1.op = "prefill"
  /\ kv' = [kv EXCEPT ![Own] =
              [i \in Lens |-> IF i \in DOMAIN Head1.ids THEN Head1.ids[i] ELSE @[i]]]
  /\ logits' = Attended(kv', Own, Len(Head1.ids))
  /\ UNCHANGED <<lensDev, rowDev, fired>>

RunBatch ==
  LET r == rowDev IN
  /\ Head1.op = "batch"
  /\ kv' = IF r.seg \in Segs
           THEN Write(r.seg, r.pos + 1, Entry(r.tok, r.pos, r.pos + 1))
           ELSE kv
  /\ logits' = IF r.seg \in Segs THEN Attended(kv', r.seg, r.pos + 1) ELSE <<>>
  /\ UNCHANGED <<lensDev, rowDev, fired>>

\* A staging copy reads its pinned cell when the stream reaches it.
RunCopy ==
  /\ \/ /\ Head1.op = "lens"
        /\ lensDev' = lensHb
        /\ rowDev' = rowDev
     \/ /\ Head1.op \in {"tok", "pos", "seg"}
        /\ rowDev' = [rowDev EXCEPT ![Head1.op] = rowHb[Head1.op]]
        /\ lensDev' = lensDev
  /\ UNCHANGED <<kv, logits, fired>>

RunReset ==
  /\ Head1.op = "reset"
  /\ fired' = FALSE
  /\ UNCHANGED <<lensDev, rowDev, kv, logits>>

StreamRuns ==
  /\ queue # <<>>
  /\ ~hung
  /\ RunStep \/ RunPrefill \/ RunBatch \/ RunCopy \/ RunReset
  /\ queue' = Tail(queue)
  /\ UNCHANGED <<hostVars, hung, hangs>>

\* A layer-fused launch does not get through its grid barriers, or foreign
\* work keeps its blocks off the SMs.
Hangs ==
  /\ queue # <<>>
  /\ ~hung
  /\ Head1.op = "step"
  /\ hangs < WedgeCap
  /\ hung' = TRUE
  /\ hangs' = hangs + 1
  /\ UNCHANGED <<hostVars, queue, lensDev, rowDev, kv, logits, fired>>

\* The kernel watchdog ends the launch and records the slot.
WatchdogFires ==
  /\ hung
  /\ hung' = FALSE
  /\ fired' = TRUE
  /\ kv' = Write(Own, lensDev, Stray)
  /\ logits' = <<>>
  /\ queue' = Tail(queue)
  /\ UNCHANGED <<hostVars, lensDev, rowDev, hangs>>

\* The foreign work goes away, and the launch runs after all.
StarvationEnds ==
  /\ hung
  /\ Starves
  /\ hung' = FALSE
  /\ UNCHANGED <<hostVars, queue, lensDev, rowDev, kv, logits, fired, hangs>>

Stream == StreamRuns \/ WatchdogFires \/ StarvationEnds

HostStep ==
  \/ StepEager
  \/ StepCapture
  \/ StepReplay
  \/ StepReplayFails
  \/ PrefillLaunch
  \/ BatchLaunch
  \/ SyncDrained
  \/ SyncTimesOut

Caller == CallStep \/ CallPrefill \/ CallBatch \/ (\E p \in Pools : EndSequence(p))

Next == HostStep \/ LaunchFails \/ BatchLaunchFails \/ Caller \/ Stream \/ Hangs

Spec == Init /\ [][Next]_vars

-----------------------------------------------------------------------------
(* Properties *)

\* Calls, the stream and device memory keep their shape, a failed bucket has no
\* graph and only a launch that can hang is hung.
TypeOK ==
  /\ context \in [Pools -> UNION {[1 .. n -> Tokens] : n \in 0 .. MaxLen}]
  /\ kv \in [Pools -> [Lens -> Tokens \union {Stray}]]
  /\ failed \subseteq Buckets /\ \A b \in failed : ~graphs[b].bound
  /\ {stall, fired, hung} \subseteq BOOLEAN
  /\ lensHb \in 0 .. MaxLen
  /\ lensDev \in 0 .. MaxLen
  /\ pagesKey \in Segs \union {Stray}
  /\ call # Idle => /\ call.pool \in Pools
                    /\ call.i \in DOMAIN call.ids
                    /\ call.pc \in {"step", "prefill", "batch", "sync"}
  /\ hung => queue # <<>> /\ Head1.op = "step"

\* Logits a call returns are those of the sequence the caller is in: not of
\* parameters baked at capture, of staging cells or a page table another step
\* left, of a launch the watchdog cut off or of one that ran on its table; and a
\* bucket whose capture failed never has a graph (TypeOK).
ResultFaithful == TypeOK /\ (result.ok => result.logits = result.of)
=============================================================================
