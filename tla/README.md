# reinfer: TLA+ models, model checking and proofs

This directory holds a verification project for reinfer: what a completion goes through from the
text of its prompt to the text its client reads, the scheduler and the memory it shares, the
CUDA engine that computes it, and what has to happen before - a model fetched, kernels compiled,
an engine loaded, a server started.

Source paths are relative to the repository root (`src/` in the paths of `PROJECT.json` stands
for it). Short names: `sched_loop.rs`, `serve.rs`, `pipeline.rs`, `main.rs` are in
`bin/reinfer/src/`; `req.rs`, `radix.rs`, `admission.rs`, `policy.rs`, `batch.rs`, `stop.rs`,
`replay.rs` in `crates/scheduler/src/`; `segment.rs`, `budget.rs` in `crates/memory/src/`;
`engine.rs`, `graph.rs`, `stream.rs`, `layer_fused.rs`, `gemm.rs` in `crates/cuda/src/` and
`*.cu` in `crates/cuda/kernels/`; `cache.rs`, `lock.rs` in `crates/jit/src/`; `download.rs`,
`hf.rs`, `resolver.rs` in `crates/models/src/`; `bpe.rs`, `decode.rs`, `unicode.rs` in
`crates/tokenizer/src/`. `PROJECT.json` maps each definition to its lines.

1. [Inventory](#1-inventory-of-the-system)
2. [Modules](#2-modules)
3. [What TLC checks](#3-what-tlc-checks)
4. [What is proved](#4-what-is-proved)
5. [What the code does that its documentation does not say](#5-what-the-code-does-that-its-documentation-does-not-say)
6. [Not modelled, and why](#6-not-modelled-and-why)
7. [Plan](#7-plan)

## 1. Inventory of the system

reinfer is an LLM inference engine. `reinfer serve` runs an HTTP server whose handlers submit
requests to one scheduler thread (or, with `REINFER_SCHEDULER=off`, take a mutex around the
engine and run one request at a time). The scheduler thread owns the GPU engine, a KV page pool
shared by all requests and a prefix cache, and answers each request over its own frame channel.
`reinfer run` is the serial path once, in a terminal.

| Part | State | Operations | Hard behaviour | What makes it correct |
|---|---|---|---|---|
| **KV segment pool** `segment.rs` | reference count per page, list of coalesced free runs, counters | `alloc`, `alloc_from_end`, `ref_`, `free`/`unref` | partial overlaps of shared segments released in any order; splits and merges of runs | the free list is exactly the unreferenced pages, no two runs touch, a page lives until its last holder leaves |
| **Request machine** `req.rs` | state, cursors `cached`/`device`, prompt and output caps, `resume`, release guard | `start_prefill`, `dispatch_chunk`, `confirm`, `decode_step`, `finish`, `abort`, `preempt`, `take_release` | chunks, preemption and restart; five ways to end, in any order | cursors never cross or leave the prompt; an end is final; release once; the cap is exact |
| **Prefix cache** `radix.rs` | token trie with subtree counters, entry per key, stamps, page counter | `lookup`, `touch`, `insert` (evicts), `clear` | eviction while an insert is half done; trimming chains shared by entries | counters exact, budget kept, hits sound and longest, every page run has one owner |
| **Admission, policy, batch** | none (pure); an EMA of output lengths | `estimate`, `check_admission`, `order_*`, `select_batch` | several gates with different notions of "used" | what is admitted can run; resumed requests are served first |
| **Scheduler loop** `sched_loop.rs` `SchedLoop` | tables `reqs`, `meta`, `waiting`, `decoding`, `segs`, `estimates`; cache; token ledger | commands, `admit_schedule`, `decode_step`, `terminal`, `request_abort` | clients submit, abort and leave between any two steps; engine, sampler and copies fail halfway | the tables agree, pages are accounted for, one terminal frame per request, everyone is served |
| **Batch executor** `sched_loop.rs` `CudaBatchExecutor` | shared pool, device store, the engine's own pool, the *singleton* (whose KV is in the engine pool) | `prefill`, `prefill_prefix_hit`, `commit_stage`, `adopt_singleton`, `decode_batch`, `refill_prefix`, `unref_prefix`, `free_segment`, `drop_singleton` | the newest KV of a request is in one of two places and moves at batch formation, prefill, end | every decode reads KV computed from the request's own tokens |
| **Handle and frame channels** `sched_loop.rs` `SchedHandle`, `serve.rs` | command channel, a bounded frame channel per request | `submit`, `abort`, drop; disconnect | a client that leaves is seen only by a failing send; a slow client blocks the loop | token frames, then at most one terminal frame |
| **Determinism harness** `replay.rs` | a second, pool-free loop for determinism tests | `replay` | aborts and preemptions at given steps | tokens conserved, survivors unaffected by an abort |
| **Tokenizer** `bpe.rs`, `unicode.rs`, `decode.rs` | a vocabulary; a merge heap per word; bytes pending in the decoder | loading from GGUF, HF JSON or `spiece.model`; `encode`, `decode_all`, the incremental decoder | stale heap entries; special tokens that begin one another; characters split over tokens | the encoding is llama.cpp's, no byte is lost |
| **Stop matcher, detokenization** `stop.rs`, `pipeline.rs`, `sched_loop.rs` | window of recent tokens, length of the text sent | `push`, `reset`, the delta of a frame | patterns overlap the window; deltas are cut at byte lengths | stops exact, both paths send the same text |
| **HTTP server and CLI** `serve.rs`, `main.rs` | router state, mutex of the serial engine, streams | `run_sync`, the completions handlers, `cmd_run` | cancellation, full channels, panics under the mutex or on the loop, shutdown | each client gets its own completion to its end |
| **KV budget** `budget.rs`, `serve.rs` | none | `kv_budget_pages`, `sched_kv_pages`, `admit_cap` | pages of all layers against pages of one | the pool fits the device |
| **CUDA engine** `engine.rs`, `graph.rs`, `stream.rs` | device memory, pinned staging, captured graphs per bucket of lengths | `load`, `step`, `prefill_batch`, `batch_decode_step` | launches refused halfway, tiers, baked-in graph arguments, syncs that time out | logits are the forward pass of the caller's sequence |
| **Layer kernel** `decode_layer_fused_kernels.cu`, `layer_fused.rs` | a table of barrier counters and generations | one launch per layer, ten stages between nine barriers; a watchdog | prefixes of the grid cross the slots; blocks kept off their SMs | a step taken for good was separated at each barrier |
| **JIT kernel cache** `cache.rs`, `lock.rs` | cubin and meta files, lock files | `open`, `build_once`, `store`, `remove` | processes race; crash between two renames; lock timeout | good artifacts are kept, a hit is whole |
| **Model downloads and resolver** `download.rs`, `hf.rs`, `resolver.rs` | part files, manifest | `download`, resume, `ensure` | interrupted at any byte, the file changes on the server | a name leads to a whole version |
| **Other** | | ids and seeds, samplers, GGUF and safetensors readers, CPU and Ascend backends, model registry, hardware detection, page pool for one request | formats, arithmetic | sequential code with reference tests |

How they interact: HTTP handler → (command channel) → loop → `Req`, admission and batch
selection (pure calls) → executor (segment pool, store, engine) and prefix cache → (frame
channel) → handler. The loop is one thread and blocks only on an empty command channel when it
is idle (`run`, 564-588) and on a full frame channel. The cache stores *runs* of pages; the
executor turns a run into references on the shared pool, one run per layer of a window. The
engine borrows nothing from the loop but page tables; it queues kernels on one stream and waits
for it with a bound. The files of the JIT cache and of the models are shared by processes,
through `flock` and `rename`.

## 2. Modules

### The scheduler and its memory

| Module | Models | State and actions |
|---|---|---|
| `KvSegmentOps` | `segment.rs` as functions on a record `[refs, free]` | `Alloc`, `AllocFromEnd`, `Ref`, `Unref` = `drop_refs` (`ZeroedRuns`, then a coalescing `InsertRun` each) |
| `KvSegmentPool` (`_proofs`) | the pool under any callers | `AllocFront`, `AllocBack`, `Share` (a reference on any part of a held segment), `Release` |
| `SharedPages` | what the pool promises, abstractly | `Grant`, `Share`, `Release` on counts and holders; no free list, no contiguity |
| `ReqOps` | `req.rs` as functions on the record `Request` | one operator, and one guard `CanX` where the code asserts or returns an error, per method |
| `ReqMachine` (`_proofs`) | a request under any legal caller | one action per method; `taken` counts releases, `ended` remembers what ended it |
| `RadixOps` | `radix.rs` as functions on `[nodes, sub, entry, lru, cached]` | `Lookup`, `Touch`, `Insert` (= path, evictions with trimming, admission), `RemoveEntry` |
| `PrefixCache` (`_proofs`) | the cache under any callers | `DoInsert`, `DoTouch`, `DoClear`; `lent` is the callers' knowledge of who owns which run |
| `SchedAdmission` | `admission.rs`, `policy.rs`, `batch.rs`, sizes of `SchedLoopConfig` | `Estimate`, `PeakTokens`, `Admitted`, `SelectBatch`, `AlignChunkEnd` |
| `KvExecutor` | `CudaBatchExecutor` as functions on `[pool, store, engine, single]`, over `KvSegmentOps` | one operator per method |
| `SchedLoop` (`_proofs`) | the loop and its clients, over `KvExecutor`, `ReqOps`, `RadixOps` | see below |
| `Replay` | `replay.rs`, a pure function of a configuration and a list of arrivals, over `SchedAdmission` and `ReqOps` | one operator per phase of a step |

`SchedLoop` and the code, step by step:

| Action | Code |
|---|---|
| `SendSubmit`, `SendAbort`, `DropHandle`, `Disconnect` | `SchedHandle::submit`, `abort`, `drop`; a client drops its receiver |
| `HandleCmd` | `handle_cmd`: `submit` with its three refusals, abort by token, shutdown |
| `AdmitSchedule` | `admit_schedule` up to the preemption of victims |
| `PrefillPutOff`, `PrefillFails`, `PrefillConfirmed` | one assignment of the prefill loop: not runnable; engine, flush or placement fails; confirmed and committed or adopted |
| `DecodeBatchRuns`, `DecodeBatchFails` | `decode_step` up to the executor's answer |
| `SampleFails`, `TokenConfirmed`, `Ends` | one request of the batch: sampling fails; a token goes out (or the client has gone); cap, EOS or stop ends it (`terminal`, with `refill_prefix_release`) |
| `AwaitCmd` | the blocking `recv` of an idle loop |

A token's KV is abstracted to what it was computed from: the sequence of tokens up to it,
`Garbage` when a position it read held anything else. `KvFaithful` and `CacheFaithful` are
stated over that.

Reductions. The loop looks at the command channel between two steps only, so clients send
commands only at such a boundary (`Open`); a command sent during a step is as good as one sent
right after it. A disconnect is different - the loop notices it at each send - and happens at
any time. Ids are hashes of the arrival number, so the members of a batch are confirmed in any
order. A client submits one request. The loop's confirmations are separate steps because clients
may leave between them; the parts of one confirmation that no client can interrupt are one step.
The frame channel is unbounded here; its bound is `Server`'s.

### Text, and the server around it

| Module | Models | State and actions |
|---|---|---|
| `TextOps` | `decode.rs`, `decode_all`, the delta of a frame, `stop.rs` | pure. A sampled token's bytes are told by their role in UTF-8 (own, lead of 2 or 4, continuation, invalid) |
| `Tokenizer` | loading a vocabulary (GGUF metadata, HF JSON, `spiece.model` on the wire), special tokens, `scan_fragment`, bytes of pieces | pure. Characters are code points; the pattern of llama.cpp is stated beside the hand-written scanner |
| `BpeMerge` | `encode_word`: the chain of symbols and the heap | `Top` of the heap, `PopMerge` (stale entries included), `NewBigram` |
| `Completion` | a completion from text to text, over `ReqMachine` | `Encode`, `Sample(t)`, `Restart` (preemption), `Machine` (chunks, aborts, finishes); beside it `serial`, `generate_stream` fed with the same tokens |
| `ServerOps` | arithmetic of `run_sync`, `cmd_run`, `kv_budget_pages`, `sched_kv_pages`, the checks of `parse_completion`, the answers | pure |
| `Server` (`_proofs`) | the process | `Start`, `Spawned`, `Listen`, `Signal`, `Down`; per client `Post`, `TakeLock`, `Prompt`, `Turn`, `RunEnds`, `Receive`, `EndOfFrames`, `Leave`; the loop's `LoopCommand`, `LoopStep`, `Decode`, `BatchFails`, `SendFrame` |

`Server` runs on a *site*: a device, a model, a command line and what is wrong with them. A body
asks for a prompt length, a `max_tokens`, a stream or not, stops, text that splits a character,
or something odd (a wrong key, a stop that does not encode). The scheduler's loop is `SchedLoop`
reduced to whom it takes, serves and tells: first come first served up to the cap, no
preemption. A panic happens only for a body whose text splits a character, which is the only one
of the modelled code that can. At a shutdown the receivers are dropped before the handle.

### The CUDA engine

| Module | Models | State and actions |
|---|---|---|
| `ForwardPass` | the transformer as a graph of named values: `Definition` gives each by one operation on others, `Apply` inverts it | pure; an operation on operands the reference would not use yields `Junk` |
| `DecodeKernels` | what each kernel reads and writes: rows of buffers, slots of a flat KV pool, the type of an element | pure |
| `Launches` | the launch functions: which buffers and scalars a kernel gets | pure |
| `DecodePrograms` | the launch sequences of `engine.rs`: layer-fused, fused, split and f32 steps, the FMHA prefill, the batch step, each item with its other way | pure |
| `StepDecl` | `GraphStepDecl`: launches in order, and the cells rewritten before a step | pure |
| `GraphExec` | capture, node count, refresh and replay per bucket | pure |
| `DecodeTiers` | `Engine::load` (environment and failures → a build), and the engine as its caller uses it | `Step`, `StepAgain`, `PrefillBatch`, `BatchDecodeStep`, `Seat`; `NextToken`, `Complete`, `CaptureEnds`, `LaunchRefused` |
| `DecodeStep` | host thread and stream: pinned staging, graphs, bounded sync, watchdog | `CallStep`, `StepEager`, `StepCapture`, `StepReplay`, `StepReplayFails`, `PrefillLaunch`, `BatchLaunch`, `SyncDrained`, `SyncTimesOut`, `LaunchFails`, ... ; `StreamRuns`, `Hangs`, `WatchdogFires`, `StarvationEnds` |
| `GridBarrier` (`_proofs`) | the barrier table of the layer kernel and the host's protocol around it | per block `Start`, `Arrive`, `Clear`, `Bump`, `Sample`, `Observe`, `Watchdog`; `NextLayer`, `Judge`, `NextStep`, `Abandon` |
| `LayerGeometry` (in `GridBarrier_proofs`) | `build_plans` and `LayerFusedKernels::build`: which shapes, settings and devices give which grid, tiles, prefixes and slot widths | pure |

`DecodeTiers` and `DecodeStep` share the engine between them. `DecodeTiers` has all the data -
buffers, pools, types, arguments, layers, lanes - and a stream that never lags. `DecodeStep` has
the lag - staging cells read when the stream gets to them, work queued behind a sync that timed
out, a launch that hangs - and one entry per position as data. What `DecodeTiers` abstracts:
launches between two refusals are one step; scratch is blank when a call starts (a call must not
rest on what an earlier one left there); copies from the host are never refused; a capture only
records; a replay sets the arguments of refreshed nodes and keeps those of the others; a library
product is one node; which CUDA call refused a capture is not told apart. A failed step or batch
keeps the caller's tokens, a failed prefill drops them, as the executor does.

### What happens before

| Module | Models | State and actions |
|---|---|---|
| `JitCache` (`_proofs`) | the files of one key, its flock, processes | one action per file operation; `TimeOut`, `Crash`, `Damage` |
| `ArtifactRegistry` | what the cache promises, abstractly | `Publish`, `Serve`, loss by a disk fault |
| `ModelDownload` | one file of a repository, its part and final paths as inodes, processes, a server | `Download`, `Ensure`, `ListFails`, `AskHuggingFace`, `HeadFails`, `Return`, `Open`, `Flock`, `VerifyPart`, `GetResumed`, `GetWhole`, `GetOdd`, `GetRefused`, `ReadBlock`, `EndOfBody`, `Finish`, `NetworkFails`, `Crash`, `Publish` |

`MC*` modules give instances for TLC.

## 3. What TLC checks

Eleven runs pass and one finds a disagreement. Each property of a passing run has one or more
mutants in `PROJECT.json`: a plausible bug (a queue entry forgotten, a flush skipped, an
off-by-one at the cap, a refresh that misses an argument, an arrival counted twice, a part
renamed before it is checked, ...) under which the same run fails.

### Scheduler and memory

**`kv_segment_pool`** - 6 pages, 3 holders, segments of 1-3 pages, 8 pages allocated in total;
145 784 states. `FreeListExact`, `RefsExact`, and `ImplementsSharedPages`: the pool implements
`SharedPages`. Six pages let a freed middle page split a run, let a returned run touch free runs
on both sides, and let three holders share one page. The bound on `allocs` stops the system, so
deadlock is not checked.

**`prefix_cache`** - 5 prompts in blocks of 2 tokens, 4 pages, 5 runs. `HitsSoundAndLongest`
(with the shape of the tree), `RunsAccounted`, `GuardedInsertSafe`. The prompts share one token,
one block or two blocks, one extends another, two end in a partial block; four pages force
evictions of entries above, below and beside the new one.

**`sched_loop`** - 3 requests that share prefixes and one with an empty prompt, 2 layers, 3
windows and the anchor, a cache of 2 pages; one abort, one disconnect, one engine or sampler
failure; 227 195 states. `BooksAgree`, `PagesAccounted`, `KvFaithful`, `CacheFaithful`,
`LedgerBalanced`, `FramesProtocol`, `EveryRequestEnds`, and no deadlock. A request refills the
cache, a second one hits it while a third displaces it, a singleton is adopted, flushed and
refilled, and two requests decode together while one of them ends, aborts or leaves.

**`sched_loop_scarce`** - 3 requests in chunks of one page that outgrow 2 windows, one refused,
an abort, a shutdown, one failed engine call, flush or placement; 701 401 states.
`ConsistentUnderScarcity` (books, pages, ledger and frames). The step budget is small enough
that chunks are put off, requests are preempted, and prefills fail halfway. `MaxFrames` bounds
preemption, which can repeat for ever: a request is not preempted once it has more frames than
that. Since it can stop the loop, deadlock is not checked here. `KvFaithful` is not either, for two
defects of the code (section 5): `flush_singleton` forgets the singleton before its copy has
succeeded, so that a failed flush aborts the request being prefilled while the owner of the lost KV
decodes on; and a chunk that continues a prompt is computed as if it began one. `sched_loop` checks
it where copies succeed and prompts are prefilled in one go, as they are with the server's chunk size
until the step budget cuts one.

The assumptions of `MCSchedLoop` replay lists of arrivals through `Replay` - two arrivals of
four kinds and a third after them, with aborts, preemptions, chunks and early ends, under
budgets that evict and that do not, 16 steps, the id order a parameter: `HarnessConserves`,
`AbortIsolates`, and two defects of the harness (`AbortedVictimPanics`, `CrowdNeverStarts`,
section 5).

Constants of the code that these instances scale down: `BLOCK_LEN` 32 → 2, `MIN_BLOCKS` 2
(kept), `max_waiting_tokens` 16 → 0 or 1, `ADDED_OUTPUT_LEN` 16 → 0 or 1. Requests ask for fewer
tokens than the EMA's floor of 64, below which the EMA does not change an estimate.
`LoopAssumption` has the bound the HTTP layer enforces (prompt plus output fits the window,
serve.rs:786).

### Text and server

**`completion`** - 177 434 states. `EncodeFaithful`, `DecoderChunkwise`, `StopsExactly`,
`PathsEmitSame`, and, of the request under them, `TypeOK`, `CursorsValid`,
`ReleasedExactlyOnce`, `CapIsExact`, `EndStaysFinal`. 601 texts are encoded: every text of up to
three characters of each kind the scanner tells apart, and some with special tokens of which one
begins another; the vocabulary holds every byte used. Two of them go on to a completion, with
caps 0, 2 and 3, chunks of 1 and 4, one preemption, sampled tokens that split characters of two
and four bytes, and two stops, one of which overlaps itself. One preemption is enough to see
what it leaves behind; the theorems of `ReqMachine` cover any number. `EncodeFaithful` compares
with patterns and merges as llama.cpp states them and leaves out the texts on which the code
deviates (`Deviant`, `Overlapping`; section 5), where only the bytes are compared. A panicking
slice stops the thread, so deadlock is not checked. The assumptions of `MCCompletion` load one
vocabulary from two formats and read SentencePiece files cut off at every byte.

**`completion_text`** (a violation) - the property, `ClientGetsTheText`, is the documentation of a text frame:
"Detokenized delta text since the previous frame" (sched_loop.rs:302). The code cuts the new
text at the byte length of the old one (1003), which ended in a replacement for the half of a
character. TLC shows a client that gets U+FFFD and never the character, and a character of four
bytes at which the slice panics, which ends the scheduler thread.

**`server`** - two clients, frame channels of 1 (256 in the code), 8-bit `max_tokens` (32), the
sites and bodies of `MCServer`: machines of both paths, a pool of three windows and of the
anchor's only, every way a start fails. `FitsDevice`, `WithinContext`, `AnswersHonest`,
`EveryClientAnswered`, and no deadlock. A capacity of one makes a slow client's channel full
after one frame; two clients make one wait for the other at the mutex, in the batch and behind
the full channel. `AnswersHonest` names what a panic does to others instead of excluding panics.
`FitsDevice` is about directories without links, `WithinContext` about servers,
`EveryClientAnswered` about pools with a window beside the anchor's (section 5 has what happens
otherwise).

### Engine

**`decode_tiers`** - 188 997 states. `LogitsFaithful`, `PoolsFaithful`: the logits a call
returns are the forward pass of the sequence it ends, and the pools hold its KV, whatever was
refused on the way. Two layers (the norm of one feeds the next), blocks of two positions and a
context of three (a page boundary), pages in two buckets of lengths, two lanes and the phantom's
window, all builds `Engine::load` can produce but three kinds that `MCBuilds` names. `MaxEvents`
= 3 bounds calls plus refusals: two calls with a refusal between them, or one with two, which is
what it takes to run a second tier over the first one's leavings, or to replay a graph captured
by a call another way was found in. The bound stops the system, so deadlock is not checked. The
assumption `NodesAsExpected` compares each declaration's launches with the builder's own count.

**`decode_step`** - two tokens, sequences of two, two segments, one bucket, one hang, two items
queued. `ResultFaithful`, and no deadlock. One stale staging cell, one stale page table or one
stale argument of a graph shows with two of each. Segments are interchangeable (symmetry; no
liveness is checked there).

**`grid_barrier`** - three blocks, three of the nine slots of a layer (`Widths` 3, 2, 3: the
smallest layer kernel the loader builds has them, `TinyLayer`), two launches a step, generations
modulo 4, one step given up in a row; 1 243 874 states. `OkIsSeparated`, `StepDrains`, and no
deadlock. The wrap of a generation is thus reached after four crossings instead of 2^32. The
assumptions of `MCGridBarrier` sweep 50 shapes, 12 settings and all occupancies:
`CoveredUnlessPipe`, `QwenPipe`, `SomePipeStalls`, `RowsDisjoint`, `PartialsUnlessSmall`,
`NormOf128`.

### Files

**`jit_cache`** - two processes, two contents a compiler may produce, two crashes, one damaged
file. `TypeOK`, `CompileJustified`, `PathStaysGood`, `WaitersEscape`, `ImplementsRegistry`. The
theorems cover any number of processes, crashes and faults.

**`model_download`** - two processes, a version of two blocks replaced by one of three and that
by one of a single block, three crashes, four failures; ModelScope, HuggingFace and `auto`.
`FinalIsWhole`, `ServedAsListed`, `EventuallyFetched`. Three crashes leave a part, resume it and
leave it again; four failures reach HuggingFace by a list or two requests that fail, with some
left for what it does there. A part may be shorter than what the server has, as long, or longer, which is
the exception `EventuallyFetched` names (`TooLong`): it gets 416 in every later call (section 5).
Without the exception TLC finds that loop in this instance. What is assumed of callers and the
server: downloads overlap only while one version is on the server (`Shared`); one that asks
HuggingFace first begins alone; odd answers come where all downloads know a sha256
(ModelScope); a version without one is published while no part is about; and a response without
an etag, of another version than the HEAD's, is of a shorter one (`Accepts`). Without these
assumptions the properties fail; section 5 says how.

### Fairness

*Loop* (`LoopFairness`): weak fairness of the loop thread's steps. The code justifies it: the
loop is a thread of its own that blocks on an empty command channel while idle only (`run`,
564-588); every other step is bounded work. Clients are not fair: none has to abort, leave or
submit. `ENABLED` of so large an action is out of TLC's reach, so the fairness is given per
point of the loop's control (`Drained`, `Started`, `Assigned`, `Decoded`, `Confirmed`), each
told by what a loop step from there, and no client step, does to one variable. The deadlock
check of `sched_loop` shows that the loop has a step at each of these points: `LoopCanStep` is
their disjunction, the stutter `AwaitCmd` is guarded by its negation, and once all clients are
done there is no other action. Choosing "token", "EOS" or "stop" is not fair: a request ends by
its cap at the latest.

*Server*: threads and tasks run (a mutex that is free gets taken), and a client reads what it is
sent or breaks its connection - it does not keep a socket open for ever and read nothing. The
code has no timeout against that (sched_loop.rs:100-101 documents the stall).

*JIT cache*: a process goes on, except inside the compiler, which may hang. *Downloads*: a
process goes on, and callers ask again (`SF` of `Download`; without it nothing is ever fetched).
*Grid barrier*: the host goes on and each block goes on; `Foreign` work that keeps a block off
its SM ends. A hang of `decode_step` needs none of it, there is no liveness there.

## 4. What is proved

The theorems hold for every value of the constants; `tlapm` checks every leaf. Each module's
invariant is inductive, has one step or lemma per action, and is written out with what it adds
to the properties.

*`ReqMachine_proofs`.* `Inv` conjoins the type of `req`, the link between its state and its
cursors, the link between the release guard, `taken` and `ended`, and that a request has an
ending exactly when it is terminal. None of the checked invariants is inductive alone: that the
cap is exact needs the cursors, that the release fires once needs that the guard is armed
exactly when a request has ended and not been released. Field lemmas (`StartPrefillFields`, ...)
say what each operation does to the record. Results: `TypeCorrect`, `CursorsAlwaysValid`,
`ReleaseFiresOnce`, `CapEndsExactly`, `TombstonesStay` (an action property). Assumption:
`ReqAssumption` (lengths and caps are naturals, chunks positive).

*`CacheOps_proofs`.* Lemmas about the operations on a free list, on the trie, of the executor and on
request records, for pools, budgets and keys of any size; the modules below share them. The folds of the operations
(`InsertRun` scans the free list with one, a release folds `InsertRun` over the zeroed runs, an
eviction folds `RemoveEntry` over keys) are first shown to be reached along the prefixes of their
sequence (`FoldExists`, `PrefixesOf`, one lemma per fold); prefix induction then needs no
induction theorem with an operator parameter.
The invariant of a free list is `Stretches(free, pages)`: runs that keep a gap between any two
and cover exactly `pages`. It is kept by a cut (`CutKeeps`) and, because each run touches at most
one neighbour per side, by one scan of an insertion (`AbsorbStep`, `InsertKeeps`) and so by a
whole release (`ZeroedStretches`, `UnrefKeeps`).
The invariant of a trie is `Sound(c, T, pending)`: its nodes are prefix-closed, the counter of a
node is the number of keys below it, the recency list holds each key once, `cached` is the pages
of the list, and a leaf is a key - or the path of the insertion in progress, `pending`, which is
what eviction sees. The heart is `TrimIs` with `ChainBelow`: the part of a path that
`remove_entry_at` cuts off is a chain without other keys or branches, so nothing but the removed
key lies below it (`RemoveSound`). Evicting enough keys is possible (`EvictedIs`: all of them
would do), and it leaves the new path intact unless that path is a prefix of a key that is cached
already (`MissIsSafe`).
The invariant of a whole pool is `Pooled`: counts are naturals and the free list is the
`Stretches` of the unreferenced pages. An allocation grants free pages and touches no other (`AllocGrants`);
a reference to disjoint runs, or a release of them, changes exactly the counts of their pages,
whatever the number of layers (`RefRuns`, `UnrefRuns`).
Of the executor: what each operation does to who owns which pages (`Holding`, see the loop's pages
below) and which slots of the memory a batch writes. A slot belongs to one window, layer and
position (`Slots`), so windows apart have slots apart.

*`KvSegmentPool_proofs`.* For any pages, holders and sizes. `Inv` says that the counts are
naturals, the free list is the `Stretches` of the pages nobody refers to, holders hold runs inside
the pool, and the pages in use are the statistics' balance. `FreeListExact` is not inductive:
without the gaps one scan would not coalesce. Results: `NothingLeaks` and the refinement
`PoolRefines`, step by step. Of `SharedPages`, under the pool's mapping: `CountsAreExact` (a
page's count is the number of its holders, by two cardinality lemmas about adding and dropping
one holder), hence `HeldPagesStayLive` and `GrantsAreUniform`; and `PoolCountsExact`, which
carries the counts over to the pool.

*`PrefixCache_proofs`.* For any page size, budget, prompts and runs. `CacheInv` is `Sound` with
the budget kept and nothing pending, and that lending and owning are inverse to each other (`Lending`). Results:
`CacheInvariant`, `RunsAreAccounted`, `GuardedInsertsAreSafe`, `HitsAreSoundAndLongest`.
`RunsAccounted` alone is not inductive: that an eviction returns one run per key needs the
recency list to hold each key once, and that the counters stay exact needs the nodes to be
prefix-closed, since a count of 1 is read as "nothing else below". That a hit is longest needs
that a node is there only if a key extends it (`Grown`).
Assumptions: `RadixAssumption` (a page holds a token), `PromptAssumption` (tokens are naturals).

*`JitCache_proofs`.* For any processes, contents, crashes and faults. `IInv` adds that who is
past the lock holds it (`LockInv`), that what was read under the lock is still so (`SeenInv`,
`BuildInv`, `StoreInv`), and that while the disk has not failed a meta file is there only
together with its cubin (`FaultFree`). Results: `JitTypes`, `GoodArtifactsKept`,
`PathsLeadToChecked`, and the refinement `CacheIsRegistry`: each step is a step of
`ArtifactRegistry` or a stutter of it.

*`GridBarrier_proofs`.* For any grid, widths, launches and steps given up on. `IInv` is `Types`,
`AtOwnSlot`, `Judged`, and - as long as no watchdog has left a record - `Sound`: nobody has
crossed too soon, a counter is the number of those who have arrived until the last one clears
it, a release follows the last arrival and one block makes it. A drained launch without a record
leaves its counters at zero for the next (`DrainedClean`). Result: `BarrierSeparates`. It does
not need the generations to be unbounded: a block that compares with a wrapped generation only
waits, which liveness would notice and safety does not.

*The geometry, in the same module.* `WidthsInGrid` and `LayerKernelCovered`, and from them
`BuiltIsCovered`: for every model shape, environment and device whose kernel `build` accepts,
every block that works on a stage is counted by the barrier before it and lives until then; with
the pipe only if its prefixes fit, which `build` does not check. It also gives
`BarrierAssumption` of `GridBarrier` its widths.

*`Server_proofs`.* `PoolPlanFits`: for every device, model and command line, the pool that is
planned, the engine's own pool and the weights fit in 90 % of the memory. The invariant
`Planned` says that pages come from a site that was not refused; the rest is arithmetic about
one round trip between pages of all layers and of one (`Quotient`, `Regroup`, ...). `CompletionsFit`
and `ClientsHearTheirOwn` rest on `Honest`, which relates, per client, its place in queue, batch
or mutex, what its path has made, the frames in its channel and what it has read: between a
frame's send and its receipt neither the job nor the answer alone says what was promised.
Assumption: `ServerAssumption`, which gives sites and bodies their types.

*`SchedLoop_proofs`.* For any clients, prompts, pool, cache, failures and interleaving:
`TablesAgree` (`BooksAgree`), `NoTokenLost` (`LedgerBalanced`) and `ClientsAreTold`
(`FramesProtocol`), from one invariant, `Inv`. None of the three is inductive alone. That an
assignment names a queued request (`BooksAgree`) needs that the assignments left are for distinct
requests and start where each request is (`PlanOK`): a chunk that ends in `Decode` takes its
request out of the queue. That the ledger balances needs what each record holds on the device
between two confirmations (`LiveOK`) and that a refused request holds nothing (`DeadOK`). That
`done` counts the frames needs that a live request has had one frame per token (`TokensOnly`),
and that only one terminal frame is sent needs that the command channel holds at most one submit
per request nobody has answered (`CmdsOK`). All ways out of the tables - an abort, a failed
prefill, batch or sample, a vanished client, an end - are instances of one step, `Leaving`, with
one proof (`LeavingKeeps`). Selection is not assumed to be right: `SelectionFacts` derives from
`SelectBatch` that victims are decoding, distinct, and that chunks are of queued requests, each
once, from where it is to no further than its prompt. Sums over sets of requests
(`DeviceMoves`) and folds over queues are reached by prefix induction as above. This proof looks
neither into the executor nor into the cache: the three hold whatever these do.

*Its pages.* `PagesAreAccounted` (`PagesAccounted`), `ScarcityIsConsistent`
(`ConsistentUnderScarcity`) and `NeverPanics` need a second invariant over `Inv`, `PagesOK`. It
conjoins `Holding`: there is one owner for each referenced page - the anchor, a segment that is a
whole window, or a cached key with its run in every layer - with a count of one, and no owner's
pages meet another's; and `CacheOK`: the trie is `Kept` (`Sound`, within its budget) and the loop has not
panicked. `PagesAccounted` is not inductive, for it says neither that a segment is a window,
without which an end would not know which pages of it the cache keeps, nor that the owners of the
list of keys are those of the tree. Each operation of the executor is one lemma about `Holding`
(`HoldAlloc`, `HoldFree`, `HoldEvict`, `HoldRefill`, and their folds over requests and evicted
keys), and an action is a few of them. The interesting one is an end: the key's runs get a
reference before the segment loses its own, so that they pass from one owner to the other without
being free in between; the evictions that make room come before and, owners being apart, touch
none of them. `CacheOK` is inductive over `Inv` on its own, which gives `NeverPanics`: an end looks
its key up first, so the eviction inside `insert` never trims the path it walks (`MissIsSafe`).

The first two have the hypothesis `"refill" \notin Failing`. It is needed: when the copy of a
refill fails, the code frees the segment but leaves the new entry in the cache, whose pages nobody
refers to any more (section 5). Both scopes of the loop run without that fault and with the others.
`NeverPanics` has no hypothesis. Assumptions: `LoopAssumption` (finitely many clients, lengths
within the context), `ConfigAssumption`, and `RadixAssumption` for the cache. TLC checked `Inv`
and `PagesOK` as invariants in both scopes before they were proved.

*What its pages hold.* `KvIsFaithful` (`KvFaithful`) and `CacheIsFaithful` (`CacheFaithful`): what a
decode batch reads for a request, and what a prefill reads from a cached prefix, was computed from
that request's tokens, or that key's, at every position. The third invariant, `KvOK`, conjoins

- `KvOf(exec, segs, cache.entry, Kvs)`, where `Kvs` gives each decoding request the tokens whose KV
  it has: the singleton has it in the engine's pool, as far as its length says, any other in its
  window, in every layer; a cached key has its own in its run; and the singleton is a decoding
  request, or one that ended and whose window nobody owns any more, so that a flush of it writes
  where nobody looks (`Singled`);
- `Grounded`, which ties that sequence to the record: the prompt and then what was generated since
  it was last prefilled, its last token being the one the next batch decodes;
- that after a batch without a flush the singleton is all that decodes (`Alone`), and that a request with
  KV has its own prompt and cap in its record (`Fixed`).

Neither property is inductive: a decode reads one position less than it leaves behind, and a
flush, a refill or a hit copies KV of requests that `KvFaithful` does not speak of at that moment.
Each operation of the executor keeps `KvOf` by one lemma (`FlushKv`, `PrefillKv`, `HitKv`,
`CommitKv`, `AdoptKv`, `DecodeAloneKv`, `DecodeTogetherKv`, `RefillKv`), because owners of pages
have them alone (`Tables`, from `PagesOK`): a write to one window is none to another's. Decoding
together is `BatchWrites`: each request's write lands in its own last slot, and its result depends
only on what it reads.

The hypotheses say where the code keeps the promise. `{"flush", "refill"} \cap Failing = {}`: those
two copies succeed; failures of the engine, the sampler and the placement of a chunk are allowed.
`[]WholePrefills`: no chunk continues a prompt. Both are needed, as section 5 shows. The second is a
condition on the behaviour; `AmplePoolsPrefillWhole` derives it from one on the constants, `Ample`:
the pool holds all the requests at their longest - all ever accepted, since ended ones keep counting -
and a chunk holds the longest prompt, as in the server, whose chunk is the whole context
(serve.rs:191). Then the sum of what the waiting prompts need, one token for each decoding request and
what `KvUsage` counts stays within the pool (`StepFits`, `DeviceTogether`), so that no step's budget
cuts a prompt (`WholePlan`). `AmplePoolsKeepKv` puts the two together, with no condition on the
behaviour. The `sched_loop` scope satisfies `Ample`; TLC checked there, before the proofs, that
`KvOK`, `WholePrefills` and `Whole` are invariants.

*Only model-checked*: that every client is answered (`EveryRequestEnds`); the texts; the engine's
programs; and the downloads. *Beyond the prover*: liveness and `ENABLED`; facts by induction over data, such as
that encoding a text of any length loses nothing; and anything about a module with a `RECURSIVE`
operator.

## 5. What the code does that its documentation does not say

Only `completion_text` is a run that refutes a line of the documentation. The following was met
while modelling, each at its line. Where a property would fail because of it, the property's
comment or assumption names the exception, and this list says so.

### Scheduler

- Ended requests keep their `device_len` and stay in `reqs` (713), so the token budget of a step
  (807) shrinks to zero over the life of a server. Preemption, said never to trigger (93-96),
  starts, resets the `Req` but neither `meta.generated` nor what was sent (820), so that a
  client gets its output twice; and no prefill runs again, although resumed requests are said to
  be served first (policy.rs:3-4).
- A chunk that continues a prompt is computed from nothing. `admit_schedule` hands
  `prompt[start..end]` to `exec.prefill` (902), which calls `prefill_batch` (1423-1428); that fills
  the engine's pool from position 0, with no earlier context (engine.rs:5218).
  `commit_stage` (1495) then copies it to the page of `start`, and `adopt_singleton` (1507-1512) fetches
  the committed window over the staged chunk. `KvFaithful` fails with chunks of 2 tokens in the
  `sched_loop_scarce` scope without any failure. The module's comment calls chunked prefill "inert
  under the full-window admission bound" because "the batch token budget never runs dry" (93-96). It
  does, by the item above: with the server's own chunk size, the whole context, prompts of 3, 5, 5 and
  4 tokens, one abort and 10 to 13 pages, TLC finds a prompt cut by the shrunken budget,
  continued when a preempted request that aborts has given its tokens back, and decoded from KV of
  a wrong position. `KvIsFaithful` has the hypothesis that this does not happen.
- `flush_singleton` takes the singleton before its copy has succeeded (1309): when it fails, the
  request being prefilled is aborted and the owner of the lost KV decodes on from a window that
  never got it.
- A cached prefix pins the first pages of each layer of a window. Two that split both windows of
  a pool make an admitted request wait for ever (845): admission counts pages, allocation needs
  a window, nothing evicts. The default budget of the cache, 10 % of the pages (445-457), is
  counted per layer while each pins a page in every layer.
- When the copy of a refill fails, "release the whole segment and skip the cache" (1464), the
  entry inserted before (1101) points at free pages.
- `insert` walks a path that its own evictions may have trimmed and panics (radix.rs:327). The
  loop is safe because it looks the key up first (`GuardedInsertSafe`).
- A pool of exactly one window is accepted (serve.rs:415-421, sched_loop.rs:1240-1241, 1262),
  but the anchor takes it: the capacity is 0 (291-292) and every request waits for ever.
  `EveryClientAnswered` excludes a capacity of 0.
- Comments that do not hold: `assert_conserved` demands that reference counts sum to the number
  of used pages (segment.rs:231), which any sharing breaks; the totals gate is dominated by the
  peak gate (admission.rs:225) in the idle branch only; an ending drops the singleton
  (1053-1054), but without a refill it stays assigned to a freed segment (harmless until that is
  allocated and flushed into; `KvFaithful` and `CacheFaithful` explore it).
- Harness (replay.rs): an aborted request stays in `decoding` (347), keeps taking budget, and as
  a victim panics (453; `AbortedVictimPanics`). Estimates are inserted at arrival (339), so more
  arrivals than `running_max_req_size` never start (`CrowdNeverStarts`), unlike in the loop.
  With `kv_floor` 0 the high water exceeds the capacity the test's comment (713-716) calls a
  bound.

### Text

- Deltas cut inside replaced characters: `completion_text`.
- `scan_fragment` (bpe.rs): after `'l` it looks for e or E as the third character (679-681, its
  comment 675 says `'ll`), and `\s*[\r\n]+` stops at the first run of line ends (736-754); the
  header claims alignment bit for bit (21-24, 628). Specials are taken leftmost first, the
  comment (589-590) says this equals llama.cpp's longest first; with specials that overlap it
  does not. `EncodeFaithful` compares only bytes there. The byte fallback looks bytes of the
  *encoded* text up as if raw (487-489).
- Stop strings are tokenized on their own, so the same text sampled through other tokens is no
  stop. Leading tokens of a matched stop pattern have been sent, though stop.rs:11-12 calls the
  pattern consumed. An empty pattern would stop the serial path at once.
- `completion_tokens` of the two paths differ by the stop's tokens; when the last token allowed
  completes a stop, the scheduler may say "stop" and the serial path "length". The plain serial
  answer ignores `stopped_by_stop` (serve.rs:649-655). serve.rs's header says stops are "parsed
  but not effective" and 494-496 that the serial path does not implement them; it does.
- `cmd_run` passes no tokenizer EOS although its comment (main.rs, about 475) says it is applied
  later.

### Server

- A panic inside `generate_stream` poisons the serial engine's mutex: a later plain request is a
  500, a later stream ends without `[DONE]`. On the scheduled path the thread dies: waiting
  plain clients get a 200 "length" without a token, streams `[DONE]` without a finish, later
  ones a 500. `AnswersHonest` lists these ends as those after `EngineLost`.
- `dir_bytes` takes the size of a link for that of its file, and the pool is planned too large
  (`FitsDevice` is about `~linked`). `--max-model-len 0` with the scheduler and a model of no
  layers divide by zero.
- `max_tokens` is cut from 64 to 32 bits (756) before it is compared. `reinfer run` compares
  neither prompt nor `-n` with the context (`WithinContext` is about servers). Its final
  `println!` panics when stdout is closed.
- `--api-key` is documented for `/v1/*` and covers all routes. A "graceful" shutdown cuts
  requests in flight.

### CUDA engine

- `engine.rs:3038` keeps the token cell of the *last* layer while 3037 refreshes the first one's
  node: with two layers or more, `REINFER_GRAPH=on` and the layer kernel, a replay always
  gathers token 0, though 3918-3922 says otherwise. `Builds <- GraphBuilds` in
  `MCDecodeTiers.cfg` shows it as a violation of `LogitsFaithful`; the run excludes these
  builds.
- `ensure_partials` grown by a batch frees the buffer that split declarations have recorded
  (graph on, fused off, a batch of two or more, then a single step). Excluded by `MCBuilds`.
- The naive grouped attention gets the pages of all layers as the stride of a head's scores
  (4211, 4251, 4889, 4929). `DecodeTiersAssumption` keeps the context within it.
- When the custom product fails to load, the fused gate, which looks at the environment only,
  runs into `expect` (about 3489; `LoadPanics`).
- An f32 batch steps each request on the engine's own pool (5868-5875): the model makes no
  batches on the f32 channel. `Engine::generate` feeds the last prompt token again at the
  position after it.
- Where the V rows of a shared pool start depends on the batch's highest window (5944); the
  scheduler's phantom keeps it fixed, and `PoolsFaithful` holds because of that. A key kept
  after a failed second copy of the page tables is not explored (copies are never refused).
- The staging of a step is rewritten after a sync that timed out while the step is still queued
  (6000). `ResultFaithful` holds because the watchdog ends a hang before more than a batch is
  queued behind it; with `QueueCap` = 4 it does not.
- `grid_barrier_wake` reads the generation (decode_layer_fused_kernels.cu:233) after the arrival
  is announced (227): a release that falls between is missed, contrary to the comment at
  196-197, and the block spins until the watchdog ends the step. Both properties of
  `grid_barrier` hold with it. Counters left by a step that was given up never give a wrong step
  that is taken for good, but make later ones fail until the table is reset.
- `build` compares neither pipe prefix with the other nor with the third: some accepted
  geometries count retired blocks and every step ends by the watchdog (`SomePipeStalls`).
  Qwen3-0.6B's fit.
- Head norms in the fused and layer kernels are exact for heads of 128 only (`NormOf128`), and
  the gates let 32, 64 and 256 through; "[d..128) are +0.0 pads"
  (decode_fused_kernels.cu:217-218) are never written. A head of several slabs outgrows the
  partials of a small vocabulary (`PartialsUnlessSmall`). The split path's `fused_add_rms` is
  not gated for hidden sizes above 1024.
- `gemm.rs` counts 22 parameter slots where 16 can be read back, so graphs with library products
  are never safe to refresh, although 179-181 says they fit. `graph.rs:222` says larger steps
  run eager; they use the last bucket. `Capture::drop` marks the capture over before it is.
- CPU backend: `matmul` takes `[out, in]` for `[in, out]`, the norms of q and k are not applied,
  and its `generate` never ends at its cap (read, not modelled).

### Files

- Two downloads that overlap while the server's file changes can leave a torn or truncated file
  under the final name: the part is opened before it is locked and renamed by path after the
  lock is gone (download.rs:247). With one version too, if one of them went to HuggingFace, which
  has no local hit: the other, with the finished inode still open, verifies it and renames the
  new, empty part over it. `FinalIsWhole` assumes `Shared`, and that a call which asks
  HuggingFace first begins alone.
- HuggingFace files are checked by size only: a part of one version continued with the next of
  the same size passes, and so does one an odd answer has damaged. Hence the guards of `Publish`
  and `GetOdd`. A response without an etag is accepted with a warning (279): if it breaks off
  where a shorter, older version ended, the second attempt takes the part for complete. Hence
  `Accepts`.
- A part longer than a file that shrank is answered with 416, which `fetch_to_temp` treats as a
  failed request (267-270): it keeps the part, and every later call fails the same way. The doc
  comment above it (download.rs:224-226) says that a shrunken size and a 416 truncate the part
  and start again. `EventuallyFetched` names this exception (`TooLong`).
- `ensure` with a quantisation finds an unfinished part by its glob (resolver.rs:228).
- The manifest is read, changed and written under a lock other processes do not share (115).
  `migrate_legacy_flat` can overwrite a newer file; `cmd_download_offline` looks in the root
  instead of `root/repo`; a directory with only a `config.json` resolves.

## 6. Not modelled, and why

- *Numbers.* Rounding, the order of reductions, tiles and warps: `ForwardPass` names values. The
  f16 conversions differ between kernels (truncation in most, rounding in flash), which names
  cannot tell. The dequantizing, sampling and `vec_add` kernels and the samplers on the host are
  arithmetic.
- *Executor.* Its copies succeed or fail as a whole. V follows K, so one K/V pair and one layer
  of the engine's pool are kept; the layers of segments are all there. `DecodeStep` follows one
  lane of a batch and a single token repeated; `DecodeTiers` has both lanes.
- *Scheduler.* The output-length EMA above its floor, the LPM policy (unused by the loop),
  `max_steps` (tests), the trace, log probabilities, several submits of a client. Ids and seeds
  are hashes; any id order is explored.
- *Driver.* Failing `cudaMemcpyAsync`, waits without a bound in `cudaFree` and on the default
  stream, profiling and tracing, weight loading.
- *Server.* JSON, wording, chat templates and their fallback, model and health routes,
  preemption (in `SchedLoop`), a shutdown whose join waits for a channel whose receiver is
  dropped later by the same task.
- *Tokenizer.* SentencePiece encoding is not implemented by the code; its loading and decoding
  are modelled.
- *Downloads.* The old layout's migration, `AUTODOWNLOAD=off`, weaker `VERIFY` levels, a HEAD
  without a length, the manifest (shown by `model list` only).
- *Left out entirely.* GGUF and safetensors readers (sequential parsing), CPU and Ascend
  backends, kernel registry, hardware detection, the page pool for one request (not used by the
  server), empty crates.

## 7. Plan

Done, most important behaviour first: pool, request, cache and loop; JIT cache and downloads; the
engine's steps, barrier and geometry; text, tokenizer and server; the harness; the proofs of
pool, request, prefix cache, loop, its pages and what they hold, JIT cache, barrier and server.

Left, in this order:

1. *Compose* `Completion` and `SchedLoop`, so that what a client reads after a preemption is a
   property over the loop's own frames; several submits per client.
2. *Faults*: copies that fail after some of their layers in `KvExecutor`; a commit of the page
   tables that fails between its two copies in `DecodeTiers`.
3. `FinalIsWhole` of `ModelDownload` as a theorem for one process and any number of crashes.
