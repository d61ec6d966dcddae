------------------------------ MODULE SchedLoop ------------------------------
(***************************************************************************)
(* The continuous-batching loop (bin/reinfer/src/sched_loop.rs): one       *)
(* thread that drains a command channel, admits waiting requests, selects  *)
(* a batch, preempts victims, prefills, decodes and samples, over the      *)
(* shared page pool and the prefix cache.  Client threads submit, abort    *)
(* and disconnect at any time; the loop sees them when it drains the       *)
(* channel and when it sends a frame, so those are its step boundaries.    *)
(*                                                                         *)
(* A request is named by its client, who submits once.  Ids are hashes of  *)
(* the arrival number, so the id order in which a batch is confirmed is    *)
(* any order.                                                              *)
(***************************************************************************)
EXTENDS KvExecutor, ReqOps

CONSTANTS Client,
          Prompt,        \* client -> prompt tokens, <<>> included
          MaxTokens,     \* client -> `max_tokens`
          BadParams,     \* clients whose sampler cannot be built
          Aborters,      \* clients that may send an abort
          Quitters,      \* clients that may drop their frame receiver
          Vocab,         \* tokens the sampler draws
          MinBlocks,     \* shortest cached prefix in pages (MIN_BLOCKS)
          MayShutdown,   \* whether the handle may be dropped
          Failing,       \* kinds of failures that happen, see Fails
          MaxFaults,     \* bound on the number of failures
          MaxFrames      \* bound on the frames a request gets before a preemption

ASSUME LoopAssumption ==
  /\ IsFiniteSet(Client) /\ "none" \notin Client
  /\ \A c \in Client : /\ MaxTokens[c] \in Nat /\ Prompt[c] \in Seq(Nat)
                       /\ Len(Prompt[c]) + MaxTokens[c] <= MaxLen   \* serve.rs:786
  /\ {MinBlocks, MaxFaults, MaxFrames} \subseteq Nat

VARIABLES
  cmds,        \* the command channel, oldest first
  submitted,   \* clients that have submitted
  aborted,     \* clients that have sent their abort
  gone,        \* clients that have dropped their receiver
  chan,        \* client -> frames sent to it
  arrivals,    \* requests in arrival order (`arrival_seq`)
  reqs,        \* id -> Req, never shrinks
  meta,        \* live id -> generated tokens and current input token
  waiting,     \* the waiting queue
  decoding,    \* decoding requests
  segs,        \* id -> segment
  estimates,   \* id -> admission estimate
  cache,       \* the prefix cache (RadixOps)
  exec,        \* the executor (KvExecutor)
  ledger,      \* tokens dispatched and returned
  pc,          \* "cmds", "prefill", "confirm", "stopped", "panicked"
  plan,        \* prefill assignments left in this step
  batch,       \* decoded requests not confirmed yet in this step
  faults       \* failures so far

clients == <<submitted, aborted, gone>>
books == <<arrivals, reqs, meta, waiting, decoding, segs, estimates, ledger>>
vars == <<cmds, clients, chan, books, cache, exec, pc, plan, batch, faults>>

Init ==
  /\ cmds = <<>> /\ submitted = {} /\ aborted = {} /\ gone = {}
  /\ chan = [c \in Client |-> <<>>]
  /\ arrivals = <<>> /\ waiting = <<>> /\ decoding = {}
  /\ reqs = [c \in {} |-> NewReq] /\ meta = [c \in {} |-> 0]
  /\ segs = [c \in {} |-> Anchor] /\ estimates = [c \in {} |-> 0]
  /\ cache = EmptyCache
  /\ exec = NewExec
  /\ ledger = [dispatched |-> 0, returned |-> 0]
  /\ pc = "cmds" /\ plan = <<>> /\ batch = {} /\ faults = 0

----------------------------------------------------------------------------
\* Clients.

\* The loop looks at the channel between two steps only, so a command sent
\* during a step is as good as one sent right after it.
Open == pc = "cmds" /\ \A i \in DOMAIN cmds : cmds[i].op # "shutdown"
Post(op, c) == cmds' = Append(cmds, [op |-> op, id |-> c])
LoopIdle == UNCHANGED <<chan, books, cache, exec, pc, plan, batch, faults>>

SendSubmit(c) ==
  /\ c \notin submitted /\ Open
  /\ Post("submit", c)
  /\ submitted' = submitted \union {c}
  /\ UNCHANGED <<aborted, gone>> /\ LoopIdle

SendAbort(c) ==
  /\ c \in Aborters \intersect submitted /\ c \notin aborted /\ Open
  /\ Post("abort", c)
  /\ aborted' = aborted \union {c}
  /\ UNCHANGED <<submitted, gone>> /\ LoopIdle

Disconnect(c) ==
  /\ c \in Quitters \intersect submitted
  /\ gone' = gone \union {c}
  /\ UNCHANGED <<cmds, submitted, aborted>> /\ LoopIdle

DropHandle ==
  /\ MayShutdown /\ Open
  /\ cmds' = Append(cmds, [op |-> "shutdown", id |-> "none"])
  /\ UNCHANGED clients /\ LoopIdle

----------------------------------------------------------------------------
\* Frames.  A send to a client that has gone fails and leaves no frame.

Frame(kind, n) == [kind |-> kind, n |-> n]
Send(ids, frame) ==
  [c \in Client |-> IF c \in ids \ gone THEN Append(chan[c], frame) ELSE chan[c]]

\* Failures that abort without telling the client (mutant).
SendErrorToNobody(ids) == chan
SendError(ids) == Send(ids, Frame("error", 0))

----------------------------------------------------------------------------
\* Bookkeeping shared by every way out of the loop's tables.

DeviceOf(rs, ids) == SumOver(ids, LAMBDA c : rs[c].device)
Device(ids) == DeviceOf(reqs, ids)
KvUsage == Device(DOMAIN reqs)

\* A removal that forgets the queue (mutant).
KeepInWaiting(ids) == waiting
RemoveFromWaiting(ids) == Without(waiting, ids)

\* An end that keeps its admission estimate (mutant).
KeepEstimates(ids) == estimates
EstimatesWithout(ids) == Restrict(estimates, DOMAIN estimates \ ids)

Forget(ids) ==
  /\ waiting' = RemoveFromWaiting(ids)
  /\ decoding' = decoding \ ids
  /\ segs' = Restrict(segs, DOMAIN segs \ ids)
  /\ estimates' = EstimatesWithout(ids)
  /\ meta' = Restrict(meta, DOMAIN meta \ ids)

\* A removal that keeps the segments (mutant).
DropSingletons(x, ids, held) == FoldSet(LAMBDA c, y : DropSingleton(y, c), x, ids)

\* free_segment and drop_singleton for every aborted request.
ReleaseAll(x, ids, held) ==
  FoldSet(LAMBDA c, y : IF c \in DOMAIN held THEN DropSingleton(FreeSegment(y, held[c]), c)
                        ELSE DropSingleton(y, c),
          x, ids)

\* request_abort for live requests whose records are now `rs`.
AbortReqs(ids, rs) ==
  /\ reqs' = [c \in DOMAIN rs |-> IF c \in ids THEN Abort(rs[c]) ELSE rs[c]]
  /\ Forget(ids)

\* A removal from the books that keeps the tokens (mutant).
ReturnedNothing(n) == ledger' = ledger
Returned(n) == ledger' = [ledger EXCEPT !.returned = @ + n]

\* A failure of the engine ("engine"), of sampling ("sampler"), or of a device
\* copy: of the flush before a prefill ("flush"), of the chunk on its way to
\* its place ("place"), of the singleton on its way to the cache ("refill").
Fails(kind) == kind \in Failing /\ faults < MaxFaults /\ faults' = faults + 1

----------------------------------------------------------------------------
\* Commands.

Submit(c) ==
  IF Prompt[c] = <<>>
  THEN chan' = SendError({c}) /\ UNCHANGED books
  ELSE /\ arrivals' = Append(arrivals, c)
       /\ reqs' = [d \in DOMAIN reqs \union {c} |-> IF d = c THEN NewReq ELSE reqs[d]]
       /\ IF c \in BadParams
          THEN chan' = SendError({c}) /\ UNCHANGED <<meta, waiting>>
          ELSE /\ meta' = [d \in DOMAIN meta \union {c} |->
                             IF d = c THEN [gen |-> <<>>, cur |-> 0] ELSE meta[d]]
               /\ waiting' = Append(waiting, c)
               /\ UNCHANGED chan
       /\ UNCHANGED <<decoding, segs, estimates, ledger>>

\* `token_ids` has the live requests only: a late abort finds nothing.
AbortCmd(c) ==
  IF c \in DOMAIN meta
  THEN /\ AbortReqs({c}, reqs)
       /\ Returned(reqs[c].device)
       /\ exec' = ReleaseAll(exec, {c}, segs)
       /\ UNCHANGED arrivals
  ELSE UNCHANGED <<books, exec>>

HandleCmd ==
  /\ pc = "cmds" /\ cmds # <<>>
  /\ LET cmd == Head(cmds) IN
       \/ /\ cmd.op = "submit"
          /\ Submit(cmd.id) /\ UNCHANGED <<exec, pc>>
       \/ /\ cmd.op = "abort"
          /\ AbortCmd(cmd.id) /\ UNCHANGED <<chan, pc>>
       \/ /\ cmd.op = "shutdown"
          /\ pc' = "stopped" /\ UNCHANGED <<chan, books, exec>>
  /\ cmds' = Tail(cmds)
  /\ UNCHANGED <<clients, cache, plan, batch, faults>>

----------------------------------------------------------------------------
\* Admission, selection and preemption (the first half of admit_schedule).

ArrivalOf(c) == SelectInSeq(arrivals, LAMBDA d : d = c)

EstimateOf(c) ==
  Estimate(Len(Prompt[c]), MaxTokens[c],
           IF reqs[c].st = "Chunked" THEN reqs[c].prompt - reqs[c].cached ELSE 0)

\* The waiting queue against the gates, in order; each admission counts for
\* the ones after it.
Consider(acc, c) ==
  LET first == IF reqs[c].st = "Waiting" THEN Min({ChunkSize, Len(Prompt[c])}) ELSE 0
      working == [d \in DOMAIN acc.estimates \union {c} |->
                    IF d = c THEN EstimateOf(c) ELSE acc.estimates[d]]
  IN  IF Admitted(working, first, acc.chunkSum, IsBusy(KvUsage))
      THEN [estimates |-> working, chunkSum |-> acc.chunkSum + first,
            eligible |-> acc.eligible \union {c}]
      ELSE acc

Admission ==
  FoldLeft(Consider, [estimates |-> estimates, chunkSum |-> 0, eligible |-> {}], waiting)

\* What the pool holds beyond the tokens of every request ever accepted.
StepBudget == IF KvUsage >= PoolTokens THEN 0 ELSE PoolTokens - KvUsage

Selection ==
  SelectBatch({[id |-> c, arrival |-> ArrivalOf(c), resume |-> reqs[c].resume,
                prompt |-> Max({reqs[c].prompt, Len(Prompt[c])}), cached |-> reqs[c].cached]
                 : c \in Admission.eligible},
              {[id |-> c, arrival |-> ArrivalOf(c), resume |-> reqs[c].resume] : c \in decoding},
              StepBudget)

AdmitSchedule ==
  /\ pc = "cmds" /\ cmds = <<>>
  /\ waiting # <<>> \/ decoding # {}
  /\ LET victims == Range(Selection.preempted) IN
       /\ \A c \in victims : Len(chan[c]) <= MaxFrames
       /\ reqs' = [c \in DOMAIN reqs |-> IF c \in victims THEN Preempt(reqs[c]) ELSE reqs[c]]
       /\ Returned(Device(victims))
       /\ decoding' = decoding \ victims
       /\ waiting' = Reverse(Selection.preempted) \o waiting
       /\ segs' = Restrict(segs, DOMAIN segs \ victims)
       /\ exec' = ReleaseAll(exec, victims, segs)
  /\ estimates' = Admission.estimates
  /\ plan' = Selection.prefill
  /\ pc' = "prefill"
  /\ UNCHANGED <<cmds, clients, chan, arrivals, meta, cache, batch, faults>>

----------------------------------------------------------------------------
\* Prefill, one assignment at a time (the second half of admit_schedule).

Job == Head(plan)
JobEnd == AlignChunkEnd(Job.end, Len(Prompt[Job.id]))
Starting == reqs[Job.id].st \in {"Waiting", "Preempted"}
NoWindow == Starting /\ ~CanAlloc(exec.pool, WindowPages)
Runnable == JobEnd > Job.start /\ ~NoWindow

JobSeg == IF Starting THEN AllocSeg(exec.pool, WindowPages) ELSE segs[Job.id]
JobExec == IF Starting THEN [exec EXCEPT !.pool = Alloc(@, WindowPages)] ELSE exec
JobReq == IF Starting
          THEN StartPrefill(reqs[Job.id], Len(Prompt[Job.id]), MaxTokens[Job.id], JobEnd - Job.start)
          ELSE DispatchChunk(reqs[Job.id], JobEnd)

\* The cache serves a prompt that is one chunk.
CacheServes == /\ Job.start = 0 /\ JobEnd = Len(Prompt[Job.id])
               /\ Hits(cache, Prompt[Job.id])
Staged ==
  IF CacheServes
  THEN LET hit == Lookup(cache, Prompt[Job.id])
       IN  PrefillPrefixHit(JobExec, hit.base, hit.keyLen,
                            SubSeq(Prompt[Job.id], hit.keyLen + 1, JobEnd))
  ELSE Prefill(JobExec, SubSeq(Prompt[Job.id], Job.start + 1, JobEnd))

WithReq(r) == [c \in DOMAIN reqs |-> IF c = Job.id THEN r ELSE reqs[c]]
WithSeg(s) == [c \in DOMAIN segs \union {Job.id} |-> IF c = Job.id THEN s ELSE segs[c]]

PrefillStep ==
  /\ pc = "prefill" /\ plan # <<>>
  /\ plan' = Tail(plan)
  /\ UNCHANGED <<cmds, clients, arrivals, cache, pc, batch>>

\* The chunk is less than a page, or no window is free: it stays queued.
PrefillPutOff ==
  /\ PrefillStep /\ ~Runnable
  /\ UNCHANGED <<chan, reqs, meta, waiting, decoding, segs, estimates, exec, ledger, faults>>

\* The request, now `r`, ends with an error, the executor being `x`.
PrefillAborts(r, x) ==
  /\ PrefillStep /\ Runnable
  /\ chan' = SendError({Job.id})
  /\ AbortReqs({Job.id}, WithReq(r))
  /\ exec' = ReleaseAll(x, {Job.id}, WithSeg(JobSeg))
  /\ ledger' = [dispatched |-> ledger.dispatched + JobEnd - Job.start,
                returned |-> ledger.returned + r.device]

\* The engine refuses the chunk; the singleton before it cannot be flushed and
\* is forgotten all the same (`take`); the staged chunk cannot be placed.
PrefillFails ==
  \/ Fails("engine") /\ PrefillAborts(JobReq, FlushSingleton(JobExec))
  \/ /\ Fails("flush") /\ exec.single # NoSingle
     /\ PrefillAborts(JobReq, [JobExec EXCEPT !.single = NoSingle])
  \/ Fails("place") /\ PrefillAborts(Confirm(JobReq), Staged)

\* Adoption when the request decodes alone, else the chunk is committed.
Placed(lone) ==
  IF lone THEN AdoptSingleton(Staged, Job.id, JobSeg, Job.start, JobEnd - Job.start)
  ELSE CommitStage(Staged, JobSeg, Job.start, JobEnd - Job.start)

PrefillConfirmed ==
  /\ PrefillStep /\ Runnable
  /\ reqs' = WithReq(Confirm(JobReq))
  /\ segs' = WithSeg(JobSeg)
  /\ ledger' = [ledger EXCEPT !.dispatched = @ + JobEnd - Job.start]
  /\ IF Confirm(JobReq).st = "Decode"
     THEN /\ decoding' = decoding \union {Job.id}
          /\ waiting' = RemoveFromWaiting({Job.id})
          /\ meta' = [meta EXCEPT ![Job.id].cur = Last(Prompt[Job.id])]
          /\ exec' = Placed(decoding' = {Job.id})
     ELSE exec' = Placed(FALSE) /\ UNCHANGED <<decoding, waiting, meta>>
  /\ UNCHANGED <<chan, estimates, faults>>

----------------------------------------------------------------------------
\* Decode: one batch, then one confirmation per request.

ExecReqs == [c \in decoding |-> [token |-> meta[c].cur, pos |-> reqs[c].cached - 1,
                                 kvLen |-> reqs[c].cached, seg |-> segs[c]]]

DecodeStart == pc = "prefill" /\ plan = <<>>

DecodeBatchRuns ==
  /\ DecodeStart
  /\ exec' = IF decoding = {} THEN exec ELSE DecodeBatch(exec, ExecReqs)
  /\ batch' = decoding
  /\ pc' = IF decoding = {} THEN "cmds" ELSE "confirm"
  /\ UNCHANGED <<cmds, clients, chan, books, cache, plan, faults>>

\* The engine fails: the whole batch ends with errors.
DecodeBatchFails ==
  /\ DecodeStart /\ decoding # {}
  /\ Fails("engine")
  /\ chan' = SendError(decoding)
  /\ AbortReqs(decoding, reqs)
  /\ Returned(Device(decoding))
  /\ exec' = ReleaseAll(IF Cardinality(decoding) > 1 THEN FlushSingleton(exec) ELSE exec,
                        decoding, segs)
  /\ pc' = "cmds"
  /\ UNCHANGED <<cmds, clients, arrivals, cache, plan, batch>>

ConfirmOf(c) ==
  /\ pc = "confirm" /\ c \in batch
  /\ batch' = batch \ {c}
  /\ UNCHANGED <<cmds, clients, arrivals, plan>>

StepOver == pc' = IF batch' = {} THEN "cmds" ELSE "confirm"

\* NaN logits or a sampler error: nothing is dispatched, the request aborts.
SampleFails(c) ==
  /\ ConfirmOf(c) /\ StepOver
  /\ Fails("sampler")
  /\ chan' = SendError({c})
  /\ AbortReqs({c}, reqs)
  /\ Returned(reqs[c].device)
  /\ exec' = ReleaseAll(exec, {c}, segs)
  /\ UNCHANGED cache

\* A confirmed token goes out; a client that has gone aborts its request.
TokenConfirmed(c, token) ==
  /\ ConfirmOf(c) /\ StepOver
  /\ DecodeEvent(reqs[c], "token") = "confirmed"
  /\ LET r == DecodeStep(reqs[c], "token")
         rs == [reqs EXCEPT ![c] = r]
     IN  IF c \in gone
         THEN /\ AbortReqs({c}, rs)
              /\ ledger' = [dispatched |-> ledger.dispatched + 1,
                            returned |-> ledger.returned + r.device]
              /\ exec' = ReleaseAll(exec, {c}, segs)
              /\ UNCHANGED chan
         ELSE /\ reqs' = rs
              /\ meta' = [meta EXCEPT ![c] = [gen |-> Append(@.gen, token), cur |-> token]]
              /\ chan' = Send({c}, Frame("token", token))
              /\ ledger' = [ledger EXCEPT !.dispatched = @ + 1]
              /\ UNCHANGED <<waiting, decoding, segs, estimates, exec>>
  /\ UNCHANGED <<cache, faults>>

----------------------------------------------------------------------------
\* The end of a request (terminal, refill_prefix_release).

CacheKey(c) == SubSeq(Prompt[c], 1, (Len(Prompt[c]) \div Block) * Block)
KeyPages(c) == Len(CacheKey(c)) \div Block

\* Already cached under this very key?
SameKey(c) == HitLen(cache, CacheKey(c)) = Len(CacheKey(c))
Refills(c) == /\ CachePages > 0 /\ KeyPages(c) >= MinBlocks /\ KeyPages(c) > 0
              /\ ~SameKey(c) /\ KeyPages(c) <= CachePages
Touches(c) == /\ CachePages > 0 /\ KeyPages(c) >= MinBlocks /\ KeyPages(c) > 0
              /\ SameKey(c)

EvictedFor(c) == EvictedKeys(cache, KeyPages(c))

\* The evicted runs are unreferenced, then the prefix of the segment is
\* referenced for the cache, then the segment is freed.
Unreferenced(c) ==
  LET unref(x, key) == UnrefPrefix(x, cache.entry[key], PagesOf(key))
  IN  FoldLeft(unref, exec, EvictedFor(c))
Refilled(c) == RefillPrefix(Unreferenced(c), c, segs[c], KeyPages(c))

\* The copy of the singleton fails: the segment is freed, the entry stays.
RefillCopyFails(c) == "refill" \in Failing /\ faults < MaxFaults /\ exec.single.id = c
NotRefilled(c) == FreeSegment([Unreferenced(c) EXCEPT !.single = NoSingle], segs[c])

\* Without a refill the segment is freed and the singleton left as it is.
Released(c) ==
  IF Refills(c)
  THEN IF PathGone(cache, CacheKey(c))
       THEN pc' = "panicked" /\ UNCHANGED <<cache, exec, faults>>
       ELSE /\ StepOver
            /\ cache' = Insert(cache, CacheKey(c), segs[c].base)
            /\ faults' \in {faults} \union {f \in {faults + 1} : RefillCopyFails(c)}
            /\ exec' = IF faults' = faults THEN Refilled(c) ELSE NotRefilled(c)
  ELSE /\ StepOver
       /\ cache' = IF Touches(c) THEN Touch(cache, CacheKey(c)) ELSE cache
       /\ exec' = FreeSegment(exec, segs[c])
       /\ UNCHANGED faults

Ends(c, kind) ==
  /\ ConfirmOf(c)
  /\ LET event == DecodeEvent(reqs[c], kind)
         r == DecodeStep(reqs[c], kind)
     IN  /\ event # "confirmed"
         /\ reqs' = [reqs EXCEPT ![c] = TakeRelease(r)]
         /\ ledger' = [dispatched |-> ledger.dispatched + 1,
                       returned |-> ledger.returned + r.device]
  /\ chan' = Send({c}, Frame("done", Len(meta[c].gen)))
  /\ Forget({c})
  /\ Released(c)

----------------------------------------------------------------------------
ClientNext == \/ \E c \in Client : SendSubmit(c) \/ SendAbort(c) \/ Disconnect(c)
              \/ DropHandle

LoopNext == \/ HandleCmd \/ AdmitSchedule
            \/ PrefillPutOff \/ PrefillFails \/ PrefillConfirmed
            \/ DecodeBatchRuns \/ DecodeBatchFails
            \/ \E c \in Client : \/ SampleFails(c)
                                 \/ \E token \in Vocab : TokenConfirmed(c, token)
                                 \/ \E kind \in {"token", "eos", "stop"} : Ends(c, kind)

\* The thread blocks on the channel only while it has no work; a stopped one
\* is gone.
LoopCanStep == \/ pc \in {"prefill", "confirm"}
               \/ pc = "cmds" /\ (cmds # <<>> \/ waiting # <<>> \/ decoding # {})
AwaitCmd == ~LoopCanStep /\ UNCHANGED vars

Next == ClientNext \/ LoopNext \/ AwaitCmd

\* Weak fairness of the loop, a thread of its own.  Each point of its control is
\* told by what a LoopNext step from there, and no client, does to one variable;
\* LoopNext is enabled at each of them (else it would be a deadlock).
Drained == pc = "cmds" /\ cmds # <<>> /\ cmds' = Tail(cmds)
Started == pc = "cmds" /\ cmds = <<>> /\ (waiting # <<>> \/ decoding # {}) /\ pc' = "prefill"
Assigned == pc = "prefill" /\ plan # <<>> /\ plan' = Tail(plan)
Decoded == pc = "prefill" /\ plan = <<>> /\ pc' \in {"cmds", "confirm"}
Confirmed == pc = "confirm" /\ \E c \in batch : batch' = batch \ {c}

LoopFairness == /\ WF_cmds(Drained) /\ WF_plan(Assigned) /\ WF_batch(Confirmed)
                /\ WF_pc(Started) /\ WF_pc(Decoded)

Spec == Init /\ [][Next]_vars /\ LoopFairness

----------------------------------------------------------------------------
\* What the loop must keep.

Accepted == DOMAIN reqs
Live == DOMAIN meta

TypeOK ==
  /\ \A c \in Accepted : reqs[c] \in Request
  /\ Range(arrivals) = Accepted /\ Len(arrivals) = Cardinality(Accepted)
  /\ Live \subseteq Accepted /\ decoding \subseteq Live /\ batch \subseteq Live
  /\ DOMAIN segs \subseteq Live /\ DOMAIN estimates \subseteq Live
  /\ pc \in {"cmds", "prefill", "confirm", "stopped", "panicked"}
  /\ faults \in 0 .. MaxFaults

\* The tables of the loop agree whatever interleaving of aborts, failures,
\* preemptions and endings filled them: every live request is in exactly one
\* of queue and batch, as its state says, a segment is kept exactly by those
\* that have KV, and a request that ended is in no table.
BooksAgree ==
  /\ TypeOK
  /\ \A i, j \in DOMAIN waiting : waiting[i] = waiting[j] => i = j
  /\ decoding = {c \in Live : reqs[c].st = "Decode"}
  /\ Range(waiting) = {c \in Live : reqs[c].st \in {"Waiting", "Chunked", "Preempted"}}
  /\ Range(waiting) \union decoding = Live
  /\ DOMAIN segs = {c \in Live : reqs[c].st \in {"Chunked", "Decode"}}
  /\ \A c \in Accepted \ Live : Terminal(reqs[c]) \/ c \in BadParams
  /\ pc = "confirm" => batch \subseteq decoding
  /\ \A i \in DOMAIN plan : plan[i].id \in Range(waiting)

RunPages(key) ==
  UNION {SegPages(LayerRun(cache.entry[key], PagesOf(key), li)) : li \in Layers}

\* Every page of the pool has at most one owner - the anchor, a request's
\* segment or a cached prefix - and its count says whether it has one: no end
\* of a request, no refill and no eviction leaks pages or frees pages in use.
PagesAccounted ==
  \A p \in DOMAIN exec.pool.refs :
    LET owners == {c \in DOMAIN segs : p \in SegPages(segs[c])}
        keys == {k \in Keys(cache) : p \in RunPages(k)}
    IN  exec.pool.refs[p] =
          Cardinality(owners) + Cardinality(keys) + (IF p \in SegPages(Anchor) THEN 1 ELSE 0)
        /\ exec.pool.refs[p] <= 1

\* The tokens a request has confirmed since it was prefilled last.
History(c) ==
  LET n == reqs[c].cached - Len(Prompt[c])
      gen == meta[c].gen
  IN  Prompt[c] \o SubSeq(gen, Len(gen) - n + 1, Len(gen))

\* Wherever the KV of a decoding request is when the next batch reads it - the
\* engine pool for the singleton, its segment for the others - it was computed
\* from the request's own tokens and no other's, for every position the next
\* decode reads.  What the engine pool holds has not reached the segment yet,
\* so its length must say how much a flush has to copy.
KvFaithful ==
  \A c \in decoding :
    LET own == exec.single.id = c IN
    /\ \A i \in 0 .. reqs[c].cached - 2, li \in Layers :
         SubSeq(History(c), 1, i + 1) =
           IF own THEN exec.engine[i] ELSE exec.store[SlotOf(segs[c].base, li, i)]
    /\ own => PagesFor(exec.single.kvLen) * Block >= reqs[c].cached - 1

\* A cached run holds the KV of its key in every layer, so a hit equals a
\* prefill.
CacheFaithful ==
  \A key \in Keys(cache), li \in Layers : \A i \in 0 .. Len(key) - 1 :
    exec.store[SlotOf(cache.entry[key], li, i)] = SubSeq(key, 1, i + 1)

\* Tokens dispatched and not returned are those the live requests hold.
LedgerBalanced ==
  ledger.dispatched - ledger.returned =
    Device({c \in Accepted : ~Terminal(reqs[c])})

Terminals(c) == {i \in DOMAIN chan[c] : chan[c][i].kind # "token"}

\* A client gets token frames and then at most one terminal frame; Done counts
\* the tokens it was sent.  A request that ended has told its client, unless
\* the client aborted it or has gone.
FramesProtocol ==
  \A c \in Client :
    /\ Terminals(c) \subseteq {Len(chan[c])}
    /\ \A i \in Terminals(c) : chan[c][i].kind = "done" => chan[c][i].n = i - 1
    /\ c \in Accepted \ Live => Terminals(c) # {} \/ c \in aborted \union gone

\* All of these together, where the pool runs dry: chunks are put off, requests
\* preempted and windows missing when a prefill, a copy or the loop itself ends.
ConsistentUnderScarcity == BooksAgree /\ PagesAccounted /\ LedgerBalanced /\ FramesProtocol

\* Every submitted request leaves the loop - admitted, prefilled, decoded and
\* ended, or aborted - also when it has to wait for a window and others fail;
\* its client is told unless it aborted or left.
Settled(c) ==
  /\ c \notin Live /\ \A i \in DOMAIN cmds : cmds[i] # [op |-> "submit", id |-> c]
  /\ Terminals(c) # {} \/ c \in aborted \union gone
EveryRequestEnds == \A c \in Client : c \in submitted ~> Settled(c) \/ pc = "stopped"
=============================================================================
