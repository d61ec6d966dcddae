---------------------------- MODULE DecodeTiers ----------------------------
(***************************************************************************)
(* The engine of the CUDA crate (engine.rs) as the executor calls it: one  *)
(* call at a time, each a sequence of kernel launches on one stream.  A    *)
(* launch may be refused; the engine then takes the other way of that item *)
(* or starts over with its next tier, over whatever the first one left in  *)
(* device memory.  What a call returns must not depend on any of it: it is *)
(* compared with the forward pass of the same tokens (ForwardPass).        *)
(*                                                                         *)
(* The launches of a call between two refusals are one step: the engine is *)
(* borrowed by its caller and its stream is in order, so nobody sees the   *)
(* memory in between.  Scratch memory is blank when a call starts, since a *)
(* call must not rest on what an earlier one left there.                   *)
(***************************************************************************)
EXTENDS GraphExec

CONSTANTS Builds,       \* what to load
          Prompts,      \* the prompts to prefill
          MaxEvents     \* bound on the calls made and the launches refused

-----------------------------------------------------------------------------
\* Engine::load: which kernels an engine has, from its environment and from
\* what failed to load.  A failure is made up for by the next slower set of
\* kernels.  A build is what the steps of the engine look at.
EnvVars == {"PARITY_F32", "JGEMM", "DECODE_FLASH", "FUSED", "LAYER_FUSED", "GRAPH"}
Words == {"unset", "on", "off"}         \* a word that says neither is as none
Envs == [EnvVars -> Words]

\* What may fail to load, or not support the model's shapes.
Groups == {"jgemm", "fused", "layer", "decl"}

EnabledFromEnv(word) == word = "on"
DisabledFromEnv(word) == word = "off"

LoadJgemm(env, failing) == ~DisabledFromEnv(env["JGEMM"]) /\ "jgemm" \notin failing

\* The fused sequence is made of the custom product's kernels, around the
\* flash kernel, on the f16 channel.
FusedAsked(env) ==
    /\ ~EnabledFromEnv(env["PARITY_F32"])
    /\ \A name \in {"FUSED", "JGEMM", "DECODE_FLASH"} : ~DisabledFromEnv(env[name])

LoadFused(env, failing) == FusedAsked(env) /\ "fused" \notin failing

LoadLayerFused(env, failing) ==
    LoadFused(env, failing) /\ ~DisabledFromEnv(env["LAYER_FUSED"]) /\ "layer" \notin failing

LoadDecl(env, failing) ==
    EnabledFromEnv(env["GRAPH"]) /\ ~EnabledFromEnv(env["PARITY_F32"]) /\ "decl" \notin failing

Load(env, failing) ==
    [f32 |-> EnabledFromEnv(env["PARITY_F32"]),
     jgemm |-> LoadJgemm(env, failing),
     flash |-> ~DisabledFromEnv(env["DECODE_FLASH"]),
     fused |-> LoadFused(env, failing),
     layer |-> LoadLayerFused(env, failing),
     graph |-> LoadDecl(env, failing)]

\* Where the fused kernels are asked for, the code expects the custom product
\* to be loaded: when that one failed to, it panics.
LoadPanics(env, failing) == FusedAsked(env) /\ ~LoadJgemm(env, failing)

Loadable == {Load(env, failing) : <<env, failing>> \in
                {x \in Envs \X SUBSET Groups : ~LoadPanics(x[1], x[2])}}

ASSUME DecodeTiersAssumption ==
    /\ Builds \subseteq Loadable
    /\ Prompts \subseteq TokenSeqs
    /\ MaxEvents \in Nat
    /\ 0 \in Tokens                    \* the phantom's token
    /\ MaxLen <= PP * BlockLen         \* the context fits the pages of a layer
    /\ MaxLen <= NumLayers * PP        \* and the score rows of the naive kernels

VARIABLES build,     \* the kernels the engine was loaded with, and the declared step
          graph,     \* the graph of each bucket of lengths
          call,      \* the call in progress
          mem,       \* device memory
          own,       \* the tokens whose KV is in the engine's own pool
          lanes,     \* and in each of two windows of the shared pool
          out,       \* what the last call returned, and for which tokens
          events     \* calls made and launches refused so far

vars == <<build, graph, call, mem, own, lanes, out, events>>

-----------------------------------------------------------------------------
\* An engine of build b has, to capture its step, the declaration of it.
Engine(b) == b @@ [decl |-> IF b.graph THEN Build(b) ELSE <<>>]
UseDecl(e) == e.graph /\ IsAllCustom(e.decl) /\ e.flash

\* step_decode_launches: the ways to decode a token, in the order they are
\* tried.
StepTiers(b) ==
    IF b.f32 THEN <<"f32">>
    ELSE (IF UseDecl(b) THEN <<"decl">> ELSE <<>>)
            \o (IF b.layer THEN <<"layer">> ELSE <<>>)
            \o (IF b.fused THEN <<"fused">> ELSE <<>>)
            \o <<"split">>

-----------------------------------------------------------------------------
\* Memory.
MaxRows == IF MaxLen > 3 THEN MaxLen ELSE 3
ScratchNames == {"x", "xn", "q", "k", "v", "attn", "oadd", "gate", "up", "down", "l2", "o",
                 "c_q", "c_k", "c_v", "c_o", "c_g", "c_u", "c_d", "logits", "x32", "xn32",
                 "attn32", "part", "pq", "pk", "pv", "po", "pg", "pu", "pd", "plm"}

BlankRows == [i \in 1..MaxRows |-> Blank]
BlankQkv == [i \in 1..MaxRows |-> <<"f32", [w \in {"q", "k", "v"} |-> Junk]>>]
Scratch == [s \in ScratchNames |-> BlankRows]
             @@ [c_qkv |-> BlankQkv, lens |-> <<0, 0, 0>>, toks |-> <<0, 0, 0>>,
                 pos |-> <<0, 0, 0>>]

\* The shared pool: a window for each lane, and the anchor's at the top.
Windows == 3
LaneBase(lane) == (lane - 1) * TotalPages
AnchorBase == (Windows - 1) * TotalPages
PoolRows(pages) == [i \in 0 .. 2 * pages * BlockLen - 1 |-> Blank]

\* What outlives a call: the pools, and the page tables of the last batch.
Kept == {"kv", "pages", "kvPtrs", "key"}
NewKept == [kv |-> [own |-> PoolRows(TotalPages), shared |-> PoolRows(Windows * TotalPages)],
            pages |-> <<>>, kvPtrs |-> <<>>, key |-> <<>>]
KeptOf(m) == [f \in Kept |-> m[f]]

\* The KV of a sequence, in a pool whose regions hold `total' pages.
HoldsKv(pool, base, total, toks) ==
    \A li \in Layers, i \in DOMAIN toks :
        LET page == base + li * PP + (i - 1) \div BlockLen
            off == (i - 1) % BlockLen
            prefix == SubSeq(toks, 1, i)
        IN  /\ pool[KRow(page, off)] = Half(Value("kr", li, prefix))
            /\ pool[VRow(total, page, off)] = Half(Value("v", li, prefix))

\* The executor's copy of the engine's pages of every layer into a window.
CopyOwnToShared(kv, base) ==
    LET shift == base * BlockLen
        half == Windows * TotalPages * BlockLen
        size == TotalPages * BlockLen
    IN  [kv EXCEPT !.shared = [r \in DOMAIN @ |->
            IF r - shift \in 0 .. size - 1 THEN kv.own[r - shift]
            ELSE IF r - half - shift \in 0 .. size - 1 THEN kv.own[r - half - shift + size]
            ELSE @[r]]]

-----------------------------------------------------------------------------
\* Calls.  A call decodes the tokens ids[1], ids[2], ... at the positions
\* first, first + 1, ...; `done' of them are.  tiers are the ways left for
\* the one it is at; item is where its program stands, other whether at the
\* other way of that item; rec whether a capture only records the launches.
Idle == [kind |-> "idle"]
NoOutput == [of |-> <<>>, logits |-> <<>>]

Stepping(kind, ids, first) ==
    [kind |-> kind, ids |-> ids, first |-> first, done |-> 0, tiers |-> <<>>, item |-> 1,
     other |-> FALSE, rec |-> FALSE]

Batch(reqs) ==
    [kind |-> "batch", reqs |-> reqs, key |-> mem.key, tiers |-> <<"batch">>, item |-> 1,
     other |-> FALSE, rec |-> FALSE]

Fmha(ids, sep) ==
    [kind |-> "prefill", ids |-> ids, first |-> 0, done |-> 0, tiers |-> <<"fmha">>, sep |-> sep,
     item |-> 1, other |-> FALSE, rec |-> FALSE]

\* The token of call c that is decoded, and where.
At(c) == [token |-> c.ids[c.done + 1], pos |-> c.first + c.done]

Bucket(c) == BucketIndex(At(c).pos + 1)

Eager(c) == [c EXCEPT !.tiers = StepTiers(build), !.item = 1, !.other = FALSE, !.rec = FALSE]

\* step_impl: the graph of the bucket is replayed; where there is none its
\* capture is tried, which only records the step, and then the step runs.
EnterStep(c, graphs) ==
    LET b == Bucket(c)
        Turn(g) == graph' = [graphs EXCEPT ![b] = g]
    IN  CASE ~build.graph \/ graphs[b].state = "failed" -> call' = Eager(c) /\ graph' = graphs
          [] build.graph /\ graphs[b].state = "none" ->
                call' = [Eager(c) EXCEPT !.rec = TRUE] /\ Turn(Capturing(<<>>))
          [] build.graph /\ graphs[b].state = "bound" ->
                IF CanReplay(build.decl, graphs[b])
                THEN call' = [Eager(c) EXCEPT !.tiers = <<"replay">> \o @] /\ graph' = graphs
                ELSE call' = Eager(c) /\ Turn(GraphFailed)

Program ==
    LET tier == Head(call.tiers)
        pos == At(call).pos
        token == At(call).token
    IN  CASE tier = "f32" -> StepDecodeF32(build, token, pos)
          [] tier = "replay" -> ReplayStep(build.decl, graph[Bucket(call)], At(call))
          [] tier = "decl" -> LaunchDecodeDecl(build.decl, At(call))
          [] tier = "layer" -> StepDecodeLayerFused(build, token, pos)
          [] tier = "fused" -> StepDecodeFused(build, token, pos)
          [] tier = "split" -> StepDecodeSplit(build, token, pos)
          [] tier = "fmha" -> PrefillBatchFmha(call.ids, call.sep)
          [] tier = "batch" -> BatchStepImpl(build, call.reqs, call.key)

Way(program, i) == IF i = call.item /\ call.other THEN program[i].alt ELSE program[i].main

\* The launches of the items before i, and p of item i.
Launched(program, i, p) ==
    Concat([j \in 1 .. i - call.item |-> Way(program, call.item + j - 1)])
        \o SubSeq(Way(program, i), 1, p)

Rest(program) ==
    Concat([j \in 1 .. Len(program) - call.item + 1 |-> Way(program, call.item + j - 1)])

MemoryAfter(program) == Run(mem, Rest(program))

Begin ==
    /\ call = Idle
    /\ events < MaxEvents
    /\ events' = events + 1
    /\ mem' = Scratch @@ mem
    /\ out' = NoOutput
    /\ UNCHANGED <<build, lanes>>

\* step: the next token of the sequence in the engine's pool.
Step(t) ==
    /\ own # <<>> /\ Len(own) < MaxLen
    /\ Begin
    /\ EnterStep(Stepping("step", <<t>>, Len(own)), graph)
    /\ UNCHANGED own

\* step, as the executor decodes after a prefill: its last token again, at
\* the position it has.
StepAgain ==
    /\ own # <<>>
    /\ Begin
    /\ EnterStep(Stepping("again", <<Last(own)>>, Len(own) - 1), graph)
    /\ UNCHANGED own

\* prefill_batch: a new sequence.  The f32 channel, and the others when the
\* selector says so, decode it token by token.
PrefillBatch(ids, dense, sep) ==
    /\ build.f32 => dense
    /\ dense => ~sep
    /\ Begin
    /\ IF dense THEN EnterStep(Stepping("prefill", ids, 0), graph)
                ELSE call' = Fmha(ids, sep) /\ UNCHANGED graph
    /\ own' = <<>>

\* A token for a segment of the shared pool, which holds so many already.
BatchReq(lane, token, pos, base) ==
    [token |-> token, pos |-> pos, len |-> pos + 1, base |-> base, lane |-> lane]

\* batch_step_impl's guards: the pool is the shared one, so what is left to
\* check is that a window has the pages.
BatchAccepts(reqs) ==
    \A i \in DOMAIN reqs : reqs[i].len \in 1..MaxKv /\ reqs[i].pos \div BlockLen < PP

\* batch_decode_step on both lanes, in either order, and the anchor's phantom.
BatchDecodeStep(order, toks) ==
    LET Req(lane) == BatchReq(lane, toks[lane], Len(lanes[lane]), LaneBase(lane))
        phantom == BatchReq(0, 0, 0, AnchorBase)
        reqs == <<Req(order[1]), Req(order[2]), phantom>>
    IN  /\ ~build.f32
        /\ \A lane \in 1..2 : lanes[lane] # <<>> /\ Len(lanes[lane]) < MaxLen
        /\ BatchAccepts(reqs)
        /\ Begin
        /\ call' = Batch(reqs)
        /\ UNCHANGED <<graph, own>>

\* The executor moves the sequence of its engine into a window.
Seat(lane) ==
    /\ call = Idle
    /\ own # <<>> /\ lanes[lane] # own
    /\ lanes' = [lanes EXCEPT ![lane] = own]
    /\ mem' = [mem EXCEPT !.kv = CopyOwnToShared(@, LaneBase(lane))]
    /\ out' = NoOutput
    /\ UNCHANGED <<build, graph, call, own, events>>

-----------------------------------------------------------------------------
\* The rest of the program runs.
ReturnStep(m) ==
    LET toks == IF call.kind = "step" THEN Append(own, call.ids[1])
                ELSE IF call.kind = "again" THEN own ELSE call.ids
    IN  /\ own' = toks
        /\ out' = [of |-> <<toks>>, logits |-> <<ReadSingle(m.logits[1])>>]
        /\ UNCHANGED lanes

ReturnPrefill(m) ==
    /\ own' = call.ids
    /\ out' = [of |-> <<call.ids>>, logits |-> <<ReadSingle(m.logits[Len(call.ids)])>>]
    /\ UNCHANGED lanes

ReturnBatch(m) ==
    LET Req(lane) == CHOOSE i \in 1..2 : call.reqs[i].lane = lane
    IN  /\ lanes' = [lane \in 1..2 |-> Append(lanes[lane], call.reqs[Req(lane)].token)]
        /\ out' = [of |-> [lane \in 1..2 |-> lanes'[lane]],
                   logits |-> [lane \in 1..2 |-> ReadSingle(m.logits[Req(lane)])]]
        /\ UNCHANGED own

LastToken ==
    IF Head(call.tiers) \in {"fmha", "batch"} THEN TRUE ELSE call.done + 1 = Len(call.ids)

\* A replay leaves the nodes as it set them.
GraphsAfter ==
    IF Head(call.tiers) = "replay"
    THEN [graph EXCEPT ![Bucket(call)] = AfterReplay(build.decl, @, At(call))]
    ELSE graph

\* prefill_fallback goes on with the next token.
NextToken(program) ==
    /\ call # Idle /\ ~call.rec /\ ~LastToken
    /\ LET m == MemoryAfter(program)
       IN  mem' = Scratch @@ m
    /\ EnterStep([call EXCEPT !.done = @ + 1], GraphsAfter)
    /\ UNCHANGED <<build, own, lanes, out, events>>

Complete(program) ==
    /\ call # Idle /\ ~call.rec /\ LastToken
    /\ LET m == MemoryAfter(program)
       IN  /\ mem' = KeptOf(m)
           /\ CASE Head(call.tiers) = "batch" -> ReturnBatch(m)
                [] Head(call.tiers) = "fmha" -> ReturnPrefill(m)
                [] OTHER -> ReturnStep(m)
    /\ call' = Idle
    /\ graph' = GraphsAfter
    /\ UNCHANGED <<build, events>>

\* try_graph_capture: all is recorded, and the graph kept or not; CUDA may also
\* refuse to begin, to end or to instantiate it.  The step has yet to run.
CaptureEnds(program) ==
    /\ call # Idle /\ call.rec
    /\ LET nodes == graph[Bucket(call)].nodes \o KernelNodes(Rest(program))
       IN  \E g \in {Finish(build.decl, nodes, UseDecl(build), r) : r \in Runtimes}
                        \cup {GraphFailed} :
                graph' = [graph EXCEPT ![Bucket(call)] = g]
    /\ call' = Eager(call)
    /\ UNCHANGED <<build, mem, own, lanes, out, events>>

-----------------------------------------------------------------------------
\* A launch is refused, launch p + 1 of item i; the host's copies are not.
\* The item has another way: it is taken, from its start.
OtherWay(program, i) ==
    /\ program[i].alt # <<>> /\ ~(i = call.item /\ call.other)
    /\ call' = [call EXCEPT !.item = i, !.other = TRUE]

NoOtherWay(program, i) == program[i].alt = <<>> \/ (i = call.item /\ call.other)

\* The tier fails, and there is another one, which starts over.
NextTier(program, i) ==
    /\ NoOtherWay(program, i)
    /\ Len(call.tiers) > 1
    /\ call' = [call EXCEPT !.tiers = Tail(@), !.item = 1, !.other = FALSE]

\* prefill_fmha_timed: the prompt is decoded token by token instead.
PrefillFallback(program, i) ==
    /\ NoOtherWay(program, i)
    /\ call.tiers = <<"fmha">>
    /\ EnterStep(Stepping("prefill", call.ids, 0), graph)

LastWay(program, i) ==
    /\ NoOtherWay(program, i)
    /\ Len(call.tiers) = 1 /\ call.tiers # <<"fmha">>

\* The last tier fails: an error, and the caller keeps its tokens.
Fail(program, i) == LastWay(program, i) /\ call' = Idle

\* A graph whose replay fails is dropped.
RunRefused(program, i, p) ==
    /\ \/ OtherWay(program, i) /\ UNCHANGED graph
       \/ /\ NextTier(program, i)
          /\ graph' = IF Head(call.tiers) = "replay"
                      THEN [graph EXCEPT ![Bucket(call)] = GraphFailed] ELSE graph
       \/ PrefillFallback(program, i)
       \/ Fail(program, i) /\ UNCHANGED graph
    /\ LET m == Run(mem, Launched(program, i, p))
       IN  mem' = IF call' = Idle THEN KeptOf(m) ELSE m

\* While a capture records, the next way goes on recording.  When the last one
\* fails so does the capture, and the step runs.
RecordingRefused(program, i, p) ==
    /\ \/ /\ OtherWay(program, i) \/ NextTier(program, i)
          /\ graph' = [graph EXCEPT ![Bucket(call)].nodes =
                            @ \o KernelNodes(Launched(program, i, p))]
       \/ /\ LastWay(program, i)
          /\ call' = Eager(call)
          /\ graph' = [graph EXCEPT ![Bucket(call)] = GraphFailed]
    /\ UNCHANGED mem

Refused(program) ==
    \E i \in call.item .. Len(program) :
        \E p \in 0 .. Len(Way(program, i)) - 1 :
            /\ Way(program, i)[p + 1].op # "upload"
            /\ IF call.rec THEN RecordingRefused(program, i, p) ELSE RunRefused(program, i, p)

LaunchRefused(program) ==
    /\ call # Idle
    /\ events < MaxEvents
    /\ events' = events + 1
    /\ Refused(program)
    /\ UNCHANGED <<build, own, lanes, out>>

Proceed(program) ==
    \/ NextToken(program)
    \/ Complete(program)
    \/ CaptureEnds(program)
    \/ LaunchRefused(program)

-----------------------------------------------------------------------------
Init ==
    /\ build \in {Engine(b) : b \in Builds}
    /\ graph = [b \in Buckets |-> NoGraph]
    /\ call = Idle
    /\ mem = NewKept
    /\ own = <<>>
    /\ lanes = <<<<>>, <<>>>>
    /\ out = NoOutput
    /\ events = 0

Next ==
    \/ \E t \in Tokens : Step(t)
    \/ StepAgain
    \/ \E ids \in Prompts, dense, sep \in BOOLEAN : PrefillBatch(ids, dense, sep)
    \/ \E order \in {<<1, 2>>, <<2, 1>>}, toks \in [1..2 -> Tokens] : BatchDecodeStep(order, toks)
    \/ \E lane \in 1..2 : Seat(lane)
    \/ Proceed(Program)

Spec == Init /\ [][Next]_vars

-----------------------------------------------------------------------------
\* Whatever was refused on the way, what a call returns for a token is the
\* forward pass of the sequence it ends.
LogitsFaithful ==
    \A r \in DOMAIN out.of : out.logits[r] = Value("logits", NumLayers, out.of[r])

\* And the pools hold the KV of every position of the sequences they are said
\* to hold, in every layer: nothing a failed tier, a swapped batch or the
\* phantom left there is in a place a later call reads.
PoolsFaithful ==
    /\ HoldsKv(mem.kv.own, 0, TotalPages, own)
    /\ \A lane \in 1..2 :
            HoldsKv(mem.kv.shared, LaneBase(lane), Windows * TotalPages, lanes[lane])
=============================================================================
