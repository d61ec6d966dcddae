------------------------------ MODULE ServerOps ------------------------------
(***************************************************************************)
(* What the server computes before it listens, and before a request goes   *)
(* to an engine (bin/reinfer/src/serve.rs, main.rs, crates/arch,           *)
(* crates/memory/src/budget.rs): the model's shape, the pages of the       *)
(* shared KV pool and the concurrency they allow, the checks of run_sync   *)
(* and cmd_run, the request a body asks for and the answer that a finished *)
(* generation becomes.                                                     *)
(***************************************************************************)
EXTENDS Integers

Absent == -1
Option(S) == S \union {Absent}

\* What config.json says of the model.
Shape(Num) == [ctx : Num, layers : Num, hidden : Num, heads : Num,
               kv : Option(Num), dim : Option(Num)]

\* The command line, the model directory and the device.
Site(Num, Faults) ==
  {s \in
    [cli : BOOLEAN,         \* `reinfer run`, not `reinfer serve`
     sched : BOOLEAN,       \* REINFER_SCHEDULER
     seqs : Nat,            \* --max-num-seqs
     len : Option(Num),     \* --max-model-len
     block : Num \ {0},     \* tokens in a page
     hf : Shape(Num),
     eos : SUBSET {"generation", "config", "tokenizer", "family"}, \* who names an EOS token
     mem : Num,             \* device memory in bytes
     weights : Num,         \* what the model's files hold in bytes
     linked : BOOLEAN,      \* whether they are symbolic links ...
     links : Num,           \* ... and the bytes of those links
     key : BOOLEAN,         \* --api-key
     wrong : SUBSET Faults] : \* what is missing, refused or unreadable
   ~(s.cli /\ s.sched)}

-----------------------------------------------------------------------------
(* The model's shape *)

\* from_hf_config: the optional numbers follow from the others.
KvHeads(hf) == IF hf.kv = Absent THEN hf.heads ELSE hf.kv
HeadDim(hf) ==
  IF hf.dim # Absent THEN hf.dim
  ELSE IF hf.hidden % hf.heads = 0 THEN hf.hidden \div hf.heads ELSE 0

\* A grouping that is not a divisor of the heads passes.
ConfigInvalid(hf) == hf.heads = 0 \/ KvHeads(hf) \notin 1..hf.heads \/ HeadDim(hf) = 0

\* The window of a request, --max-model-len or what the model was made for.
MaxLen(site) == IF site.len = Absent THEN site.hf.ctx ELSE site.len

\* resolve_eos asks the four in turn; `run` never hands over the tokenizer's.
HasEos(site) == (IF site.cli THEN site.eos \ {"tokenizer"} ELSE site.eos) # {}

-----------------------------------------------------------------------------
(* The pool *)

DivCeil(a, b) == (a + b - 1) \div b

\* A page of one layer in bytes: K and V, two bytes each.
LayerPageBytes(site) == site.block * KvHeads(site.hf) * HeadDim(site.hf) * 4

\* The budget's page spans all layers.
PageBytes(site) == site.hf.layers * LayerPageBytes(site)

\* dir_bytes asks for the metadata of the entry, not of what a link leads to.
DirBytes(site) == IF site.linked THEN site.links ELSE site.weights

\* One window of pages in every layer, which Engine::load takes for itself.
WindowPages(site) == site.hf.layers * DivCeil(MaxLen(site), site.block)
OwnPoolBytes(site) == WindowPages(site) * LayerPageBytes(site)

\* What is left of 90 % of the memory.
KvCapacityBytes(mem, reserved) ==
  LET budget == (mem * 9) \div 10
  IN  IF budget > reserved THEN budget - reserved ELSE 0

\* A pool that forgets the engine's own (mutant).
KvBudgetAlone(site) ==
  KvCapacityBytes(site.mem, DirBytes(site)) \div PageBytes(site)

KvBudgetPages(site) ==
  KvCapacityBytes(site.mem, DirBytes(site) + OwnPoolBytes(site)) \div PageBytes(site)

\* sched_kv_pages: refused below one window, else blocks become pages of one layer.
PoolTooSmall(site) == KvBudgetPages(site) < DivCeil(MaxLen(site), site.block)
SchedKvPages(site) == KvBudgetPages(site) * site.hf.layers

\* The windows left beside the anchor's, as far as the user wants them.
AdmitCap(site) ==
  LET free == (SchedKvPages(site) - WindowPages(site)) \div WindowPages(site)
  IN  IF free < site.seqs THEN free ELSE site.seqs

-----------------------------------------------------------------------------
(* run_sync up to the listener, cmd_run up to the prompt *)

\* What both look at before an engine is loaded.
NothingToRun(site) ==
  \/ site.wrong \intersect {"backend", "directory", "config", "device"} # {}
  \/ ConfigInvalid(site.hf)

\* A server has loaded its tokenizer by then, and a scheduled one planned its pool.
Refused(site) ==
  \/ NothingToRun(site)
  \/ ~site.cli /\ ((~site.sched /\ site.seqs # 1) \/ "tokenizer" \in site.wrong)
  \/ site.sched /\ site.hf.layers > 0 /\ PoolTooSmall(site)

\* A budget divided by a page of no layers, a pool by a window of no pages;
\* expect() on the stream or architecture.
Panicking(site) ==
  IF site.sched THEN site.hf.layers = 0 \/ WindowPages(site) = 0 ELSE "arch" \in site.wrong

-----------------------------------------------------------------------------
(* parse_completion.  A body has its prompt's length in tokens, or none;    *)
(* max_tokens as the client wrote it; `odd`, what else is wrong with it.    *)

NoPrompt == Absent

\* `as u32`, in a width of w values.
Truncated(n, w) == n % w

\* The output left out of the context (mutant).
PromptExceeds(prompt, max, ctx) == prompt > ctx
Exceeds(prompt, max, ctx) == prompt + max > ctx

\* The parameter a body is refused for, in the order of the checks.
BadParam(body, max, ctx) ==
  IF body.prompt = NoPrompt THEN "prompt"
  ELSE IF body.odd = "text" THEN "encode"
  ELSE IF max = 0 THEN "max_tokens"
  ELSE IF body.odd \in {"temperature", "top_p"} THEN body.odd
  ELSE IF Exceeds(body.prompt, max, ctx) THEN "context_length"
  ELSE IF body.odd \in {"stop", "stop_encode"} THEN body.odd
  ELSE "none"

\* A stop string that does not tokenize is the server's error.
ErrorStatus(param) == IF param = "stop_encode" THEN 500 ELSE 400

-----------------------------------------------------------------------------
(* Finish reasons *)

\* The frame that ends a generation, streamed or sent by the scheduler.
FinishOf(end) ==
  CASE end \in {"eos", "stop"} -> "stop" [] end = "length" -> "length" [] OTHER -> "error"

\* The serial loop's plain answer looks at EOS only.
PlainFinishOf(end) == IF end = "eos" THEN "stop" ELSE "length"

-----------------------------------------------------------------------------
\* How `run` exits: what is left to print to a pipe nobody reads is a panic.
RunCode(end, gone) ==
  IF end = "error" THEN 2 ELSE IF end = "panic" \/ gone THEN 101 ELSE 0
=============================================================================
