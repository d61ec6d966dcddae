------------------------------ MODULE MCServer ------------------------------
(* Machines of both paths and every way a start fails; bodies of both kinds.  *)
EXTENDS Server

Machine == [cli |-> FALSE, sched |-> TRUE, seqs |-> 2, len |-> Absent, block |-> 2,
            hf |-> [ctx |-> 4, layers |-> 2, hidden |-> 4, heads |-> 2, kv |-> 1, dim |-> Absent],
            eos |-> {"generation"}, mem |-> 1000, weights |-> 100, linked |-> FALSE, links |-> 10,
            key |-> FALSE, wrong |-> {}]
Serial == [Machine EXCEPT !.sched = FALSE, !.seqs = 1]

\* 64 bytes a window.  Pools of three windows, and of one, which is the anchor's;
\* others up to a listener that cannot be bound; every way a start fails.
MCSites ==
  {[Machine EXCEPT !.mem = 400], [Machine EXCEPT !.mem = 260], [Serial EXCEPT !.key = TRUE]}
  \union {[Machine EXCEPT !.wrong = {"bind"}, !.mem = m, !.len = x, !.linked = l] :
            m \in {200, 270, 1000}, x \in {0, 3, 5}, l \in BOOLEAN}
  \union {[Machine EXCEPT !.wrong = {w}] : w \in {"config", "executor", "addr"}}
  \union {[Serial EXCEPT !.wrong = {w}] : w \in {"device", "arch", "engine", "bind"}}
  \union {[Serial EXCEPT !.seqs = 2], [Machine EXCEPT !.hf.heads = 3], [Serial EXCEPT !.hf.kv = 3],
          [Machine EXCEPT !.hf.layers = 0]}
  \union {[Serial EXCEPT !.cli = TRUE, !.wrong = w, !.eos = {"tokenizer"}] :
            w \in {{}, {"tokenizer"}, {"tokenizer", "arch"}}}

Body == [prompt |-> 1, max |-> 1, stream |-> FALSE, stops |-> FALSE, splits |-> FALSE,
         odd |-> "none"]
MCBodies ==
  {[Body EXCEPT !.stream = s, !.max = 10] : s \in BOOLEAN}
  \union {[Body EXCEPT !.stream = s, !.splits = TRUE] : s \in BOOLEAN}
  \union {[Body EXCEPT !.stops = TRUE], [Body EXCEPT !.prompt = 0, !.stream = TRUE]}
  \union {[Body EXCEPT !.prompt = NoPrompt], [Body EXCEPT !.prompt = 3, !.max = 2],
          [Body EXCEPT !.odd = "key"], [Body EXCEPT !.odd = "stop_encode"]}
=============================================================================
