------------------------------- MODULE Server -------------------------------
(***************************************************************************)
(* The process (bin/reinfer/src/serve.rs, main.rs): run_sync from its      *)
(* checks to the listener and to the signal that ends it, the completions  *)
(* of concurrent clients on either path, and `reinfer run`, which does one *)
(* and prints it.                                                          *)
(*                                                                         *)
(* Serial (REINFER_SCHEDULER=off): each completion is a blocking task that *)
(* takes the engine's mutex and runs generate_stream; a panic under the    *)
(* mutex poisons it.  Scheduled: handlers submit to the loop thread, which *)
(* answers over one bounded channel per request and blocks on a full one.  *)
(* The loop is SchedLoop reduced to whom it takes, serves and tells.       *)
(***************************************************************************)
EXTENDS ServerOps, Sequences, SequencesExt, FiniteSets

CONSTANTS Client,     \* each sends one request
          Sites,      \* the machines and command lines
          Bodies,     \* the bodies a client may send
          FrameCap,   \* frames a channel holds (256)
          Width       \* values of a u32

ASSUME ServerAssumption ==
  /\ IsFiniteSet(Client) /\ {"shutdown", "nobody"} \intersect Client = {}
  /\ {FrameCap, Width} \subseteq Nat \ {0}
  /\ Sites \subseteq Site(Nat, {"backend", "directory", "config", "tokenizer", "device", "arch",
                                "engine", "executor", "addr", "bind"})
  /\ Bodies \subseteq [prompt : Option(Nat), max : Nat, odd : STRING,
                       stream : BOOLEAN, stops : BOOLEAN, splits : BOOLEAN]

VARIABLES site,      \* where the server runs
          server,    \* run_sync: where it is, its exit code, the pool it planned
          loop,      \* the scheduler's thread
          lock,      \* the mutex of the serial engine
          job,       \* client -> its generation
          chan,      \* client -> frames on their way to its handler
          answer,    \* client -> what it has received
          away       \* clients whose connection is gone

vars == <<site, server, loop, lock, job, chan, answer, away>>

NoJob == [st |-> "none", made |-> 0, max |-> 0, end |-> "none"]
NoAnswer == [st |-> "none", status |-> 0, got |-> 0, end |-> "none", done |-> FALSE]

Init ==
  /\ site \in Sites
  /\ server = [st |-> "starting", code |-> 0, pages |-> 0, cap |-> 0]
  /\ loop = [st |-> "none", cmds |-> <<>>, waiting |-> <<>>, running |-> {},
             batch |-> {}, sending |-> <<>>]
  /\ lock = [holder |-> "nobody", poisoned |-> FALSE]
  /\ job = [c \in Client |-> NoJob] /\ answer = [c \in Client |-> NoAnswer]
  /\ chan = [c \in Client |-> <<>>] /\ away = {}

-----------------------------------------------------------------------------
(* run_sync *)

completions == <<lock, job, chan, answer, away>>
Exit(code) == [server EXCEPT !.st = "down", !.code = code]

Start ==
  /\ server.st = "starting"
  /\ server' = CASE Refused(site) -> Exit(2)
                 [] ~Refused(site) /\ Panicking(site) -> Exit(101)
                 [] ~Refused(site) /\ ~Panicking(site) /\ site.sched ->
                      [server EXCEPT !.st = "spawning", !.pages = SchedKvPages(site),
                                     !.cap = AdmitCap(site)]
                 [] OTHER -> IF "engine" \in site.wrong THEN Exit(2)
                             ELSE [server EXCEPT !.st = "loaded"]
  /\ loop' = [loop EXCEPT !.st = IF server'.st = "spawning" THEN "init" ELSE @]
  /\ UNCHANGED <<site, completions>>

\* SchedHandle::spawn: run_sync waits for the executor to be loaded on the thread.
Spawned ==
  /\ server.st = "spawning" /\ loop.st = "init"
  /\ IF "executor" \in site.wrong
     THEN server' = Exit(2) /\ loop' = [loop EXCEPT !.st = "stopped"]
     ELSE server' = [server EXCEPT !.st = "loaded"] /\ loop' = [loop EXCEPT !.st = "running"]
  /\ UNCHANGED <<site, completions>>

\* A bad address returns and joins the loop, a failed bind ends the process.
Listen ==
  /\ server.st = "loaded" /\ ~site.cli
  /\ server' = IF "addr" \in site.wrong THEN Exit(2)
               ELSE IF "bind" \in site.wrong THEN Exit(4)
               ELSE [server EXCEPT !.st = "listening"]
  /\ loop' = [loop EXCEPT !.st = IF server'.st = "down" /\ site.sched THEN "stopped" ELSE @]
  /\ UNCHANGED <<site, completions>>

\* SIGINT or SIGTERM: the runtime goes, with every connection and handler, and
\* the last handle tells the loop to stop.
Signal ==
  /\ server.st = "listening"
  /\ server' = [server EXCEPT !.st = "stopping"]
  /\ away' = {c \in Client : answer[c].st = "open"} \union away
  /\ answer' = [c \in Client |-> IF answer[c].st = "open" THEN [answer[c] EXCEPT !.st = "cut"]
                                 ELSE answer[c]]
  /\ chan' = [c \in Client |-> <<>>]
  /\ loop' = [loop EXCEPT !.cmds = Append(@, "shutdown")]
  /\ UNCHANGED <<site, lock, job>>

\* The runtime waits for the blocking tasks that run, the handle for the loop.
Down ==
  /\ server.st = "stopping" /\ loop.st # "running"
  /\ \A c \in Client : job[c].st \notin {"queued", "running"}
  /\ server' = Exit(0)
  /\ UNCHANGED <<site, loop, completions>>

-----------------------------------------------------------------------------
(* A request arrives: the API key, parse_completion, then a path *)

Refuse(c, status) ==
  /\ answer' = [answer EXCEPT ![c] = [NoAnswer EXCEPT !.st = "closed", !.status = status]]
  /\ UNCHANGED <<job, loop>>

\* The handler waits; a stream has its 200 at once.
Accept(c, body, st) ==
  /\ job' = [job EXCEPT ![c] = [body |-> body, st |-> st, made |-> 0, end |-> "none",
                                max |-> Truncated(body.max, Width)]]
  /\ answer' = [answer EXCEPT ![c] = [NoAnswer EXCEPT !.st = "open",
                                                      !.status = IF body.stream THEN 200 ELSE 0]]

Post(c, body) ==
  /\ server.st = "listening" /\ answer[c].st = "none"
  /\ IF site.key /\ body.odd = "key" THEN Refuse(c, 401)
     ELSE IF BadParam(body, Truncated(body.max, Width), MaxLen(site)) # "none" THEN
       Refuse(c, ErrorStatus(BadParam(body, Truncated(body.max, Width), MaxLen(site))))
     ELSE IF ~site.sched THEN Accept(c, body, "queued") /\ UNCHANGED loop
     ELSE IF loop.st # "running" THEN Refuse(c, 500)
     ELSE /\ Accept(c, body, "submitted")
          /\ loop' = [loop EXCEPT !.cmds = Append(@, c)]
  /\ UNCHANGED <<site, server, lock, chan, away>>

\* The connection breaks; the handler and its end of the channel are dropped.
Leave(c) ==
  /\ answer[c].st = "open"
  /\ answer' = [answer EXCEPT ![c].st = "cut"]
  /\ away' = away \union {c}
  /\ chan' = [chan EXCEPT ![c] = <<>>]
  /\ UNCHANGED <<site, server, loop, lock, job>>

-----------------------------------------------------------------------------
(* The serial path *)

\* Frames of a stream reach the handler; what it is told when nobody is there
\* is lost.
Told(c, frames) ==
  chan' = IF job[c].body.stream /\ c \notin away THEN [chan EXCEPT ![c] = @ \o frames] ELSE chan

Over(c, end) == [job EXCEPT ![c].st = "over", ![c].end = end]

\* lock().unwrap(): on a poisoned mutex the task panics in turn.
TakeLock(c) ==
  /\ job[c].st = "queued" /\ lock.holder = "nobody"
  /\ IF lock.poisoned THEN job' = Over(c, "poison") /\ UNCHANGED lock
     ELSE /\ lock' = [lock EXCEPT !.holder = c]
          /\ job' = [job EXCEPT ![c].st = "running"]
  /\ UNCHANGED <<site, server, loop, chan, answer, away>>

\* The generation ends; a stream gets its finish frame and [DONE].
SerialEnds(c, end) ==
  /\ job' = Over(c, end)
  /\ lock' = [lock EXCEPT !.holder = "nobody"]
  /\ Told(c, IF site.cli THEN <<>> ELSE <<FinishOf(end), "DONE">>)

\* What the next step of an engine may bring for a body.
Kinds(body) == {"token", "error"} \union (IF HasEos(site) THEN {"eos"} ELSE {})
                 \union (IF body.stops THEN {"stop"} ELSE {})
                 \union (IF body.splits THEN {"panic"} ELSE {})

\* A token reaches the handler; one that cannot ends the loop with no reason.
SerialToken(c) ==
  IF job[c].body.stream /\ c \in away THEN SerialEnds(c, "closed")
  ELSE /\ job' = [job EXCEPT ![c].made = @ + 1]
       /\ Told(c, <<"token">>)
       /\ UNCHANGED lock

\* One turn of generate_stream.
Turn(c) ==
  /\ lock.holder = c
  /\ \/ job[c].body.prompt = 0 /\ SerialEnds(c, "error")
     \/ /\ job[c].body.prompt > 0 /\ job[c].made >= job[c].max
        /\ SerialEnds(c, "length")
     \/ /\ job[c].body.prompt > 0 /\ job[c].made < job[c].max
        /\ \E kind \in Kinds(job[c].body) :
             CASE kind = "token" -> SerialToken(c)
               [] kind = "panic" -> /\ job' = Over(c, "panic") /\ UNCHANGED chan
                                    /\ lock' = [holder |-> "nobody", poisoned |-> TRUE]
               [] OTHER -> SerialEnds(c, kind)
  /\ UNCHANGED <<site, server, loop, answer, away>>

-----------------------------------------------------------------------------
(* `reinfer run`: the reader of its stdout is the client *)

\* The tokenizer is loaded after the engine; nothing compares the prompt and
\* the tokens asked for with the context.
Prompt(c, body) ==
  /\ server.st = "loaded" /\ site.cli
  /\ IF "tokenizer" \in site.wrong \/ body.prompt = NoPrompt \/ body.odd = "text"
     THEN server' = Exit(2) /\ UNCHANGED <<job, answer, lock>>
     ELSE /\ body.stream /\ ~body.stops /\ body.max < Width
          /\ server' = [server EXCEPT !.st = "running"]
          /\ Accept(c, body, "running")
          /\ lock' = [lock EXCEPT !.holder = c]
  /\ UNCHANGED <<site, loop, chan, away>>

RunEnds(c) ==
  /\ server.st = "running" /\ job[c].st = "over"
  /\ server' = Exit(RunCode(job[c].end, c \in away))
  /\ UNCHANGED <<site, loop, completions>>

-----------------------------------------------------------------------------
(* The scheduled path *)

LoopRuns == loop.st = "running" /\ loop.sending = <<>> /\ loop.batch = {}
OffTables(l, c) == [l EXCEPT !.waiting = RemoveFirst(@, c), !.running = @ \ {c},
                             !.batch = @ \ {c}]

\* The thread ends and with it every sender.
AllLost == job' = [c \in Client |-> IF job[c].st = "submitted"
                                   THEN [job[c] EXCEPT !.st = "over", !.end = "lost"] ELSE job[c]]
LoopEnds(st) == /\ loop' = [loop EXCEPT !.st = st, !.cmds = <<>>, !.waiting = <<>>,
                                        !.running = {}, !.batch = {}, !.sending = <<>>]
                /\ AllLost

\* An empty prompt is answered from the command itself.
LoopCommand ==
  /\ LoopRuns /\ loop.cmds # <<>>
  /\ LET c == Head(loop.cmds)
         rest == [loop EXCEPT !.cmds = Tail(@)]
     IN  IF c = "shutdown" THEN LoopEnds("stopped")
         ELSE IF job[c].body.prompt = 0
         THEN /\ loop' = [rest EXCEPT !.sending = <<[to |-> c, frame |-> "error"]>>]
              /\ job' = [job EXCEPT ![c].end = "error"]
         ELSE loop' = [rest EXCEPT !.waiting = Append(@, c)] /\ UNCHANGED job
  /\ UNCHANGED <<site, server, lock, chan, answer, away>>

\* A step: as many of the queue as windows are left, then a batch of all that run.
LoopStep ==
  /\ LoopRuns /\ loop.cmds = <<>>
  /\ loop.waiting # <<>> \/ loop.running # {}
  /\ LET free == server.cap - Cardinality(loop.running)
         n == IF free < Len(loop.waiting) THEN free ELSE Len(loop.waiting)
         now == loop.running \union Range(SubSeq(loop.waiting, 1, n))
     IN  loop' = [loop EXCEPT !.waiting = SubSeq(@, n + 1, Len(@)), !.running = now, !.batch = now]
  /\ UNCHANGED <<site, server, completions>>

Sends(c, frame) ==
  loop' = [loop EXCEPT !.batch = @ \ {c}, !.sending = <<[to |-> c, frame |-> frame]>>]

\* One request of the batch.  The cap is looked at after the token was sampled.
Decode(c) ==
  /\ loop.st = "running" /\ loop.sending = <<>> /\ c \in loop.batch
  /\ \E kind \in Kinds(job[c].body) :
       CASE kind = "panic" -> /\ job[c].made < job[c].max /\ LoopEnds("died")
         [] kind = "token" /\ job[c].made < job[c].max ->
              Sends(c, "token") /\ job' = [job EXCEPT ![c].made = @ + 1]
         [] kind = "token" /\ job[c].made >= job[c].max ->
              Sends(c, "length") /\ job' = [job EXCEPT ![c].end = "length"]
         [] OTHER -> Sends(c, FinishOf(kind)) /\ job' = [job EXCEPT ![c].end = kind]
  /\ UNCHANGED <<site, server, lock, chan, answer, away>>

\* The engine refuses the batch: all of it is aborted, one error after the other.
BatchFails ==
  /\ loop.st = "running" /\ loop.sending = <<>> /\ loop.batch # {} /\ loop.batch = loop.running
  /\ loop' = [loop EXCEPT !.batch = {},
                          !.sending = SetToSeq({[to |-> c, frame |-> "error"] : c \in loop.batch})]
  /\ job' = [c \in Client |-> IF c \in loop.batch THEN [job[c] EXCEPT !.end = "error"] ELSE job[c]]
  /\ UNCHANGED <<site, server, lock, chan, answer, away>>

\* The request leaves the tables and its sender is dropped.
Finished(c, end) == job' = [job EXCEPT ![c].st = "over", ![c].end = end]

\* A send that loses the frame when the channel is full (mutant).
TrySent(q, frame) == {IF Len(q) < FrameCap THEN Append(q, frame) ELSE q}

\* What a channel may become: nothing while it is full.
Sent(q, frame) == IF Len(q) < FrameCap THEN {Append(q, frame)} ELSE {}

\* A receiver something keeps alive (mutant).
NeverGone(c) == FALSE
ReceiverGone(c) == c \in away

\* blocking_send: it waits while the channel is full; with the receiver gone a
\* token's request is aborted, and an end is told to nobody.
SendFrame ==
  /\ loop.st = "running" /\ loop.sending # <<>>
  /\ LET c == Head(loop.sending).to
         frame == Head(loop.sending).frame
         rest == [loop EXCEPT !.sending = Tail(@)]
     IN  IF ReceiverGone(c)
         THEN /\ loop' = OffTables(rest, c) /\ UNCHANGED chan
              /\ Finished(c, IF frame = "token" THEN "closed" ELSE job[c].end)
         ELSE /\ \E q \in Sent(chan[c], frame) : chan' = [chan EXCEPT ![c] = q]
              /\ IF frame = "token" THEN loop' = rest /\ UNCHANGED job
                 ELSE loop' = OffTables(rest, c) /\ Finished(c, job[c].end)
  /\ UNCHANGED <<site, server, lock, answer, away>>

-----------------------------------------------------------------------------
(* The handler's side *)

Heard(a, frame) ==
  CASE frame = "token" -> [a EXCEPT !.got = @ + 1]
    [] frame = "DONE" -> [a EXCEPT !.done = TRUE]
    [] OTHER -> [a EXCEPT !.end = frame]

Closed(a, status, end) == [a EXCEPT !.st = "closed", !.status = status, !.end = end]

\* The next frame; a plain answer is complete with the frame that ends it.
Receive(c) ==
  /\ answer[c].st = "open" /\ chan[c] # <<>>
  /\ LET frame == Head(chan[c])
         a == Heard(answer[c], frame)
     IN  answer' = [answer EXCEPT ![c] =
           IF job[c].body.stream \/ frame = "token" THEN a
           ELSE Closed(a, IF frame = "error" THEN 500 ELSE 200, frame)]
  /\ chan' = [chan EXCEPT ![c] = Tail(@)]
  /\ UNCHANGED <<site, server, loop, lock, job, away>>

\* The sender is gone and the channel empty.  A scheduled stream ends with
\* [DONE] whatever came before; a scheduled plain answer without an end frame
\* says "length"; a serial plain answer is made of what the task returned.
EndOfFrames(c) ==
  /\ answer[c].st = "open" /\ chan[c] = <<>> /\ job[c].st = "over"
  /\ LET a == answer[c]
     IN  answer' = [answer EXCEPT ![c] =
           IF job[c].body.stream THEN [a EXCEPT !.st = "closed", !.done = a.done \/ site.sched]
           ELSE IF site.sched THEN Closed(a, 200, "length")
           ELSE IF job[c].end \in {"error", "panic", "poison"} THEN Closed(a, 500, "error")
           ELSE [Closed(a, 200, PlainFinishOf(job[c].end)) EXCEPT !.got = job[c].made]]
  /\ UNCHANGED <<site, server, loop, lock, job, chan, away>>

-----------------------------------------------------------------------------
Next ==
  \/ Start \/ Spawned \/ Listen \/ Signal \/ Down
  \/ LoopCommand \/ LoopStep \/ BatchFails \/ SendFrame
  \/ \E c \in Client : \/ \E body \in Bodies : Post(c, body) \/ Prompt(c, body)
                       \/ RunEnds(c) \/ Leave(c) \/ TakeLock(c) \/ Turn(c) \/ Decode(c)
                       \/ Receive(c) \/ EndOfFrames(c)
  \/ server.st \in {"listening", "down"} /\ UNCHANGED vars    \* waits for clients, or is gone

\* Threads and tasks run; a client reads what it is sent, or its connection breaks.
Fairness ==
  /\ WF_vars(Start) /\ WF_vars(Spawned) /\ WF_vars(Listen) /\ WF_vars(Down)
  /\ WF_vars(LoopCommand) /\ WF_vars(LoopStep) /\ WF_vars(\E c \in Client : Decode(c))
  /\ WF_vars(SendFrame) /\ WF_vars(\E c \in Client : RunEnds(c))
  /\ \A c \in Client : /\ WF_vars(TakeLock(c)) /\ WF_vars(Turn(c))
                       /\ WF_vars(chan[c] # <<>> /\ (Receive(c) \/ Leave(c)))
                       /\ WF_vars(EndOfFrames(c))

Spec == Init /\ [][Next]_vars /\ Fairness

-----------------------------------------------------------------------------
(* Properties *)

TypeOK ==
  /\ server.st \in {"starting", "spawning", "loaded", "listening", "running", "stopping", "down"}
  /\ server.pages \in Nat /\ server.cap \in Int
  /\ lock.holder = "nobody" \/ job[lock.holder].st = "running"
  /\ loop.batch \subseteq loop.running
  /\ \A c \in Client : Len(chan[c]) > FrameCap => ~site.sched

\* The pool a server starts with, its engine's own pool and the weights fit in
\* 90 % of the device's memory, and the pool has the anchor's window: the budget
\* is computed in blocks of all layers, spent in pages of one.
FitsDevice ==
  server.pages > 0 /\ ~site.linked =>
    /\ 10 * (server.pages * LayerPageBytes(site) + OwnPoolBytes(site) + site.weights)
         <= 9 * site.mem
    /\ server.pages >= WindowPages(site)

\* No completion of a server writes beyond the context, however large the number it was
\* asked for before it was cut to 32 bits.
WithinContext == \A c \in Client : job[c].st # "none" /\ ~site.cli => job[c].body.prompt + job[c].made <= MaxLen(site)

\* Whatever the others do, a client that is answered has its own completion:
\* every token of it in order, and the reason it ended for.  Only a panic that
\* took the engine away leaves a stream without an end, fails a client that did
\* nothing wrong, or makes a plain answer of the scheduled path claim "length";
\* only the plain answer of the serial path calls a stop "length".  The
\* reader of a `run` gets all it made.
EngineLost == lock.poisoned \/ loop.st = "died"
OwnEnd(c) ==
  LET a == answer[c]
      end == job[c].end
      plain == ~job[c].body.stream
  IN  IF site.cli THEN a.got = job[c].made
      ELSE
      CASE a.end = "none" -> end \in {"panic", "poison", "lost"} /\ EngineLost
        [] a.end = "stop" -> end \in {"eos", "stop"} /\ a.got = job[c].made
        [] a.end = "length" -> \/ end = "length" /\ a.got = job[c].made
                               \/ end = "stop" /\ plain /\ ~site.sched
                               \/ end = "lost" /\ plain /\ EngineLost
        [] OTHER -> end = "error" \/ (end \in {"panic", "poison"} /\ EngineLost)

AnswersHonest ==
  /\ TypeOK
  /\ \A c \in Client : answer[c].st = "closed" /\ job[c].st # "none" => OwnEnd(c)

\* Every client that was let in gets an answer to its end or goes, also when it
\* waits for a mutex or for a loop that waits for another client's full channel,
\* and when those panic; and a server that is told to stop does.
EveryClientAnswered ==
  /\ \A c \in Client : answer[c].st = "open" ~> answer[c].st # "open" \/ (site.sched /\ server.cap = 0)
  /\ server.st \in {"stopping", "running"} ~> server.st = "down"
=============================================================================
