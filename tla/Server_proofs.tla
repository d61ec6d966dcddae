---------------------------- MODULE Server_proofs ----------------------------
(***************************************************************************)
(* For every device, model and command line, any set of bodies and any     *)
(* number of clients.  First, the pool a scheduled server starts with fits *)
(* beside the weights and the engine's own pool, and has a window for the  *)
(* anchor: the budget is divided by a page of all layers, the pool is      *)
(* counted in pages of one.  Then, completions fit their context and an    *)
(* answer is a client's own.  Neither is inductive: Honest adds where a    *)
(* request can be (PlaceOK), what its path has made of it (JobOK), how     *)
(* much of it the client has heard (HeardOK), and that threads hold the    *)
(* lock, the loop and the page budget one at a time.                       *)
(***************************************************************************)
EXTENDS Server, FiniteSetTheorems, SequenceTheorems, TLAPS

States == {"starting", "spawning", "loaded", "listening", "running", "stopping", "down"}

\* What a start that was not refused has looked at.
Planable(s) == ~ConfigInvalid(s.hf) /\ s.hf.layers > 0 /\ ~PoolTooSmall(s)

\* The part of run_sync's variables FitsDevice needs: the site keeps its type,
\* and a plan is the one computed from the site by a start that was not refused.
Planned ==
  /\ site \in Sites
  /\ server \in [st : States, code : Nat, pages : Nat, cap : Nat]
  /\ server.pages > 0 => server.pages = SchedKvPages(site) /\ Planable(site)

-----------------------------------------------------------------------------
(* Arithmetic *)

\* What integer division returns: a natural that times the divisor fits.
LEMMA Quotient ==
  ASSUME NEW a \in Nat, NEW b \in Nat \ {0}
  PROVE  a \div b \in Nat /\ (a \div b) * b <= a
  BY SMT

\* Products of naturals keep their sign and their order.
LEMMA Product ==
  ASSUME NEW a \in Nat \ {0}, NEW b \in Nat \ {0}
  PROVE  a * b \in Nat \ {0}
  BY SMT

LEMMA IntQuotient ==
  ASSUME NEW a \in Int, NEW b \in Nat \ {0}
  PROVE  a \div b \in Int
  BY SMT

LEMMA Monotone ==
  ASSUME NEW a \in Int, NEW b \in Int, NEW n \in Nat, a <= b
  PROVE  n * a <= b * n
  BY SMT

\* Blocks of all layers are pages of one layer.
LEMMA Regroup ==
  ASSUME NEW q \in Int, NEW n \in Int, NEW p \in Int
  PROVE  (q * n) * p = q * (n * p)
  BY SMT

\* A shape that passes from_hf_config has heads, and numbers in them.
LEMMA ShapeFacts ==
  ASSUME NEW s \in Sites, ~ConfigInvalid(s.hf)
  PROVE  KvHeads(s.hf) \in Nat \ {0} /\ HeadDim(s.hf) \in Nat \ {0}
<1>1. /\ s.hf.heads \in Nat \ {0} /\ s.hf.hidden \in Nat
      /\ s.hf.kv \in Nat \union {-1} /\ s.hf.dim \in Nat \union {-1}
  BY ServerAssumption DEF Site, Shape, Option, Absent, ConfigInvalid
<1>2. KvHeads(s.hf) \in 1..s.hf.heads /\ HeadDim(s.hf) # 0 BY DEF ConfigInvalid
<1>3. HeadDim(s.hf) \in Nat
  <2>1. s.hf.hidden \div s.hf.heads \in Nat BY <1>1, Quotient
  <2> QED BY <1>1, <2>1 DEF HeadDim, Absent
<1> QED BY <1>1, <1>2, <1>3

LEMMA MaxLenIsNat ==
  ASSUME NEW s \in Sites
  PROVE  MaxLen(s) \in Nat
  BY ServerAssumption DEF Site, Shape, Option, Absent, MaxLen

\* The two sizes a page has are sizes of something.
LEMMA PageFacts ==
  ASSUME NEW s \in Sites, ~ConfigInvalid(s.hf), s.hf.layers > 0
  PROVE  /\ LayerPageBytes(s) \in Nat \ {0}
         /\ PageBytes(s) \in Nat \ {0}
         /\ DivCeil(MaxLen(s), s.block) \in Nat
         /\ WindowPages(s) \in Nat /\ OwnPoolBytes(s) \in Nat
         /\ DirBytes(s) \in Nat
<1>1. /\ s.hf.layers \in Nat \ {0} /\ s.block \in Nat \ {0}
      /\ s.weights \in Nat /\ s.links \in Nat
  BY ServerAssumption DEF Site, Shape
<1>2. LayerPageBytes(s) \in Nat \ {0}
  <2>1. s.block * KvHeads(s.hf) \in Nat \ {0} BY <1>1, ShapeFacts, Product
  <2>2. s.block * KvHeads(s.hf) * HeadDim(s.hf) \in Nat \ {0} BY <2>1, ShapeFacts, Product
  <2> QED BY <2>2, Product DEF LayerPageBytes
<1>3. PageBytes(s) \in Nat \ {0} BY <1>1, <1>2, Product DEF PageBytes
<1>4. DivCeil(MaxLen(s), s.block) \in Nat
  <2>1. MaxLen(s) + s.block - 1 \in Nat BY <1>1, MaxLenIsNat
  <2> QED BY <1>1, <2>1, Quotient DEF DivCeil
<1>5. WindowPages(s) \in Nat BY <1>1, <1>4, Monotone DEF WindowPages
<1>6. OwnPoolBytes(s) \in Nat BY <1>2, <1>5, Monotone DEF OwnPoolBytes
<1> QED BY <1>1, <1>2, <1>3, <1>4, <1>5, <1>6 DEF DirBytes

LEMMA CapacityIsNat ==
  ASSUME NEW s \in Sites, ~ConfigInvalid(s.hf), s.hf.layers > 0
  PROVE  KvCapacityBytes(s.mem, DirBytes(s) + OwnPoolBytes(s)) \in Nat
<1>1. s.mem \in Nat BY ServerAssumption DEF Site, Shape
<1>2. (s.mem * 9) \div 10 \in Nat BY <1>1, Quotient
<1> QED BY <1>2, PageFacts DEF KvCapacityBytes

-----------------------------------------------------------------------------
(* A plan fits *)

\* The pool is a number of pages, and the window of the anchor is among them.
LEMMA PlanHasWindow ==
  ASSUME NEW s \in Sites, Planable(s)
  PROVE  SchedKvPages(s) \in Nat /\ SchedKvPages(s) >= WindowPages(s)
<1>1. ~ConfigInvalid(s.hf) /\ s.hf.layers > 0 /\ ~PoolTooSmall(s) BY DEF Planable
<1>2. s.hf.layers \in Nat BY ServerAssumption DEF Site, Shape
<1>3. KvCapacityBytes(s.mem, DirBytes(s) + OwnPoolBytes(s)) \in Nat BY <1>1, CapacityIsNat
<1>4. KvBudgetPages(s) \in Nat BY <1>1, <1>3, PageFacts, Quotient DEF KvBudgetPages
<1>5. DivCeil(MaxLen(s), s.block) \in Nat /\ DivCeil(MaxLen(s), s.block) <= KvBudgetPages(s)
  BY <1>1, <1>4, PageFacts DEF PoolTooSmall
<1>6. KvBudgetPages(s) * s.hf.layers \in Nat
  BY <1>2, <1>4, Monotone
<1> QED BY <1>2, <1>4, <1>5, <1>6, Monotone DEF SchedKvPages, WindowPages

LEMMA PlanFits ==
  ASSUME NEW s \in Sites, Planable(s), SchedKvPages(s) > 0, ~s.linked
  PROVE  /\ 10 * (SchedKvPages(s) * LayerPageBytes(s) + OwnPoolBytes(s) + s.weights) <= 9 * s.mem
         /\ SchedKvPages(s) >= WindowPages(s)
<1> DEFINE budget == (s.mem * 9) \div 10
           reserved == DirBytes(s) + OwnPoolBytes(s)
           blocks == KvBudgetPages(s)
<1>1. s.mem \in Nat /\ s.weights \in Nat /\ s.hf.layers \in Nat \ {0}
  BY ServerAssumption DEF Site, Shape, Planable
<1>a. ~ConfigInvalid(s.hf) /\ s.hf.layers > 0 /\ ~PoolTooSmall(s) BY DEF Planable
<1>2. budget \in Nat /\ budget * 10 <= s.mem * 9
  BY <1>1, Quotient
<1>3. reserved \in Nat /\ reserved = s.weights + OwnPoolBytes(s)
  BY <1>1, <1>a, PageFacts DEF DirBytes
<1> DEFINE room == KvCapacityBytes(s.mem, reserved)
<1>4. room = IF budget > reserved THEN budget - reserved ELSE 0
  BY DEF KvCapacityBytes
<1>5. room \in Nat BY <1>a, CapacityIsNat
<1>6. blocks \in Nat /\ blocks * PageBytes(s) <= room
  BY <1>5, <1>a, PageFacts, Quotient DEF KvBudgetPages
<1>7. SchedKvPages(s) * LayerPageBytes(s) = blocks * PageBytes(s)
  BY <1>1, <1>6, <1>a, PageFacts, Regroup DEF SchedKvPages, PageBytes
<1>8. budget > reserved
  <2>1. SUFFICES ASSUME room = 0 PROVE FALSE BY <1>4
  <2>2. PageBytes(s) \in Nat \ {0} BY <1>a, PageFacts
  <2>3. blocks = 0
    <3>1. SUFFICES ASSUME blocks # 0 PROVE FALSE OBVIOUS
    <3>2. blocks * PageBytes(s) \in Nat \ {0} BY <1>6, <2>2, <3>1, Product
    <3> QED BY <1>6, <2>1, <3>2
  <2> QED BY <1>1, <2>3 DEF SchedKvPages
<1>9. SchedKvPages(s) * LayerPageBytes(s) + OwnPoolBytes(s) + s.weights <= budget
  <2>1. OwnPoolBytes(s) \in Nat /\ PageBytes(s) \in Nat BY <1>a, PageFacts
  <2>2. blocks * PageBytes(s) \in Int BY <1>6, <2>1
  <2> HIDE DEF budget, reserved, room, blocks
  <2> QED BY <1>1, <1>2, <1>3, <1>4, <1>6, <1>7, <1>8, <2>1, <2>2
<1>10. SchedKvPages(s) >= WindowPages(s) BY PlanHasWindow
<1>11. SchedKvPages(s) * LayerPageBytes(s) + OwnPoolBytes(s) + s.weights \in Int
  BY <1>1, <1>6, <1>7, <1>a, PageFacts
<1> HIDE DEF budget
<1> QED BY <1>1, <1>2, <1>9, <1>10, <1>11

-----------------------------------------------------------------------------
(* The invariant *)

\* After the start the plan is only carried along.
LEMMA PlanKept ==
  ASSUME Planned, site' = site, server'.pages = server.pages,
         server' \in [st : States, code : Nat, pages : Nat, cap : Nat]
  PROVE  Planned'
<1>1. Planable(site)' = Planable(site) OBVIOUS
<1>2. SchedKvPages(site)' = SchedKvPages(site) OBVIOUS
<1> QED BY <1>1, <1>2 DEF Planned

LEMMA MoveKeeps ==
  ASSUME Planned, site' = site, NEW st \in States, server' = [server EXCEPT !.st = st]
  PROVE  Planned'
<1>1. server' \in [st : States, code : Nat, pages : Nat, cap : Nat] BY DEF Planned
<1>2. server'.pages = server.pages BY DEF Planned
<1> QED BY <1>1, <1>2, PlanKept

LEMMA ExitKeeps ==
  ASSUME Planned, site' = site, NEW code \in Nat, server' = Exit(code)
  PROVE  Planned'
<1>1. server' \in [st : States, code : Nat, pages : Nat, cap : Nat] BY DEF Planned, Exit, States
<1>2. server'.pages = server.pages BY DEF Planned, Exit
<1> QED BY <1>1, <1>2, PlanKept

LEMMA StartPlans ==
  ASSUME Planned, Start
  PROVE  Planned'
<1>1. site' = site BY DEF Start
<1>2. CASE server' = Exit(2) BY <1>1, <1>2, ExitKeeps
<1>3. CASE server' = Exit(101) BY <1>1, <1>3, ExitKeeps
<1>4. CASE server' = [server EXCEPT !.st = "loaded"] BY <1>1, <1>4, MoveKeeps DEF States
<1>5. CASE /\ ~Refused(site) /\ site.sched /\ ~Panicking(site)
           /\ server' = [server EXCEPT !.st = "spawning", !.pages = SchedKvPages(site),
                                       !.cap = AdmitCap(site)]
  <2>3. site \in Sites /\ site.seqs \in Nat /\ site.hf.layers \in Nat
    BY ServerAssumption DEF Planned, Site, Shape
  <2>1. Planable(site) BY <1>5, <2>3 DEF Refused, NothingToRun, Panicking, Planable
  <2>a. ~ConfigInvalid(site.hf) /\ site.hf.layers > 0 BY <2>1 DEF Planable
  <2>2. WindowPages(site) \in Nat \ {0} BY <1>5, <2>3, <2>a, PageFacts DEF Panicking
  <2>4. SchedKvPages(site) \in Nat /\ SchedKvPages(site) >= WindowPages(site)
    BY <2>1, <2>3, PlanHasWindow
  <2>5. AdmitCap(site) \in Nat
    <3>1. (SchedKvPages(site) - WindowPages(site)) \div WindowPages(site) \in Nat
      BY <2>2, <2>4, Quotient
    <3> QED BY <2>3, <3>1 DEF AdmitCap
  <2>6. server' \in [st : States, code : Nat, pages : Nat, cap : Nat]
    BY <1>5, <2>4, <2>5 DEF Planned, States
  <2>7. server'.pages = SchedKvPages(site) BY <1>5 DEF Planned
  <2>8. Planable(site)' = Planable(site) BY <1>1
  <2>9. SchedKvPages(site)' = SchedKvPages(site) BY <1>1
  <2> QED BY <1>1, <2>1, <2>3, <2>6, <2>7, <2>8, <2>9 DEF Planned
<1> QED BY <1>2, <1>3, <1>4, <1>5 DEF Start

LEMMA PlannedStep ==
  ASSUME Planned, [Next]_vars
  PROVE  Planned'
<1>1. CASE Start BY <1>1, StartPlans
<1>2. CASE Spawned
  <2>1. site' = site BY <1>2 DEF Spawned
  <2>2. server' = Exit(2) \/ server' = [server EXCEPT !.st = "loaded"] BY <1>2 DEF Spawned
  <2> QED BY <2>1, <2>2, ExitKeeps, MoveKeeps DEF States
<1>3. CASE Listen
  <2>1. site' = site BY <1>3 DEF Listen
  <2>2. \/ server' = Exit(2) \/ server' = Exit(4)
        \/ server' = [server EXCEPT !.st = "listening"]
    BY <1>3 DEF Listen
  <2> QED BY <2>1, <2>2, ExitKeeps, MoveKeeps DEF States
<1>4. CASE Signal
  <2>1. site' = site /\ server' = [server EXCEPT !.st = "stopping"] BY <1>4 DEF Signal
  <2> QED BY <2>1, MoveKeeps DEF States
<1>5. CASE Down
  <2>1. site' = site /\ server' = Exit(0) BY <1>5 DEF Down
  <2> QED BY <2>1, ExitKeeps
<1>6. CASE UNCHANGED <<site, server>> BY <1>6 DEF Planned
<1>7. LoopCommand \/ LoopStep \/ BatchFails \/ SendFrame => UNCHANGED <<site, server>>
  BY DEF LoopCommand, LoopStep, BatchFails, SendFrame
<1>8. ASSUME NEW c \in Client
      PROVE  /\ \A body \in Bodies : Post(c, body) => UNCHANGED <<site, server>>
             /\ Leave(c) \/ TakeLock(c) \/ Turn(c) \/ Decode(c) \/ Receive(c) \/ EndOfFrames(c)
                  => UNCHANGED <<site, server>>
  BY DEF Post, Leave, TakeLock, Turn, Decode, Receive, EndOfFrames
<1>9. ASSUME NEW c \in Client, RunEnds(c) \/ \E body \in Bodies : Prompt(c, body)
      PROVE  Planned'
  <2>1. site' = site BY <1>9 DEF RunEnds, Prompt
  <2>2. \/ server' = Exit(0) \/ server' = Exit(2) \/ server' = Exit(101)
        \/ server' = [server EXCEPT !.st = "running"]
    BY <1>9 DEF RunEnds, RunCode, Prompt
  <2> QED BY <2>1, <2>2, ExitKeeps, MoveKeeps DEF States
<1> QED BY <1>1, <1>2, <1>3, <1>4, <1>5, <1>6, <1>7, <1>8, <1>9 DEF Next, vars

\* The pool a server starts with, its engine's own and the weights fit in 90 % of
\* the device, and the anchor has its window (sched_kv_pages, serve.rs).
THEOREM PoolPlanFits == Spec => []FitsDevice
<1>1. Init => Planned
  BY DEF Init, Planned, States
<1>2. Planned /\ [Next]_vars => Planned' BY PlannedStep
<1>3. Planned => FitsDevice
  BY PlanFits DEF Planned, FitsDevice
<1> QED BY <1>1, <1>2, <1>3, PTL DEF Spec

-----------------------------------------------------------------------------
(* The completions.  What a client is told is a history of frames: a token  *)
(* for each one generated, then how the generation ends.                    *)


Ends == {"none", "eos", "stop", "length", "error", "panic", "poison", "lost", "closed"}
EndFrames == {"none", "stop", "length", "error"}
Frames == {"token", "stop", "length", "error", "DONE"}

JobType == [body : Bodies, st : {"queued", "submitted", "running", "over"}, made : Nat,
            end : Ends, max : Nat]

SendType == [to : Client, frame : Frames]
LoopType == [st : {"none", "init", "running", "stopped", "died"},
             cmds : Seq(Client \union {"shutdown"}), waiting : Seq(Client),
             running : SUBSET Client, batch : SUBSET Client, sending : Seq(SendType)]
LockType == [holder : Client \union {"nobody"}, poisoned : BOOLEAN]
AnswerType == [st : {"none", "open", "closed", "cut"}, status : Nat, got : Nat,
               end : EndFrames, done : BOOLEAN]

Typed ==
  /\ loop \in LoopType /\ lock \in LockType
  /\ job \in [Client -> JobType \union {NoJob}]
  /\ answer \in [Client -> AnswerType]
  /\ chan \in [Client -> Seq(Frames)]
  /\ away = {c \in Client : answer[c].st = "cut"}

InCmds(c) == \E i \in 1..Len(loop.cmds) : loop.cmds[i] = c
InWaiting(c) == \E i \in 1..Len(loop.waiting) : loop.waiting[i] = c
InSending(c) == \E i \in 1..Len(loop.sending) : loop.sending[i].to = c

\* Each request is in one place of the loop, once, and an end that is decided is
\* on its way.
CmdsOnce ==
  \A i, j \in 1..Len(loop.cmds) : loop.cmds[i] = loop.cmds[j] /\ loop.cmds[i] \in Client => i = j
WaitingOnce == \A i, j \in 1..Len(loop.waiting) : loop.waiting[i] = loop.waiting[j] => i = j
SendingOnce == \A i, j \in 1..Len(loop.sending) : loop.sending[i].to = loop.sending[j].to => i = j
SendingOK ==
  \A i \in 1..Len(loop.sending) :
    LET s == loop.sending[i]
    IN  IF s.frame = "token" THEN Len(loop.sending) = 1 /\ job[s.to].end = "none"
        ELSE job[s.to].end \in {"eos", "stop", "length", "error"}
             /\ s.frame = FinishOf(job[s.to].end)

LoopOK == CmdsOnce /\ WaitingOnce /\ SendingOnce /\ SendingOK

PlaceOK(c) ==
  /\ InCmds(c) \/ InWaiting(c) \/ c \in loop.running \/ InSending(c) => job[c].st = "submitted"
  /\ InCmds(c) => ~InWaiting(c) /\ ~InSending(c) /\ c \notin loop.running
  /\ InWaiting(c) => ~InSending(c) /\ c \notin loop.running
  /\ c \in loop.batch => ~InSending(c) /\ c \in loop.running
  /\ job[c].st = "submitted" /\ job[c].end # "none" => InSending(c)

\* Who may do what while the server is where it is.
ServerOK ==
  /\ server.st \in {"starting", "spawning", "loaded"} =>
       \A c \in Client : job[c] = NoJob /\ answer[c].st = "none"
  /\ server.st = "listening" => ~site.cli
  /\ server.st = "running" => site.cli
  /\ (\E i \in 1..Len(loop.cmds) : loop.cmds[i] = "shutdown")
       => server.st \in {"stopping", "down"} /\ ~site.cli
  /\ server.st \in {"stopping", "down"} /\ ~site.cli => \A c \in Client : answer[c].st # "open"
  /\ lock.holder # "nobody" => job[lock.holder].st = "running"

\* A job runs on its path, within the context, and ends for a reason that path has.
JobPath(c) ==
  /\ job[c].st \in {"queued", "running"} => ~site.sched /\ job[c].end = "none"
  /\ job[c].st = "submitted" => site.sched
  /\ job[c].st = "over" =>
       \/ job[c].end \in {"eos", "stop", "length", "error", "closed"}
       \/ IF site.sched THEN job[c].end = "lost" ELSE job[c].end \in {"panic", "poison"}
JobFits(c) ==
  job[c].st # "none" => /\ job[c].made <= job[c].max
                        /\ ~site.cli => job[c].body.prompt + job[c].max <= MaxLen(site)
                        /\ site.cli => job[c].body.stream
JobSeen(c) ==
  /\ answer[c].st = "none" => job[c] = NoJob /\ chan[c] = <<>>
  /\ answer[c].st = "closed" => job[c].st \in {"none", "over"}
  /\ answer[c].st = "open" => job[c].st # "none"
  /\ job[c].end = "closed" => answer[c].st = "cut"
  /\ job[c].end \in {"panic", "poison"} => lock.poisoned
  /\ job[c].end = "lost" /\ answer[c].st \in {"open", "closed"} => loop.st = "died"
  /\ ~site.sched => chan[c] = <<>> \/ job[c].body.stream
  /\ site.sched => Len(chan[c]) <= FrameCap

JobOK(c) == JobPath(c) /\ JobFits(c) /\ JobSeen(c)

\* The frames after the tokens.
Ending(c) ==
  LET j == job[c]
  IN  IF j.st # "over" \/ site.cli \/ j.end \in {"lost", "panic", "poison", "closed"} THEN <<>>
      ELSE IF site.sched THEN <<FinishOf(j.end)>>
      ELSE IF j.body.stream THEN <<FinishOf(j.end), "DONE">> ELSE <<>>

\* The tokens told so far: all that were made, but the one the loop is sending.
Pending(c) == loop.sending # <<>> /\ loop.sending[1].to = c /\ loop.sending[1].frame = "token"
TokensSent(c) ==
  IF site.sched THEN IF Pending(c) THEN job[c].made - 1 ELSE job[c].made
  ELSE IF job[c].body.stream THEN job[c].made ELSE 0

FramesHeard(a) == a.got + (IF a.end = "none" THEN 0 ELSE 1) + (IF a.done THEN 1 ELSE 0)

\* A client that listens has heard the first frames of its history, and the
\* channel holds the others.
HeardOK(c) ==
  answer[c].st = "open" =>
    LET a == answer[c]
        q == chan[c]
        e == Ending(c)
    IN  /\ FramesHeard(a) + Len(q) = TokensSent(c) + Len(e)
        /\ \A i \in 1..Len(q) :
             q[i] = IF FramesHeard(a) + i <= TokensSent(c) THEN "token" ELSE e[FramesHeard(a) + i - TokensSent(c)]
        /\ a.got <= TokensSent(c)
        /\ a.end # "none" => e # <<>> /\ a.got = TokensSent(c) /\ a.end = e[1] /\ job[c].body.stream
        /\ a.done => a.end # "none"

ClosedOK(c) == answer[c].st = "closed" /\ job[c].st # "none" => OwnEnd(c)

Honest ==
  /\ Planned /\ Typed /\ LoopOK /\ ServerOK
  /\ Cardinality(loop.running) <= server.cap
  /\ \A c \in Client : PlaceOK(c) /\ JobOK(c) /\ HeardOK(c) /\ ClosedOK(c)

\* What a client has heard stays right when nothing it is told by changes.
LEMMA HeardSame ==
  ASSUME NEW c \in Client, HeardOK(c), answer'[c] = answer[c], chan'[c] = chan[c],
         job'[c].body.stream = job[c].body.stream,
         TokensSent(c)' = TokensSent(c), Ending(c)' = Ending(c)
  PROVE  HeardOK(c)'
<1>1. FramesHeard(answer[c])' = FramesHeard(answer[c]) BY DEF FramesHeard
<1> QED BY <1>1 DEF HeardOK

\* What happens to the others leaves a client's completion what it is.
LEMMA ClientKept ==
  ASSUME NEW d \in Client, JobOK(d), HeardOK(d), ClosedOK(d),
         site' = site, job'[d] = job[d], chan'[d] = chan[d], answer'[d] = answer[d],
         Pending(d)' = Pending(d), lock.poisoned => lock'.poisoned,
         loop.st = "died" => loop'.st = "died"
  PROVE  JobOK(d)' /\ HeardOK(d)' /\ ClosedOK(d)'
<1>1. JobOK(d)' BY DEF JobOK, JobPath, JobFits, JobSeen
<1>2. HeardOK(d)'
  <2>1. Ending(d)' = Ending(d) BY DEF Ending
  <2>2. TokensSent(d)' = TokensSent(d) BY DEF TokensSent
  <2>3. FramesHeard(answer[d])' = FramesHeard(answer[d]) BY DEF FramesHeard
  <2> QED BY <2>1, <2>2, <2>3 DEF HeardOK
<1>3. ClosedOK(d)' BY DEF ClosedOK, OwnEnd, EngineLost
<1> QED BY <1>1, <1>2, <1>3

\* A client that has not sent its request.
LEMMA Idle ==
  ASSUME NEW d \in Client, job'[d] = NoJob, chan'[d] = <<>>,
         answer'[d].st \in {"none", "closed"}, FrameCap \in Nat
  PROVE  JobOK(d)' /\ HeardOK(d)' /\ ClosedOK(d)'
  BY DEF JobOK, JobPath, JobFits, JobSeen, HeardOK, ClosedOK, NoJob

\* The tables of the loop are what they were.
LEMMA TablesKept ==
  ASSUME LoopOK, \A c \in Client : PlaceOK(c), job' = job,
         loop'.cmds = loop.cmds, loop'.waiting = loop.waiting, loop'.running = loop.running,
         loop'.batch = loop.batch, loop'.sending = loop.sending
  PROVE  LoopOK' /\ (\A c \in Client : PlaceOK(c)') /\ \A c \in Client : Pending(c)' = Pending(c)
<1>1. LoopOK' BY DEF LoopOK, CmdsOnce, WaitingOnce, SendingOnce, SendingOK
<1>2. ASSUME NEW c \in Client PROVE PlaceOK(c)'
  BY DEF PlaceOK, InCmds, InWaiting, InSending
<1> QED BY <1>1, <1>2 DEF Pending

\* A step of run_sync before there are clients.
LEMMA BootKeeps ==
  ASSUME Honest, Planned', site' = site, server.st \in {"starting", "spawning", "loaded"},
         server'.st \in {"spawning", "loaded", "listening", "down"},
         server'.st = "listening" => ~site.cli,
         UNCHANGED completions, loop' = [loop EXCEPT !.st = loop'.st],
         loop'.st \in {"none", "init", "running", "stopped", "died"}
  PROVE  Honest'
<1>1. /\ \A c \in Client : job[c] = NoJob /\ answer[c].st = "none" /\ chan[c] = <<>>
      /\ FrameCap \in Nat
  BY ServerAssumption DEF Honest, ServerOK, JobOK, JobPath, JobFits, JobSeen
<1>2. /\ loop' \in LoopType /\ loop'.cmds = loop.cmds /\ loop'.waiting = loop.waiting
      /\ loop'.running = loop.running /\ loop'.batch = loop.batch /\ loop'.sending = loop.sending
  BY DEF Honest, Typed, LoopType
<1>3. Typed' BY <1>2 DEF Honest, Typed, completions
<1>4. LoopOK' /\ \A c \in Client : PlaceOK(c)'
  BY <1>2, TablesKept DEF Honest, completions
<1>5. ServerOK' BY <1>1, <1>2 DEF Honest, ServerOK, completions, NoJob
<1>6. Cardinality(loop'.running) <= server'.cap
  <2>1. loop.running = {}
    BY <1>1 DEF Honest, Typed, LoopType, PlaceOK, NoJob
  <2> QED BY <2>1, <1>2, FS_EmptySet DEF Planned
<1>7. \A c \in Client : JobOK(c)' /\ HeardOK(c)' /\ ClosedOK(c)'
  BY <1>1, Idle DEF completions
<1> QED BY <1>3, <1>4, <1>5, <1>6, <1>7 DEF Honest

LEMMA BootHonest ==
  ASSUME Honest, Planned', Start \/ Spawned \/ Listen
  PROVE  Honest'
<1>1. loop \in LoopType /\ server \in [st : States, code : Nat, pages : Nat, cap : Nat]
  BY DEF Honest, Typed, Planned
<1>2. CASE Start
  <2>1. /\ site' = site /\ server.st = "starting" /\ UNCHANGED completions
        /\ loop' = [loop EXCEPT !.st = IF server'.st = "spawning" THEN "init" ELSE @]
    BY <1>2 DEF Start
  <2>2. server'.st \in {"spawning", "loaded", "down"}
    BY <1>1, <1>2 DEF Start, Exit
  <2>3. loop'.st \in {"none", "init", "running", "stopped", "died"}
        /\ loop' = [loop EXCEPT !.st = loop'.st]
    BY <1>1, <2>1 DEF LoopType
  <2> QED BY <2>1, <2>2, <2>3, BootKeeps
<1>3. CASE Spawned
  <2>1. /\ site' = site /\ server.st = "spawning" /\ UNCHANGED completions
        /\ server'.st \in {"loaded", "down"}
    BY <1>1, <1>3 DEF Spawned, Exit
  <2>2. loop'.st \in {"none", "init", "running", "stopped", "died"}
        /\ loop' = [loop EXCEPT !.st = loop'.st]
    BY <1>1, <1>3 DEF Spawned, LoopType
  <2> QED BY <2>1, <2>2, BootKeeps
<1>4. CASE Listen
  <2>1. /\ site' = site /\ server.st = "loaded" /\ ~site.cli /\ UNCHANGED completions
        /\ server'.st \in {"listening", "down"}
    BY <1>1, <1>4 DEF Listen, Exit
  <2>2. loop'.st \in {"none", "init", "running", "stopped", "died"}
        /\ loop' = [loop EXCEPT !.st = loop'.st]
    BY <1>1, <1>4 DEF Listen, LoopType
  <2> QED BY <2>1, <2>2, BootKeeps
<1> QED BY <1>2, <1>3, <1>4

\* A step of the process that touches no client.
LEMMA ProcessKeeps ==
  ASSUME Honest, Planned', site' = site, UNCHANGED <<loop, completions>>,
         server'.cap = server.cap, server'.st = "down",
         server.st \in {"stopping", "down"} \/ site.cli
  PROVE  Honest'
<1>1. Typed' BY DEF Honest, Typed, completions
<1>2. LoopOK' /\ (\A c \in Client : PlaceOK(c)') /\ \A c \in Client : Pending(c)' = Pending(c)
  BY TablesKept DEF Honest, completions
<1>3. ServerOK' BY DEF Honest, ServerOK, completions
<1>4. \A c \in Client : JobOK(c)' /\ HeardOK(c)' /\ ClosedOK(c)'
  BY <1>2, ClientKept DEF Honest, completions
<1> QED BY <1>1, <1>2, <1>3, <1>4 DEF Honest

LEMMA DownHonest ==
  ASSUME Honest, Planned', Down \/ \E c \in Client : RunEnds(c)
  PROVE  Honest'
<1>1. server \in [st : States, code : Nat, pages : Nat, cap : Nat] BY DEF Honest, Planned
<1>2. /\ site' = site /\ UNCHANGED <<loop, completions>>
      /\ server'.cap = server.cap /\ server'.st = "down"
      /\ server.st = "stopping" \/ site.cli
  BY <1>1 DEF Down, RunEnds, Exit, Honest, ServerOK
<1> QED BY <1>2, ProcessKeeps

\* A client that is gone hears nothing, and nothing is said of what it heard.
LEMMA GoneOK ==
  ASSUME NEW d \in Client, JobOK(d), site' = site, job'[d] = job[d], chan'[d] = <<>>,
         answer'[d].st = "cut", lock.poisoned => lock'.poisoned, FrameCap \in Nat,
         answer[d].st # "none"
  PROVE  JobOK(d)' /\ HeardOK(d)' /\ ClosedOK(d)'
  BY DEF JobOK, JobPath, JobFits, JobSeen, HeardOK, ClosedOK

LEMMA SignalHonest ==
  ASSUME Honest, Planned', Signal
  PROVE  Honest'
<1>1. /\ server.st = "listening" /\ site' = site /\ job' = job /\ lock' = lock
      /\ server' = [server EXCEPT !.st = "stopping"]
      /\ loop' = [loop EXCEPT !.cmds = Append(@, "shutdown")]
      /\ chan' = [c \in Client |-> <<>>]
      /\ answer' = [c \in Client |-> IF answer[c].st = "open" THEN [answer[c] EXCEPT !.st = "cut"]
                                     ELSE answer[c]]
      /\ away' = {c \in Client : answer[c].st = "open"} \union away
  BY DEF Signal
<1>2. /\ loop \in LoopType /\ answer \in [Client -> AnswerType] /\ FrameCap \in Nat
      /\ "shutdown" \notin Client
      /\ server \in [st : States, code : Nat, pages : Nat, cap : Nat]
  BY ServerAssumption DEF Honest, Typed, Planned
<1>3. Typed'
  <2>1. loop' \in LoopType BY <1>1, <1>2, AppendProperties DEF LoopType
  <2>2. answer' \in [Client -> AnswerType] BY <1>1, <1>2, ZenonT(30) DEF AnswerType
  <2>3. away' = {c \in Client : answer'[c].st = "cut"}
    BY <1>1, <1>2 DEF Honest, Typed, AnswerType
  <2>4. chan' \in [Client -> Seq(Frames)] BY <1>1, EmptySeq
  <2> QED BY <1>1, <2>1, <2>2, <2>3, <2>4 DEF Honest, Typed
<1>4. /\ loop'.waiting = loop.waiting /\ loop'.running = loop.running
      /\ loop'.batch = loop.batch /\ loop'.sending = loop.sending
      /\ loop'.st = loop.st
      /\ Len(loop'.cmds) = Len(loop.cmds) + 1 /\ Len(loop.cmds) \in Nat
      /\ loop'.cmds[Len(loop.cmds) + 1] = "shutdown"
      /\ \A i \in 1..Len(loop.cmds) : loop'.cmds[i] = loop.cmds[i]
  <2> DEFINE s == loop.cmds
  <2>1. s \in Seq(Client \union {"shutdown"}) BY <1>2 DEF LoopType
  <2>2. loop'.cmds = Append(s, "shutdown") BY <1>1, <1>2 DEF LoopType
  <2>3. /\ loop'.waiting = loop.waiting /\ loop'.running = loop.running
        /\ loop'.batch = loop.batch /\ loop'.sending = loop.sending
        /\ loop'.st = loop.st
    BY <1>1, <1>2 DEF LoopType
  <2> HIDE DEF s
  <2> QED BY <2>1, <2>2, <2>3, AppendProperties DEF s
<1>5. LoopOK'
  <2>1. CmdsOnce' BY <1>2, <1>4, SMTT(30) DEF Honest, LoopOK, CmdsOnce
  <2>2. WaitingOnce' /\ SendingOnce' /\ SendingOK'
    BY <1>1, <1>4 DEF Honest, LoopOK, WaitingOnce, SendingOnce, SendingOK
  <2> QED BY <2>1, <2>2 DEF LoopOK
<1>6. ASSUME NEW c \in Client PROVE PlaceOK(c)'
  BY <1>1, <1>2, <1>4 DEF Honest, PlaceOK, InCmds, InWaiting, InSending
<1>7. ServerOK'
  BY <1>1, <1>2 DEF Honest, ServerOK, Planned, AnswerType
<1>8. Cardinality(loop'.running) <= server'.cap BY <1>1, <1>2, <1>4 DEF Honest
<1>9. ASSUME NEW d \in Client PROVE JobOK(d)' /\ HeardOK(d)' /\ ClosedOK(d)'
  <2>0. JobOK(d) /\ ClosedOK(d) /\ chan'[d] = <<>> BY <1>1 DEF Honest
  <2>1. CASE answer[d].st \in {"open", "cut"}
    <3>1. answer'[d].st = "cut" BY <1>1, <1>2, <2>1 DEF AnswerType
    <3> QED BY <1>1, <1>2, <2>0, <2>1, <3>1, GoneOK
  <2>2. CASE answer[d].st \in {"none", "closed"}
    <3>1. answer'[d] = answer[d] BY <1>1, <1>2, <2>2
    <3>2. JobOK(d)' BY <1>1, <1>2, <1>4, <2>0, <2>2, <3>1 DEF JobOK, JobPath, JobFits, JobSeen
    <3>3. HeardOK(d)' BY <2>2, <3>1 DEF HeardOK
    <3>4. ClosedOK(d)' BY <1>1, <1>4, <2>0, <3>1 DEF ClosedOK, OwnEnd, EngineLost
    <3> QED BY <3>2, <3>3, <3>4
  <2> QED BY <1>2, <2>1, <2>2 DEF AnswerType
<1> QED BY <1>3, <1>5, <1>6, <1>7, <1>8, <1>9 DEF Honest

LEMMA LeaveHonest ==
  ASSUME Honest, Planned', NEW c \in Client, Leave(c)
  PROVE  Honest'
<1>1. /\ answer[c].st = "open" /\ site' = site /\ job' = job /\ lock' = lock
      /\ server' = server /\ loop' = loop
      /\ chan' = [chan EXCEPT ![c] = <<>>] /\ answer' = [answer EXCEPT ![c].st = "cut"]
      /\ away' = away \union {c}
  BY DEF Leave
<1>2. /\ answer \in [Client -> AnswerType] /\ chan \in [Client -> Seq(Frames)]
      /\ FrameCap \in Nat
  BY ServerAssumption DEF Honest, Typed
<1>3. Typed'
  <2>1. answer' \in [Client -> AnswerType] BY <1>1, <1>2 DEF AnswerType
  <2>2. away' = {d \in Client : answer'[d].st = "cut"}
    BY <1>1, <1>2 DEF Honest, Typed, AnswerType
  <2>3. chan' \in [Client -> Seq(Frames)] BY <1>1, <1>2, EmptySeq
  <2> QED BY <1>1, <2>1, <2>2, <2>3 DEF Honest, Typed
<1>4. LoopOK' /\ (\A d \in Client : PlaceOK(d)') /\ \A d \in Client : Pending(d)' = Pending(d)
  BY <1>1, TablesKept DEF Honest
<1>5. ServerOK' BY <1>1, <1>2 DEF Honest, ServerOK, AnswerType
<1>6. ASSUME NEW d \in Client PROVE JobOK(d)' /\ HeardOK(d)' /\ ClosedOK(d)'
  <2>1. CASE d = c
    <3>1. answer'[d].st = "cut" /\ chan'[d] = <<>> BY <1>1, <1>2, <2>1 DEF AnswerType
    <3> QED BY <1>1, <1>2, <2>1, <3>1, GoneOK DEF Honest
  <2>2. CASE d # c
    <3>1. answer'[d] = answer[d] /\ chan'[d] = chan[d] BY <1>1, <1>2, <2>2
    <3> QED BY <1>1, <1>4, <3>1, ClientKept DEF Honest
  <2> QED BY <2>1, <2>2
<1> QED BY <1>1, <1>3, <1>4, <1>5, <1>6 DEF Honest

\* A body that is taken fits the context with the tokens it may get.
LEMMA TakenFits ==
  ASSUME NEW body \in Bodies, NEW max, NEW ctx, BadParam(body, max, ctx) = "none"
  PROVE  body.prompt \in Nat /\ ~(body.prompt + max > ctx)
<1>1. body.prompt \in Nat \union {-1} BY ServerAssumption DEF Option, Absent
<1>2. body.prompt # NoPrompt /\ ~Exceeds(body.prompt, max, ctx) BY DEF BadParam
<1> QED BY <1>1, <1>2 DEF NoPrompt, Absent, Exceeds

LEMMA TruncatedIsNat ==
  ASSUME NEW body \in Bodies
  PROVE  Truncated(body.max, Width) \in Nat
<1>1. body.max \in Nat /\ Width \in Nat \ {0} BY ServerAssumption
<1>2. \A n \in Nat, w \in Nat \ {0} : n % w \in Nat BY SMT
<1> QED BY <1>1, <1>2 DEF Truncated

\* A client whose request was let in.
LEMMA AcceptedOK ==
  ASSUME NEW c \in Client, Typed, Typed', JobOK(c), answer[c].st = "none", NEW body \in Bodies,
         NEW st \in {"queued", "submitted", "running"}, Accept(c, body, st),
         chan' = chan, site' = site, loop'.sending = loop.sending, ~Pending(c),
         st = "submitted" <=> site.sched,
         site.cli => body.stream,
         ~site.cli => /\ body.prompt \in Nat
                      /\ ~(body.prompt + Truncated(body.max, Width) > MaxLen(site)),
         MaxLen(site) \in Nat, FrameCap \in Nat
  PROVE  JobOK(c)' /\ HeardOK(c)' /\ ClosedOK(c)'
<1>1. /\ job'[c] = [body |-> body, st |-> st, made |-> 0, end |-> "none",
                    max |-> Truncated(body.max, Width)]
      /\ answer'[c].st = "open" /\ answer'[c].got = 0 /\ answer'[c].end = "none"
      /\ answer'[c].done = FALSE
      /\ chan'[c] = <<>>
  BY DEF Accept, Typed, JobOK, JobPath, JobFits, JobSeen, NoAnswer
<1>2. Truncated(body.max, Width) \in Nat BY TruncatedIsNat
<1>3. JobOK(c)'
  <2>1. ~site.cli => body.prompt + Truncated(body.max, Width) <= MaxLen(site)
    BY <1>2
  <2>2. MaxLen(site)' = MaxLen(site) OBVIOUS
  <2> QED BY <1>1, <1>2, <2>1, <2>2 DEF JobOK, JobPath, JobFits, JobSeen
<1>4. HeardOK(c)'
  <2>1. Pending(c)' = FALSE BY DEF Pending
  <2>2. Ending(c)' = <<>> /\ TokensSent(c)' = 0 BY <1>1, <2>1 DEF Ending, TokensSent
  <2> QED BY <1>1, <2>2 DEF HeardOK, FramesHeard
<1>5. ClosedOK(c)' BY <1>1 DEF ClosedOK
<1> QED BY <1>3, <1>4, <1>5

\* Only a submitted request has a frame on its way out of the loop.
LEMMA NotPending ==
  ASSUME Typed, NEW c \in Client, PlaceOK(c), job[c].st # "submitted"
  PROVE  ~Pending(c)
<1>1. ~InSending(c) BY DEF PlaceOK
<1>2. loop.sending \in Seq(SendType) BY DEF Typed, LoopType
<1>3. loop.sending # <<>> => 1 \in 1..Len(loop.sending) BY <1>2, EmptySeq
<1> QED BY <1>1, <1>3 DEF InSending, Pending

\* A job that is not the loop's changes: the tables still say what they said.
LEMMA OffLoop ==
  ASSUME Typed, LoopOK, \A d \in Client : PlaceOK(d), NEW c \in Client,
         job[c].st # "submitted", job'[c].st # "submitted",
         \A d \in Client \ {c} : job'[d] = job[d], loop' = loop
  PROVE  LoopOK' /\ (\A d \in Client : PlaceOK(d)') /\ \A d \in Client : Pending(d)' = Pending(d)
<1>1. ~InCmds(c) /\ ~InWaiting(c) /\ ~InSending(c) /\ c \notin loop.running /\ c \notin loop.batch
  BY DEF PlaceOK
<1>2. \A i \in 1..Len(loop.sending) : loop.sending[i].to \in Client \ {c}
  <2>1. loop.sending \in Seq(SendType) BY DEF Typed, LoopType
  <2>2. \A i \in 1..Len(loop.sending) : loop.sending[i] \in SendType BY <2>1, ElementOfSeq
  <2> QED BY <1>1, <2>2 DEF InSending, SendType
<1>3. LoopOK' BY <1>2 DEF LoopOK, CmdsOnce, WaitingOnce, SendingOnce, SendingOK
<1>4. ASSUME NEW d \in Client PROVE PlaceOK(d)'
  <2>1. CASE d = c BY <1>1, <2>1 DEF PlaceOK, InCmds, InWaiting, InSending
  <2>2. CASE d # c BY <2>2 DEF PlaceOK, InCmds, InWaiting, InSending
  <2> QED BY <2>1, <2>2
<1> QED BY <1>3, <1>4 DEF Pending

\* A request is appended to the queue of commands.
LEMMA SubmitTables ==
  ASSUME Typed, LoopOK, \A d \in Client : PlaceOK(d), NEW c \in Client, job[c].st = "none",
         job' = [job EXCEPT ![c] = job'[c]], job'[c].st = "submitted", job'[c].end = "none",
         loop' = [loop EXCEPT !.cmds = Append(@, c)]
  PROVE  /\ loop' \in LoopType /\ LoopOK' /\ (\A d \in Client : PlaceOK(d)')
         /\ \A d \in Client : Pending(d)' = Pending(d)
         /\ loop'.st = loop.st /\ loop'.running = loop.running
         /\ (\E i \in 1..Len(loop'.cmds) : loop'.cmds[i] = "shutdown")
              => \E i \in 1..Len(loop.cmds) : loop.cmds[i] = "shutdown"
<1> DEFINE s == loop.cmds
<1>0. loop \in LoopType /\ "shutdown" \notin Client BY ServerAssumption DEF Typed
<1>1. s \in Seq(Client \union {"shutdown"}) BY <1>0 DEF LoopType
<1>2. /\ loop'.cmds = Append(s, c) /\ loop'.waiting = loop.waiting
      /\ loop'.running = loop.running /\ loop'.batch = loop.batch
      /\ loop'.sending = loop.sending /\ loop'.st = loop.st
  BY <1>0 DEF LoopType
<1>3. /\ Len(Append(s, c)) = Len(s) + 1 /\ Len(s) \in Nat
      /\ Append(s, c)[Len(s) + 1] = c
      /\ \A i \in 1..Len(s) : Append(s, c)[i] = s[i]
      /\ Append(s, c) \in Seq(Client \union {"shutdown"})
  <2> HIDE DEF s
  <2> QED BY <1>1, AppendProperties
<1>4. loop' \in LoopType BY <1>0, <1>2, <1>3 DEF LoopType
<1>5. ~InCmds(c) /\ ~InWaiting(c) /\ ~InSending(c) /\ c \notin loop.running /\ c \notin loop.batch
  BY DEF PlaceOK
<1>6. \A i \in 1..Len(s) : s[i] # c BY <1>5 DEF InCmds
<1>7. \A d \in Client \ {c} : job'[d] = job[d] BY DEF Typed
<1>8. CmdsOnce' BY <1>2, <1>3, <1>6 DEF LoopOK, CmdsOnce
<1>9. WaitingOnce' /\ SendingOnce' BY <1>2 DEF LoopOK, WaitingOnce, SendingOnce
<1>10. SendingOK'
  <2>1. \A i \in 1..Len(loop.sending) : loop.sending[i].to \in Client \ {c}
    <3>1. \A i \in 1..Len(loop.sending) : loop.sending[i] \in SendType
      <4>1. loop.sending \in Seq(SendType) BY <1>0 DEF LoopType
      <4> QED BY <4>1, ElementOfSeq
    <3> QED BY <1>5, <3>1 DEF InSending, SendType
  <2> QED BY <1>2, <1>7, <2>1 DEF LoopOK, SendingOK
<1>11. ASSUME NEW d \in Client PROVE PlaceOK(d)'
  <2>1. InWaiting(d)' = InWaiting(d) /\ InSending(d)' = InSending(d)
    BY <1>2 DEF InWaiting, InSending
  <2>2. CASE d = c BY <1>2, <1>5, <2>1, <2>2 DEF PlaceOK
  <2>3. CASE d # c
    <3>1. InCmds(d)' = InCmds(d) BY <1>2, <1>3, <2>3 DEF InCmds
    <3> QED BY <1>2, <1>7, <2>1, <2>3, <3>1 DEF PlaceOK
  <2> QED BY <2>2, <2>3
<1>12. (\E i \in 1..Len(loop'.cmds) : loop'.cmds[i] = "shutdown")
         => \E i \in 1..Len(loop.cmds) : loop.cmds[i] = "shutdown"
  BY <1>0, <1>2, <1>3
<1> QED BY <1>2, <1>4, <1>8, <1>9, <1>10, <1>11, <1>12 DEF LoopOK, Pending

LEMMA ErrorStatusIsNat ==
  \A param : ErrorStatus(param) \in Nat
  BY DEF ErrorStatus

LEMMA PostHonest ==
  ASSUME Honest, Planned', NEW c \in Client, NEW body \in Bodies, Post(c, body)
  PROVE  Honest'
<1>1. /\ server.st = "listening" /\ answer[c].st = "none"
      /\ site' = site /\ server' = server /\ lock' = lock /\ chan' = chan /\ away' = away
  BY DEF Post
<1>2. /\ Typed /\ LoopOK /\ ServerOK /\ Planned /\ FrameCap \in Nat
      /\ site \in Sites /\ MaxLen(site) \in Nat /\ ~site.cli
      /\ \A d \in Client : PlaceOK(d) /\ JobOK(d) /\ HeardOK(d) /\ ClosedOK(d)
  BY <1>1, ServerAssumption, MaxLenIsNat DEF Honest, Planned, ServerOK
<1>3. job[c] = NoJob /\ chan[c] = <<>> BY <1>1, <1>2 DEF JobOK, JobPath, JobFits, JobSeen
<1>4. job \in [Client -> JobType \union {NoJob}] /\ answer \in [Client -> AnswerType]
  BY <1>2 DEF Typed
<1>5. CASE \E status \in Nat : Refuse(c, status)
  <2>1. PICK status \in Nat : Refuse(c, status) BY <1>5
  <2>2. /\ job' = job /\ loop' = loop
        /\ answer' = [answer EXCEPT ![c] = [NoAnswer EXCEPT !.st = "closed", !.status = status]]
    BY <2>1 DEF Refuse
  <2>3. answer' \in [Client -> AnswerType] /\ answer'[c].st = "closed"
    BY <1>4, <2>2 DEF NoAnswer, AnswerType, EndFrames
  <2>4. Typed'
    <3>1. away' = {d \in Client : answer'[d].st = "cut"}
      BY <1>1, <1>2, <1>4, <2>2, <2>3 DEF Typed
    <3> QED BY <1>1, <1>2, <2>2, <2>3, <3>1 DEF Typed
  <2>5. LoopOK' /\ (\A d \in Client : PlaceOK(d)') /\ \A d \in Client : Pending(d)' = Pending(d)
    BY <1>2, <2>2, TablesKept
  <2>6. ServerOK' BY <1>1, <1>2, <2>2 DEF ServerOK
  <2>7. ASSUME NEW d \in Client PROVE JobOK(d)' /\ HeardOK(d)' /\ ClosedOK(d)'
    <3>1. CASE d = c BY <1>1, <1>2, <1>3, <2>2, <2>3, <3>1, Idle
    <3>2. CASE d # c
      <4>1. answer'[d] = answer[d] BY <1>4, <2>2, <3>2
      <4> QED BY <1>1, <1>2, <2>2, <2>5, <4>1, ClientKept
    <3> QED BY <3>1, <3>2
  <2> QED BY <1>1, <2>2, <2>4, <2>5, <2>6, <2>7 DEF Honest
<1>6. CASE BadParam(body, Truncated(body.max, Width), MaxLen(site)) = "none"
           /\ \/ Accept(c, body, "queued") /\ ~site.sched /\ UNCHANGED loop
              \/ /\ Accept(c, body, "submitted") /\ site.sched /\ loop.st = "running"
                 /\ loop' = [loop EXCEPT !.cmds = Append(@, c)]
  <2>1. PICK st \in {"queued", "submitted"} : Accept(c, body, st) /\ (st = "submitted" <=> site.sched)
    BY <1>6
  <2>2. /\ job' = [job EXCEPT ![c] = [body |-> body, st |-> st, made |-> 0, end |-> "none",
                                      max |-> Truncated(body.max, Width)]]
        /\ answer' = [answer EXCEPT ![c] = [NoAnswer EXCEPT !.st = "open",
                                              !.status = IF body.stream THEN 200 ELSE 0]]
    BY <2>1 DEF Accept
  <2>3. job' \in [Client -> JobType \union {NoJob}] /\ job'[c].st = st /\ job'[c].end = "none"
    BY <1>4, <2>2, TruncatedIsNat DEF JobType, Ends
  <2>4. answer' \in [Client -> AnswerType] /\ answer'[c].st = "open"
    BY <1>4, <2>2, ZenonT(30) DEF NoAnswer, AnswerType, EndFrames
  <2>5. /\ loop' \in LoopType /\ LoopOK' /\ (\A d \in Client : PlaceOK(d)')
        /\ \A d \in Client : Pending(d)' = Pending(d)
        /\ loop'.st = loop.st /\ loop'.running = loop.running
        /\ (\E i \in 1..Len(loop'.cmds) : loop'.cmds[i] = "shutdown")
             => \E i \in 1..Len(loop.cmds) : loop.cmds[i] = "shutdown"
    <3>1. CASE site.sched
      <4>1. loop' = [loop EXCEPT !.cmds = Append(@, c)] BY <1>6, <3>1
      <4>2. job' = [job EXCEPT ![c] = job'[c]] BY <1>4, <2>2
      <4>3. job[c].st = "none" /\ job'[c].st = "submitted" /\ job'[c].end = "none"
        BY <1>3, <2>1, <2>3, <3>1 DEF NoJob
      <4>4. Typed /\ LoopOK /\ \A d \in Client : PlaceOK(d) BY <1>2
      <4> QED BY <4>1, <4>2, <4>3, <4>4, SubmitTables
    <3>2. CASE ~site.sched
      <4>1. loop' = loop BY <1>6, <3>2
      <4>2. \A d \in Client \ {c} : job'[d] = job[d] BY <1>4, <2>2
      <4>3. job[c].st # "submitted" /\ job'[c].st # "submitted"
        BY <1>3, <2>1, <2>3, <3>2 DEF NoJob
      <4>4. Typed /\ LoopOK /\ \A d \in Client : PlaceOK(d) BY <1>2
      <4> QED BY <4>1, <4>2, <4>3, <4>4, OffLoop DEF Typed
    <3> QED BY <3>1, <3>2
  <2>6. Typed'
    <3>1. away' = {d \in Client : answer'[d].st = "cut"}
      BY <1>1, <1>2, <1>4, <2>2, <2>4 DEF Typed
    <3> QED BY <1>1, <1>2, <2>3, <2>4, <2>5, <3>1 DEF Typed
  <2>7. ServerOK'
    <3>1. lock.holder # c BY <1>2, <1>3, ServerAssumption DEF ServerOK, NoJob
    <3>2. lock.holder # "nobody" => job'[lock.holder] = job[lock.holder]
      BY <1>2, <1>4, <2>2, <3>1 DEF Typed, LockType
    <3> QED BY <1>1, <1>2, <2>5, <3>2 DEF ServerOK
  <2>8. ASSUME NEW d \in Client PROVE JobOK(d)' /\ HeardOK(d)' /\ ClosedOK(d)'
    <3>1. CASE d = c
      <4>1. ~Pending(c)
        <5>1. job[c].st # "submitted" BY <1>3 DEF NoJob
        <5> QED BY <1>2, <5>1, NotPending
      <4>2. loop'.sending = loop.sending BY <1>2, <1>6 DEF Typed, LoopType
      <4>3. body.prompt \in Nat /\ ~(body.prompt + Truncated(body.max, Width) > MaxLen(site))
        BY <1>6, TakenFits
      <4> QED BY <1>1, <1>2, <2>1, <2>6, <3>1, <4>1, <4>2, <4>3, AcceptedOK
    <3>2. CASE d # c
      <4>1. answer'[d] = answer[d] /\ job'[d] = job[d] BY <1>4, <2>2, <3>2
      <4> QED BY <1>1, <1>2, <2>5, <4>1, ClientKept
    <3> QED BY <3>1, <3>2
  <2> QED BY <1>1, <2>5, <2>6, <2>7, <2>8 DEF Honest
<1>7. (\E status \in Nat : Refuse(c, status)) \/ ~(\E status \in Nat : Refuse(c, status)) OBVIOUS
<1> QED BY <1>5, <1>6, ErrorStatusIsNat DEF Post

-----------------------------------------------------------------------------
(* The serial path *)

\* A serial job becomes another, and the frames of its step are told.
LEMMA SerialStep ==
  ASSUME Honest, Planned', NEW c \in Client, NEW j \in JobType,
         job[c].st \in {"queued", "running"}, j.st \in {"running", "over"},
         job' = [job EXCEPT ![c] = j], j.body = job[c].body,
         UNCHANGED <<site, server, loop, answer, away>>,
         lock' \in LockType, lock.poisoned => lock'.poisoned,
         lock'.holder # "nobody" => j.st = "running" /\ lock'.holder = c,
         chan' \in [Client -> Seq(Frames)], \A d \in Client \ {c} : chan'[d] = chan[d],
         JobOK(c)' /\ HeardOK(c)' /\ ClosedOK(c)'
  PROVE  Honest'
<1>1. /\ Typed /\ LoopOK /\ ServerOK
      /\ \A d \in Client : PlaceOK(d) /\ JobOK(d) /\ HeardOK(d) /\ ClosedOK(d)
      /\ job \in [Client -> JobType \union {NoJob}]
  BY DEF Honest, Typed
<1>2. job'[c] = j /\ \A d \in Client \ {c} : job'[d] = job[d] BY <1>1
<1>3. Typed' BY <1>1 DEF Typed
<1>4. LoopOK' /\ (\A d \in Client : PlaceOK(d)') /\ \A d \in Client : Pending(d)' = Pending(d)
  BY <1>1, <1>2, OffLoop
<1>5. ServerOK'
  <2>1. server.st \notin {"starting", "spawning", "loaded"} BY <1>1 DEF ServerOK, NoJob
  <2> QED BY <1>1, <1>2, <2>1 DEF ServerOK
<1>6. ASSUME NEW d \in Client \ {c} PROVE JobOK(d)' /\ HeardOK(d)' /\ ClosedOK(d)'
  BY <1>1, <1>2, <1>4, ClientKept
<1> QED BY <1>3, <1>4, <1>5, <1>6 DEF Honest

LEMMA TakeLockHonest ==
  ASSUME Honest, Planned', NEW c \in Client, TakeLock(c)
  PROVE  Honest'
<1>1. /\ job[c].st = "queued" /\ lock.holder = "nobody"
      /\ UNCHANGED <<site, server, loop, chan, answer, away>>
      /\ IF lock.poisoned THEN job' = Over(c, "poison") /\ UNCHANGED lock
         ELSE /\ lock' = [lock EXCEPT !.holder = c]
              /\ job' = [job EXCEPT ![c].st = "running"]
  BY DEF TakeLock
<1>2. /\ Typed /\ JobOK(c) /\ HeardOK(c) /\ ClosedOK(c) /\ ~Pending(c) /\ lock \in LockType
      /\ job[c] \in JobType /\ job \in [Client -> JobType \union {NoJob}]
      /\ chan \in [Client -> Seq(Frames)] /\ answer[c].st \notin {"none", "closed"}
      /\ ~site.sched /\ job[c].end = "none"
  BY <1>1, NotPending DEF Honest, Typed, NoJob, JobOK, JobPath, JobFits, JobSeen
<1> DEFINE j == IF lock.poisoned THEN [job[c] EXCEPT !.st = "over", !.end = "poison"]
                ELSE [job[c] EXCEPT !.st = "running"]
<1>3. job' = [job EXCEPT ![c] = j] /\ job'[c] = j BY <1>1, <1>2 DEF Over
<1>4. /\ j \in JobType /\ j.st \in {"running", "over"} /\ j.body = job[c].body
      /\ j.made = job[c].made /\ j.max = job[c].max
      /\ j.st = "running" => j.end = job[c].end /\ ~lock.poisoned
      /\ j.st = "over" => j.end = "poison" /\ lock.poisoned
  BY <1>2 DEF JobType, Ends
<1>5. /\ lock' \in LockType
      /\ lock.poisoned => lock'.poisoned
      /\ lock'.holder # "nobody" => j.st = "running" /\ lock'.holder = c
  BY <1>1, <1>2, <1>4 DEF LockType
<1> HIDE DEF j
<1>6. JobOK(c)'
  <2>1. answer' = answer /\ chan' = chan /\ site' = site /\ loop' = loop BY <1>1
  <2>2. job'[c].st # "none" /\ job[c].st # "none" BY <1>1, <1>3, <1>4
  <2>3. JobPath(c)' BY <1>2, <1>3, <1>4, <2>1 DEF JobPath
  <2>4. JobFits(c)' BY <1>2, <1>3, <1>4, <2>1, <2>2 DEF JobOK, JobFits
  <2>5. job'[c].end \in {"none", "poison"} /\ (job'[c].end = "poison" => lock'.poisoned)
        /\ job'[c].body = job[c].body
    BY <1>2, <1>3, <1>4, <1>5
  <2>6. JobSeen(c)' BY <1>2, <2>1, <2>2, <2>5 DEF JobOK, JobSeen
  <2> QED BY <2>3, <2>4, <2>6 DEF JobOK
<1>7. HeardOK(c)'
  <2>1. Ending(c)' = Ending(c) BY <1>1, <1>3, <1>4 DEF Ending
  <2>2. TokensSent(c)' = TokensSent(c) BY <1>1, <1>3, <1>4 DEF TokensSent, Pending
  <2> QED BY <1>1, <1>2, <1>3, <1>4, <2>1, <2>2 DEF HeardOK, FramesHeard
<1>8. ClosedOK(c)' BY <1>1, <1>2 DEF ClosedOK, JobOK, JobPath, JobFits, JobSeen
<1>9. job[c].st \in {"queued", "running"} /\ chan' = chan BY <1>1
<1>10. UNCHANGED <<site, server, loop, answer, away>> BY <1>1
<1>11. job' = [job EXCEPT ![c] = j] BY <1>3
<1>12. chan' \in [Client -> Seq(Frames)] /\ \A d \in Client \ {c} : chan'[d] = chan[d]
  BY <1>2, <1>9
<1> QED BY <1>4, <1>5, <1>6, <1>7, <1>8, <1>9, <1>10, <1>11, <1>12, SerialStep

\* While no end is decided the channel holds tokens only, and an end may follow.
LEMMA EndTold ==
  ASSUME NEW c \in Client, Typed, HeardOK(c), answer[c].st = "open", answer' = answer,
         Ending(c) = <<>>, NEW e \in Seq(Frames), Ending(c)' = e,
         TokensSent(c) \in Nat, TokensSent(c)' = TokensSent(c), chan'[c] = chan[c] \o e
  PROVE  HeardOK(c)'
<1> DEFINE q == chan[c]
           n == TokensSent(c)
           got == answer[c].got
<1>1. q \in Seq(Frames) /\ got \in Nat /\ answer[c].done \in BOOLEAN BY DEF Typed, AnswerType
<1>2. answer[c].end = "none" /\ answer[c].done = FALSE BY <1>1 DEF HeardOK
<1>3. FramesHeard(answer[c]) = got BY <1>1, <1>2 DEF FramesHeard
<1>4. got + Len(q) = n /\ got <= n BY <1>3, EmptySeq DEF HeardOK
<1>5. \A i \in 1..Len(q) : q[i] = "token" BY <1>1, <1>3, <1>4 DEF HeardOK
<1>6. /\ Len(q) \in Nat /\ Len(e) \in Nat /\ Len(q \o e) = Len(q) + Len(e)
      /\ \A i \in 1..(Len(q) + Len(e)) :
           (q \o e)[i] = IF i <= Len(q) THEN q[i] ELSE e[i - Len(q)]
  <2> HIDE DEF q
  <2> QED BY <1>1, ConcatProperties
<1> HIDE DEF q, n, got
<1>7. \A i \in 1..Len(q \o e) : (q \o e)[i] = IF got + i <= n THEN "token" ELSE e[got + i - n]
  <2> TAKE i \in 1..Len(q \o e)
  <2>1. (got + i <= n <=> i <= Len(q)) /\ got + i - n = i - Len(q) BY <1>1, <1>4, <1>6
  <2> QED BY <1>5, <1>6, <2>1
<1>8. FramesHeard(answer[c])' = got /\ TokensSent(c)' = n /\ chan'[c] = q \o e
  BY <1>3 DEF n, q, FramesHeard
<1>9. got + Len(q \o e) = n + Len(e) BY <1>1, <1>4, <1>6
<1> QED BY <1>2, <1>4, <1>7, <1>8, <1>9 DEF HeardOK, got

LEMMA TokenTold ==
  ASSUME NEW c \in Client, Typed, HeardOK(c), answer[c].st = "open", answer' = answer,
         Ending(c) = <<>>, Ending(c)' = <<>>,
         TokensSent(c) \in Nat, TokensSent(c)' = TokensSent(c) + 1,
         chan'[c] = Append(chan[c], "token")
  PROVE  HeardOK(c)'
<1> DEFINE q == chan[c]
           n == TokensSent(c)
           got == answer[c].got
<1>1. q \in Seq(Frames) /\ got \in Nat /\ answer[c].done \in BOOLEAN BY DEF Typed, AnswerType
<1>2. answer[c].end = "none" /\ answer[c].done = FALSE BY <1>1 DEF HeardOK
<1>3. FramesHeard(answer[c]) = got BY <1>1, <1>2 DEF FramesHeard
<1>4. got + Len(q) = n /\ got <= n BY <1>3, EmptySeq DEF HeardOK
<1>5. \A i \in 1..Len(q) : q[i] = "token" BY <1>1, <1>3, <1>4 DEF HeardOK
<1>6. /\ Len(q) \in Nat /\ Len(Append(q, "token")) = Len(q) + 1
      /\ \A i \in 1..(Len(q) + 1) : Append(q, "token")[i] = "token"
  <2> HIDE DEF q
  <2>1. "token" \in Frames BY DEF Frames
  <2> QED BY <1>1, <1>5, <2>1, AppendProperties
<1> HIDE DEF q, n, got
<1>7. FramesHeard(answer[c])' = got /\ TokensSent(c)' = n + 1 /\ chan'[c] = Append(q, "token")
  BY <1>3 DEF n, q, FramesHeard
<1>8. got + Len(Append(q, "token")) = n + 1 + Len(<<>>) /\ got <= n + 1
  BY <1>1, <1>4, <1>6, EmptySeq
<1>9. \A i \in 1..Len(Append(q, "token")) : got + i <= n + 1
  BY <1>1, <1>4, <1>6
<1> QED BY <1>2, <1>6, <1>7, <1>8, <1>9 DEF HeardOK, got

\* The job of the task that holds the mutex.
LEMMA HolderFacts ==
  ASSUME Honest, NEW c \in Client, lock.holder = c
  PROVE  /\ job[c].st = "running" /\ job[c] \in JobType /\ job[c].end = "none"
         /\ ~site.sched /\ answer[c].st \in {"open", "cut"}
         /\ c \in away <=> answer[c].st = "cut"
         /\ ~Pending(c) /\ Ending(c) = <<>>
         /\ job[c].made \in Nat /\ job[c].max \in Nat /\ job[c].body \in Bodies
         /\ job[c].body.stream \in BOOLEAN
         /\ TokensSent(c) = IF job[c].body.stream THEN job[c].made ELSE 0
<1>1. /\ Typed /\ ServerOK /\ PlaceOK(c) /\ JobPath(c) /\ JobSeen(c) /\ c # "nobody"
  BY ServerAssumption DEF Honest, JobOK
<1>2. job[c].st = "running" BY <1>1 DEF ServerOK
<1>3. job[c] \in JobType BY <1>1, <1>2 DEF Typed, NoJob
<1>4. job[c].end = "none" /\ ~site.sched BY <1>1, <1>2 DEF JobPath
<1>5. answer[c].st \in {"open", "cut"} BY <1>1, <1>2 DEF Typed, AnswerType, JobSeen, NoJob
<1>6. ~Pending(c) BY <1>1, <1>2, NotPending
<1>7. Ending(c) = <<>> BY <1>2 DEF Ending
<1>8. c \in away <=> answer[c].st = "cut" BY <1>1 DEF Typed
<1>9. job[c].body \in Bodies /\ job[c].body.stream \in BOOLEAN BY <1>3, ServerAssumption DEF JobType
<1> QED BY <1>2, <1>3, <1>4, <1>5, <1>6, <1>7, <1>8, <1>9 DEF JobType, TokensSent

\* What remains true of the job when its state, count or end moves on.
LEMMA JobMoves ==
  ASSUME NEW c \in Client, Typed, JobOK(c), JobPath(c)', job[c] \in JobType, job'[c] \in JobType,
         job'[c].body = job[c].body, job'[c].max = job[c].max,
         job'[c].made <= job'[c].max, site' = site, answer' = answer,
         answer[c].st = "closed" => job'[c].st = "over",
         answer[c].st # "none",
         job'[c].end = "closed" => answer[c].st = "cut",
         job'[c].end \in {"panic", "poison"} => lock'.poisoned,
         job'[c].end = "lost" /\ answer[c].st \in {"open", "closed"} => loop'.st = "died",
         ~site.sched => chan'[c] = <<>> \/ job[c].body.stream,
         site.sched => Len(chan'[c]) <= FrameCap
  PROVE  JobOK(c)'
<1>1. job[c].st # "none" /\ job'[c].st # "none" BY DEF JobType
<1>2. JobFits(c)' BY <1>1 DEF JobOK, JobFits
<1>3. JobSeen(c)' BY <1>1 DEF JobOK, JobSeen
<1> QED BY <1>2, <1>3 DEF JobOK

LEMMA SerialEndsHonest ==
  ASSUME Honest, Planned', NEW c \in Client, lock.holder = c,
         NEW end \in {"error", "length", "eos", "stop", "closed"}, SerialEnds(c, end),
         end = "closed" => c \in away,
         UNCHANGED <<site, server, loop, answer, away>>
  PROVE  Honest'
<1> DEFINE j == [job[c] EXCEPT !.st = "over", !.end = end]
           e == IF site.cli THEN <<>> ELSE <<FinishOf(end), "DONE">>
<1>1. /\ Typed /\ JobOK(c) /\ HeardOK(c) /\ lock \in LockType
      /\ job \in [Client -> JobType \union {NoJob}] /\ chan \in [Client -> Seq(Frames)]
  BY DEF Honest, Typed
<1>2. /\ job' = [job EXCEPT ![c] = j] /\ job'[c] = j
      /\ lock' = [lock EXCEPT !.holder = "nobody"]
      /\ chan' = IF job'[c].body.stream /\ c \notin away
                 THEN [chan EXCEPT ![c] = @ \o e] ELSE chan
  <2>1. job' = Over(c, end) /\ lock' = [lock EXCEPT !.holder = "nobody"] /\ Told(c, e)
    BY DEF SerialEnds
  <2>2. job' = [job EXCEPT ![c] = j] /\ job'[c] = j BY <1>1, <2>1 DEF Over
  <2>3. j.body = job[c].body BY HolderFacts DEF JobType
  <2> HIDE DEF e, j
  <2> QED BY <2>1, <2>2, <2>3 DEF Told
<1>3. /\ j \in JobType /\ j.st = "over" /\ j.end = end /\ j.body = job[c].body
      /\ j.max = job[c].max /\ j.made = job[c].made
  BY HolderFacts DEF JobType, Ends
<1>4. e \in Seq(Frames) /\ chan[c] \o e \in Seq(Frames)
  <2>1. e \in Seq(Frames)
    <3>1. FinishOf(end) \in Frames /\ "DONE" \in Frames BY DEF Frames, FinishOf
    <3>2. <<FinishOf(end), "DONE">> \in Seq(Frames) BY <3>1
    <3> QED BY <3>2, EmptySeq
  <2>2. chan[c] \in Seq(Frames) BY <1>1
  <2> HIDE DEF e
  <2> QED BY <2>1, <2>2, ConcatProperties
<1>5. /\ lock' \in LockType
      /\ lock.poisoned => lock'.poisoned
      /\ lock'.holder = "nobody"
  BY <1>1, <1>2 DEF LockType
<1> HIDE DEF j, e
<1>6. chan' \in [Client -> Seq(Frames)] /\ \A d \in Client \ {c} : chan'[d] = chan[d]
  BY <1>1, <1>2, <1>4
<1>7. JobOK(c)'
  <2>1. JobPath(c)' BY <1>2, <1>3, HolderFacts DEF JobPath
  <2>2. job[c].made <= job[c].max BY <1>1, HolderFacts DEF JobOK, JobFits
  <2>3. chan'[c] = <<>> \/ job[c].body.stream
    BY <1>1, <1>2, <1>3, HolderFacts DEF JobOK, JobSeen
  <2>4. end = "closed" => answer[c].st = "cut" BY HolderFacts
  <2>5. answer[c].st \notin {"closed", "none"} BY HolderFacts
  <2> QED BY <1>1, <1>2, <1>3, <2>1, <2>2, <2>3, <2>4, <2>5, HolderFacts, JobMoves
<1>8. HeardOK(c)'
  <2>1. CASE answer[c].st # "open" BY <2>1 DEF HeardOK
  <2>2. CASE answer[c].st = "open" /\ job[c].body.stream
    <3>1. end # "closed" /\ c \notin away BY <2>2, HolderFacts
    <3>2. chan'[c] = chan[c] \o e BY <1>1, <1>2, <1>3, <2>2, <3>1
    <3>3. Ending(c)' = e BY <1>2, <1>3, <2>2, <3>1, HolderFacts DEF Ending, e
    <3>4. TokensSent(c)' = TokensSent(c) /\ TokensSent(c) \in Nat
      BY <1>2, <1>3, HolderFacts DEF TokensSent
    <3> QED BY <1>1, <1>4, <2>2, <3>2, <3>3, <3>4, HolderFacts, EndTold
  <2>3. CASE answer[c].st = "open" /\ ~job[c].body.stream
    <3>1. chan'[c] = chan[c] /\ chan' = chan BY <1>2, <1>3, <2>3
    <3>2. ~site.cli BY <1>1, <2>3, HolderFacts DEF JobOK, JobFits, JobType
    <3>3. Ending(c)' = <<>> BY <1>2, <1>3, <2>3, <3>2, HolderFacts DEF Ending
    <3>4. TokensSent(c)' = TokensSent(c) BY <1>2, <1>3, HolderFacts DEF TokensSent
    <3>5. Ending(c) = <<>> BY HolderFacts
    <3>6. job'[c].body.stream = job[c].body.stream /\ answer'[c] = answer[c] BY <1>2, <1>3
    <3> QED BY <1>1, <3>1, <3>3, <3>4, <3>5, <3>6, HeardSame
  <2> QED BY <2>1, <2>2, <2>3, HolderFacts
<1>9. ClosedOK(c)' BY HolderFacts DEF ClosedOK
<1>10. job[c].st \in {"queued", "running"} BY HolderFacts
<1> QED BY <1>2, <1>3, <1>5, <1>6, <1>7, <1>8, <1>9, <1>10, SerialStep

LEMMA SerialTokenHonest ==
  ASSUME Honest, Planned', NEW c \in Client, lock.holder = c, job[c].made < job[c].max,
         job' = [job EXCEPT ![c].made = @ + 1], Told(c, <<"token">>),
         ~(job[c].body.stream /\ c \in away),
         UNCHANGED <<site, server, loop, lock, answer, away>>
  PROVE  Honest'
<1> DEFINE j == [job[c] EXCEPT !.made = @ + 1]
<1>1. /\ Typed /\ JobOK(c) /\ HeardOK(c) /\ lock \in LockType
      /\ job \in [Client -> JobType \union {NoJob}] /\ chan \in [Client -> Seq(Frames)]
  BY DEF Honest, Typed
<1>2. job' = [job EXCEPT ![c] = j] /\ job'[c] = j BY <1>1
<1>3. /\ j \in JobType /\ j.st = "running" /\ j.end = "none" /\ j.body = job[c].body
      /\ j.max = job[c].max /\ j.made = job[c].made + 1
  BY HolderFacts DEF JobType
<1> HIDE DEF j
<1>4. chan' = IF job[c].body.stream THEN [chan EXCEPT ![c] = Append(@, "token")] ELSE chan
  <2>1. chan[c] \o <<"token">> = Append(chan[c], "token")
    <3>1. chan[c] \in Seq(Frames) /\ "token" \in Frames BY <1>1 DEF Frames
    <3> QED BY <3>1, AppendIsConcat
  <2> QED BY <1>1, <2>1 DEF Told
<1>5. chan' \in [Client -> Seq(Frames)] /\ \A d \in Client \ {c} : chan'[d] = chan[d]
  <2>1. chan[c] \in Seq(Frames) /\ "token" \in Frames BY <1>1 DEF Frames
  <2>2. Append(chan[c], "token") \in Seq(Frames) BY <2>1, AppendProperties
  <2> QED BY <1>1, <1>4, <2>2
<1>6. JobOK(c)'
  <2>1. JobPath(c)' BY <1>2, <1>3, HolderFacts DEF JobPath
  <2>2. chan'[c] = <<>> \/ job[c].body.stream
    BY <1>1, <1>4, HolderFacts DEF JobOK, JobSeen
  <2>3. job'[c].made <= job'[c].max BY <1>2, <1>3, HolderFacts
  <2>4. answer[c].st \notin {"closed", "none"} BY HolderFacts
  <2> QED BY <1>1, <1>2, <1>3, <2>1, <2>2, <2>3, <2>4, HolderFacts, JobMoves
<1>7. HeardOK(c)'
  <2>1. CASE answer[c].st # "open" BY <2>1 DEF HeardOK
  <2>2. Ending(c)' = <<>> BY <1>2, <1>3 DEF Ending
  <2>3. CASE answer[c].st = "open" /\ job[c].body.stream
    <3>1. chan'[c] = Append(chan[c], "token") BY <1>1, <1>4, <2>3
    <3>2. TokensSent(c)' = TokensSent(c) + 1 /\ TokensSent(c) \in Nat
      BY <1>2, <1>3, <2>3, HolderFacts DEF TokensSent
    <3> QED BY <1>1, <2>2, <2>3, <3>1, <3>2, HolderFacts, TokenTold
  <2>4. CASE answer[c].st = "open" /\ ~job[c].body.stream
    <3>1. chan'[c] = chan[c] BY <1>4, <2>4
    <3>2. TokensSent(c)' = TokensSent(c) BY <1>2, <1>3, <2>4, HolderFacts DEF TokensSent
    <3>3. Ending(c) = <<>> BY HolderFacts
    <3>4. job'[c].body.stream = job[c].body.stream /\ answer'[c] = answer[c] BY <1>2, <1>3
    <3> QED BY <1>1, <2>2, <3>1, <3>2, <3>3, <3>4, HeardSame
  <2> QED BY <2>1, <2>3, <2>4, HolderFacts
<1>8. ClosedOK(c)' BY HolderFacts DEF ClosedOK
<1>9. job[c].st \in {"queued", "running"} BY HolderFacts
<1> QED BY <1>1, <1>2, <1>3, <1>5, <1>6, <1>7, <1>8, <1>9, SerialStep

LEMMA SerialPanicHonest ==
  ASSUME Honest, Planned', NEW c \in Client, lock.holder = c,
         job' = Over(c, "panic"), lock' = [holder |-> "nobody", poisoned |-> TRUE],
         UNCHANGED <<site, server, loop, chan, answer, away>>
  PROVE  Honest'
<1> DEFINE j == [job[c] EXCEPT !.st = "over", !.end = "panic"]
<1>1. /\ Typed /\ JobOK(c) /\ HeardOK(c)
      /\ job \in [Client -> JobType \union {NoJob}] /\ chan \in [Client -> Seq(Frames)]
  BY DEF Honest, Typed
<1>2. job' = [job EXCEPT ![c] = j] /\ job'[c] = j BY <1>1 DEF Over
<1>3. /\ j \in JobType /\ j.st = "over" /\ j.end = "panic" /\ j.body = job[c].body
      /\ j.max = job[c].max /\ j.made = job[c].made
  BY HolderFacts DEF JobType, Ends
<1> HIDE DEF j
<1>4. lock' \in LockType /\ lock'.poisoned /\ lock'.holder = "nobody" BY DEF LockType
<1>5. JobOK(c)'
  <2>1. JobPath(c)' BY <1>2, <1>3, HolderFacts DEF JobPath
  <2>2. chan'[c] = <<>> \/ job[c].body.stream BY <1>1, HolderFacts DEF JobOK, JobSeen
  <2>3. job'[c].made <= job'[c].max BY <1>1, <1>2, <1>3, HolderFacts DEF JobOK, JobFits
  <2>4. answer[c].st \notin {"closed", "none"} BY HolderFacts
  <2> QED BY <1>1, <1>2, <1>3, <1>4, <2>1, <2>2, <2>3, <2>4, HolderFacts, JobMoves
<1>6. HeardOK(c)'
  <2>1. Ending(c)' = <<>> /\ Ending(c) = <<>> BY <1>2, <1>3, HolderFacts DEF Ending
  <2>2. TokensSent(c)' = TokensSent(c) BY <1>2, <1>3, HolderFacts DEF TokensSent
  <2>3. job'[c].body.stream = job[c].body.stream /\ answer'[c] = answer[c] BY <1>2, <1>3
  <2> QED BY <1>1, <2>1, <2>2, <2>3, HeardSame
<1>7. ClosedOK(c)' BY HolderFacts DEF ClosedOK
<1>8. job[c].st \in {"queued", "running"} BY HolderFacts
<1> QED BY <1>1, <1>2, <1>3, <1>4, <1>5, <1>6, <1>7, <1>8, SerialStep

LEMMA TurnHonest ==
  ASSUME Honest, Planned', NEW c \in Client, Turn(c)
  PROVE  Honest'
<1>1. lock.holder = c /\ UNCHANGED <<site, server, loop, answer, away>> BY DEF Turn
<1>2. ASSUME NEW end \in {"error", "length", "eos", "stop"}, SerialEnds(c, end)
      PROVE  Honest'
  BY <1>1, <1>2, SerialEndsHonest
<1>3. ASSUME job[c].made < job[c].max, SerialToken(c)
      PROVE  Honest'
  <2>1. CASE job[c].body.stream /\ c \in away
    <3>1. SerialEnds(c, "closed") BY <1>3, <2>1 DEF SerialToken
    <3> QED BY <1>1, <2>1, <3>1, SerialEndsHonest
  <2>2. CASE ~(job[c].body.stream /\ c \in away)
    BY <1>1, <1>3, <2>2, SerialTokenHonest DEF SerialToken
  <2> QED BY <2>1, <2>2
<1>4. ASSUME job' = Over(c, "panic"), UNCHANGED chan,
             lock' = [holder |-> "nobody", poisoned |-> TRUE]
      PROVE  Honest'
  BY <1>1, <1>4, SerialPanicHonest
<1>5. \/ \E end \in {"error", "length", "eos", "stop"} : SerialEnds(c, end)
      \/ job[c].made < job[c].max /\ SerialToken(c)
      \/ /\ job' = Over(c, "panic") /\ UNCHANGED chan
         /\ lock' = [holder |-> "nobody", poisoned |-> TRUE]
  BY DEF Turn, Kinds
<1> QED BY <1>2, <1>3, <1>4, <1>5

LEMMA PromptHonest ==
  ASSUME Honest, Planned', NEW c \in Client, NEW body \in Bodies, Prompt(c, body)
  PROVE  Honest'
<1>1. /\ server.st = "loaded" /\ site.cli
      /\ UNCHANGED <<site, loop, chan, away>>
  BY DEF Prompt
<1>2. /\ Typed /\ LoopOK /\ ServerOK /\ Planned /\ FrameCap \in Nat
      /\ site \in Sites /\ MaxLen(site) \in Nat /\ ~site.sched
      /\ \A d \in Client : /\ PlaceOK(d) /\ JobOK(d) /\ HeardOK(d) /\ ClosedOK(d)
                           /\ job[d] = NoJob /\ answer[d].st = "none"
      /\ server \in [st : States, code : Nat, pages : Nat, cap : Nat]
      /\ job \in [Client -> JobType \union {NoJob}] /\ answer \in [Client -> AnswerType]
  BY <1>1, ServerAssumption, MaxLenIsNat DEF Honest, Planned, ServerOK, Typed, Site
<1>3. CASE server' = Exit(2) /\ UNCHANGED <<job, answer, lock>>
  BY <1>1, <1>2, <1>3, ProcessKeeps DEF Exit, completions
<1>4. CASE /\ body.stream /\ server' = [server EXCEPT !.st = "running"]
           /\ Accept(c, body, "running") /\ lock' = [lock EXCEPT !.holder = c]
  <2>1. /\ job' = [job EXCEPT ![c] = [body |-> body, st |-> "running", made |-> 0, end |-> "none",
                                      max |-> Truncated(body.max, Width)]]
        /\ answer' = [answer EXCEPT ![c] = [NoAnswer EXCEPT !.st = "open",
                                              !.status = IF body.stream THEN 200 ELSE 0]]
    BY <1>4 DEF Accept
  <2>2. job' \in [Client -> JobType \union {NoJob}] /\ job'[c].st = "running"
    BY <1>2, <2>1, TruncatedIsNat DEF JobType, Ends
  <2>3. answer' \in [Client -> AnswerType] /\ answer'[c].st = "open"
    BY <1>2, <2>1, ZenonT(30) DEF NoAnswer, AnswerType, EndFrames
  <2>4. /\ lock' \in LockType /\ lock'.holder = c
        /\ lock'.poisoned = lock.poisoned
    BY <1>2, <1>4 DEF Typed, LockType
  <2>5. Typed'
    <3>1. away' = {d \in Client : answer'[d].st = "cut"}
      BY <1>1, <1>2, <2>1, <2>3 DEF Typed
    <3> QED BY <1>1, <1>2, <2>2, <2>3, <2>4, <3>1 DEF Typed
  <2>6. job[c].st # "submitted" /\ \A d \in Client \ {c} : job'[d] = job[d]
    BY <1>2, <2>1 DEF NoJob
  <2>7. LoopOK' /\ (\A d \in Client : PlaceOK(d)') /\ \A d \in Client : Pending(d)' = Pending(d)
    BY <1>1, <1>2, <2>2, <2>6, OffLoop
  <2>8. server'.st = "running" /\ server'.cap = server.cap BY <1>2, <1>4
  <2>9. ServerOK' BY <1>1, <1>2, <2>2, <2>4, <2>8 DEF ServerOK
  <2>10. ASSUME NEW d \in Client PROVE JobOK(d)' /\ HeardOK(d)' /\ ClosedOK(d)'
    <3>1. CASE d = c
      <4>1. ~Pending(c) BY <1>2, <2>6, NotPending
      <4> QED BY <1>1, <1>2, <1>4, <2>5, <3>1, <4>1, AcceptedOK
    <3>2. CASE d # c
      <4>1. answer'[d] = answer[d] /\ job'[d] = job[d] BY <1>2, <2>1, <3>2
      <4> QED BY <1>1, <1>2, <2>4, <2>7, <4>1, ClientKept
    <3> QED BY <3>1, <3>2
  <2> QED BY <1>1, <2>5, <2>7, <2>8, <2>9, <2>10 DEF Honest
<1> QED BY <1>3, <1>4 DEF Prompt

-----------------------------------------------------------------------------
(* The handler's side *)

\* A step of c's handler.
LEMMA HandlerKeeps ==
  ASSUME Honest, Planned', NEW c \in Client, UNCHANGED <<site, server, loop, lock, job, away>>,
         answer' \in [Client -> AnswerType], answer[c].st = "open",
         answer'[c].st \in {"open", "closed"},
         chan' \in [Client -> Seq(Frames)],
         \A d \in Client \ {c} : answer'[d] = answer[d] /\ chan'[d] = chan[d],
         JobOK(c)' /\ HeardOK(c)' /\ ClosedOK(c)'
  PROVE  Honest'
<1>1. /\ Typed /\ LoopOK /\ ServerOK
      /\ \A d \in Client : PlaceOK(d) /\ JobOK(d) /\ HeardOK(d) /\ ClosedOK(d)
  BY DEF Honest
<1>2. Typed'
  <2>1. away' = {d \in Client : answer'[d].st = "cut"} BY <1>1 DEF Typed
  <2> QED BY <1>1, <2>1 DEF Typed
<1>3. LoopOK' /\ (\A d \in Client : PlaceOK(d)') /\ \A d \in Client : Pending(d)' = Pending(d)
  BY <1>1, TablesKept
<1>4. ServerOK' BY <1>1 DEF ServerOK
<1>5. \A d \in Client \ {c} : JobOK(d)' /\ HeardOK(d)' /\ ClosedOK(d)'
  BY <1>1, <1>3, ClientKept
<1> QED BY <1>2, <1>3, <1>4, <1>5 DEF Honest

\* The frames that can follow the tokens.
LEMMA EndingShape ==
  ASSUME NEW c \in Client, JobOK(c)
  PROVE  /\ FinishOf(job[c].end) \in {"stop", "length", "error"} /\ Ending(c) \in Seq(Frames)
         /\ \/ Ending(c) = <<>>
            \/ /\ Ending(c) = <<FinishOf(job[c].end)>> /\ site.sched /\ ~site.cli
               /\ job[c].st = "over" /\ job[c].end \in {"eos", "stop", "length", "error"}
            \/ /\ Ending(c) = <<FinishOf(job[c].end), "DONE">> /\ ~site.sched /\ ~site.cli
               /\ job[c].body.stream
               /\ job[c].st = "over" /\ job[c].end \in {"eos", "stop", "length", "error"}
<1>1. FinishOf(job[c].end) \in {"stop", "length", "error"} BY DEF FinishOf
<1>2. CASE Ending(c) # <<>>
  <2>1. /\ job[c].st = "over" /\ ~site.cli
        /\ job[c].end \notin {"lost", "panic", "poison", "closed"}
        /\ Ending(c) = IF site.sched THEN <<FinishOf(job[c].end)>>
                       ELSE IF job[c].body.stream THEN <<FinishOf(job[c].end), "DONE">> ELSE <<>>
    BY <1>2 DEF Ending
  <2>2. job[c].end \in {"eos", "stop", "length", "error"} BY <2>1 DEF JobOK, JobPath
  <2>3. FinishOf(job[c].end) \in Frames /\ "DONE" \in Frames BY <1>1 DEF Frames
  <2>4. <<FinishOf(job[c].end)>> \in Seq(Frames) /\ <<FinishOf(job[c].end), "DONE">> \in Seq(Frames)
    BY <2>3
  <2> QED BY <1>1, <1>2, <2>1, <2>2, <2>4
<1>3. <<>> \in Seq(Frames) BY EmptySeq
<1> QED BY <1>1, <1>2, <1>3

LEMMA SentIsInt ==
  ASSUME NEW c \in Client, Typed
  PROVE  TokensSent(c) \in Int
<1>1. job[c].made \in Nat BY DEF Typed, JobType, NoJob
<1> QED BY <1>1 DEF TokensSent

\* What a frame, and the last one, make of an answer.
LEMMA AnswerGrows ==
  ASSUME NEW a \in AnswerType
  PROVE  [a EXCEPT !.got = @ + 1] \in AnswerType
  BY DEF AnswerType

LEMMA AnswerCloses ==
  ASSUME NEW a \in AnswerType, NEW end \in EndFrames, NEW status \in Nat
  PROVE  /\ Closed(a, status, end) \in AnswerType
         /\ Closed(a, status, end).st = "closed" /\ Closed(a, status, end).got = a.got
         /\ Closed(a, status, end).end = end
  BY DEF AnswerType, Closed

LEMMA ReceiveHonest ==
  ASSUME Honest, Planned', NEW c \in Client, Receive(c)
  PROVE  Honest'
<1> DEFINE q == chan[c]
           a == answer[c]
           n == TokensSent(c)
           e == Ending(c)
           f == q[1]
<1>1. /\ a.st = "open" /\ q # <<>> /\ UNCHANGED <<site, server, loop, lock, job, away>>
      /\ answer' = [answer EXCEPT ![c] =
           IF job[c].body.stream \/ Head(q) = "token" THEN Heard(a, Head(q))
           ELSE Closed(Heard(a, Head(q)), IF Head(q) = "error" THEN 500 ELSE 200, Head(q))]
      /\ chan' = [chan EXCEPT ![c] = Tail(q)]
  BY DEF Receive
<1>2. /\ Typed /\ JobOK(c) /\ HeardOK(c) /\ n \in Int
      /\ answer \in [Client -> AnswerType] /\ chan \in [Client -> Seq(Frames)]
      /\ a \in AnswerType /\ q \in Seq(Frames) /\ a.got \in Nat /\ FrameCap \in Nat
  BY SentIsInt, ServerAssumption DEF Honest, Typed, AnswerType
<1>3. /\ Head(q) = f /\ Tail(q) \in Seq(Frames) /\ Len(q) \in Nat /\ Len(q) > 0
      /\ Len(Tail(q)) = Len(q) - 1
      /\ \A i \in 1..(Len(q) - 1) : Tail(q)[i] = q[i + 1]
  <2> HIDE DEF q
  <2> QED BY <1>1, <1>2, HeadTailProperties, EmptySeq
<1>4. chan'[c] = Tail(q) /\ chan' \in [Client -> Seq(Frames)]
      /\ \A d \in Client \ {c} : chan'[d] = chan[d]
  BY <1>1, <1>2, <1>3
<1> DEFINE b == IF job[c].body.stream \/ f = "token" THEN Heard(a, f)
                ELSE Closed(Heard(a, f), IF f = "error" THEN 500 ELSE 200, f)
<1>5. answer' = [answer EXCEPT ![c] = b] BY <1>1, <1>3
<1>6. /\ FramesHeard(a) + Len(q) = n + Len(e)
      /\ \A i \in 1..Len(q) : q[i] = IF FramesHeard(a) + i <= n THEN "token" ELSE e[FramesHeard(a) + i - n]
      /\ a.got <= n
      /\ a.end # "none" => e # <<>> /\ a.got = n /\ a.end = e[1] /\ job[c].body.stream
      /\ a.done => a.end # "none"
      /\ FramesHeard(a) = a.got + (IF a.end = "none" THEN 0 ELSE 1) + (IF a.done THEN 1 ELSE 0)
  BY <1>1, <1>2 DEF HeardOK, FramesHeard
<1>7. TokensSent(c)' = n /\ Ending(c)' = e
  BY <1>1 DEF TokensSent, Pending, Ending
<1>8. /\ e = <<>> => Len(e) = 0
      /\ Len(e) \in 0..2
      /\ Len(e) \in {1, 2} => e[1] = FinishOf(job[c].end)
      /\ Len(e) = 2 => e[2] = "DONE" /\ job[c].body.stream
      /\ e \in Seq(Frames)
  <2> DEFINE F == FinishOf(job[c].end)
  <2>1. e \in Seq(Frames) /\ (e = <<>> \/ e = <<F>> \/ (e = <<F, "DONE">> /\ job[c].body.stream))
    BY <1>2, EndingShape
  <2> HIDE DEF e, F
  <2>2. CASE e = <<>> BY <2>1, <2>2
  <2>3. CASE e = <<F>> BY <2>1, <2>3 DEF F
  <2>4. CASE e = <<F, "DONE">> /\ job[c].body.stream BY <2>1, <2>4 DEF F
  <2> QED BY <2>1, <2>2, <2>3, <2>4
<1>9. a.done \in BOOLEAN /\ a.end \in EndFrames BY <1>2 DEF AnswerType
<1> HIDE DEF q, n, e
<1>10. f = IF FramesHeard(a) + 1 <= n THEN "token" ELSE e[FramesHeard(a) + 1 - n]
  BY <1>3, <1>6
<1>11. ASSUME b \in AnswerType, b.st = "open", FramesHeard(b) = FramesHeard(a) + 1,
              b.got <= n, b.done => b.end # "none",
              b.end # "none" => e # <<>> /\ b.got = n /\ b.end = e[1] /\ job[c].body.stream
       PROVE  Honest'
  <2>1. answer'[c] = b /\ answer' \in [Client -> AnswerType]
        /\ \A d \in Client \ {c} : answer'[d] = answer[d]
    BY <1>2, <1>5, <1>11
  <2> HIDE DEF b, a, f
  <2>2. FramesHeard(a) \in Int BY <1>2, <1>6
  <2>3. \A i \in 1..Len(Tail(q)) :
          Tail(q)[i] = IF FramesHeard(b) + i <= n THEN "token" ELSE e[FramesHeard(b) + i - n]
    <3> TAKE i \in 1..Len(Tail(q))
    <3>1. i \in Int /\ i + 1 \in 1..Len(q) /\ Tail(q)[i] = q[i + 1] BY <1>3
    <3>2. FramesHeard(b) + i = FramesHeard(a) + (i + 1) BY <1>11, <2>2, <3>1
    <3>3. q[i + 1] = IF FramesHeard(a) + (i + 1) <= n THEN "token"
                     ELSE e[FramesHeard(a) + (i + 1) - n]
      BY <1>6, <3>1
    <3>4. FramesHeard(b) + i - n = FramesHeard(a) + (i + 1) - n
      BY <1>2, <1>11, <2>2, <3>1, <3>2
    <3> QED BY <3>1, <3>2, <3>3, <3>4
  <2>4. FramesHeard(b) + Len(Tail(q)) = n + Len(e) BY <1>2, <1>3, <1>6, <1>11, <2>2
  <2>5. HeardOK(c)'
    BY <1>1, <1>4, <1>7, <1>11, <2>1, <2>3, <2>4 DEF HeardOK, FramesHeard
  <2>6. JobOK(c)'
    <3>1. JobPath(c)' /\ JobFits(c)' BY <1>1, <1>2 DEF JobOK, JobPath, JobFits
    <3>2. chan[c] # <<>> BY <1>1 DEF q
    <3>3. Len(chan'[c]) <= Len(chan[c]) /\ Len(chan[c]) \in Nat /\ Len(chan'[c]) \in Nat
      BY <1>3, <1>4 DEF q
    <3>4. answer[c].st = "open" BY <1>1 DEF a
    <3>5. JobSeen(c)' BY <1>1, <1>2, <1>11, <2>1, <3>2, <3>3, <3>4 DEF JobOK, JobSeen
    <3> QED BY <3>1, <3>5 DEF JobOK
  <2>7. ClosedOK(c)' BY <1>11, <2>1 DEF ClosedOK
  <2>8. answer[c].st = "open" BY <1>1 DEF a
  <2> QED BY <1>1, <1>4, <1>11, <2>1, <2>5, <2>6, <2>7, <2>8, HandlerKeeps
<1>12. CASE FramesHeard(a) + 1 <= n
  <2>1. f = "token" /\ a.end = "none" /\ a.done = FALSE BY <1>2, <1>6, <1>9, <1>10, <1>12
  <2>2. b = [a EXCEPT !.got = @ + 1] BY <2>1 DEF Heard
  <2> HIDE DEF f, b
  <2>3. b \in AnswerType /\ b.st = "open" /\ b.got = a.got + 1 /\ b.end = "none" /\ b.done = FALSE
    <3>1. b \in AnswerType BY <1>2, <2>1, <2>2, AnswerGrows DEF EndFrames
    <3> QED BY <1>1, <1>2, <2>1, <2>2, <3>1 DEF AnswerType
  <2>4. FramesHeard(b) = FramesHeard(a) + 1 BY <1>2, <1>6, <2>1, <2>3 DEF FramesHeard
  <2> QED BY <1>2, <1>6, <1>11, <1>12, <2>1, <2>3, <2>4
<1>13. CASE ~(FramesHeard(a) + 1 <= n)
  <2>1. a.got = n BY <1>2, <1>6, <1>9, <1>13
  <2>2. CASE a.end = "none"
    <3>1. a.done = FALSE /\ FramesHeard(a) = n BY <1>2, <1>6, <1>9, <2>1, <2>2
    <3>2. f = e[1] /\ Len(e) \in {1, 2} BY <1>2, <1>3, <1>6, <1>8, <1>10, <1>13, <3>1
    <3>3. f = FinishOf(job[c].end) /\ f \in {"stop", "length", "error"}
      BY <1>2, <1>8, <3>2, EndingShape
    <3>4. CASE job[c].body.stream
      <4>1. b = [a EXCEPT !.end = f] BY <3>3, <3>4 DEF Heard
      <4> HIDE DEF f, b
      <4>2. b \in AnswerType /\ b.st = "open" /\ b.got = a.got /\ b.end = f /\ b.done = FALSE
        BY <1>1, <1>2, <3>1, <3>3, <4>1 DEF AnswerType, EndFrames
      <4>3. FramesHeard(b) = FramesHeard(a) + 1 BY <1>2, <1>6, <2>1, <3>1, <3>3, <4>2 DEF FramesHeard
      <4>4. e # <<>> BY <1>8, <3>2
      <4> QED BY <1>2, <1>11, <2>1, <3>2, <3>3, <3>4, <4>2, <4>3, <4>4
    <3>5. CASE ~job[c].body.stream
      <4>1. /\ site.sched /\ ~site.cli /\ job[c].st = "over"
            /\ job[c].end \in {"eos", "stop", "length", "error"} /\ Len(e) = 1
        BY <1>2, <1>8, <3>2, <3>5, EndingShape DEF e
      <4> DEFINE status == IF f = "error" THEN 500 ELSE 200
      <4>2. b = Closed([a EXCEPT !.end = f], status, f) /\ status \in Nat
        BY <3>3, <3>5 DEF Heard
      <4> HIDE DEF f, b, status
      <4>3. b \in AnswerType /\ b.st = "closed" /\ b.got = a.got /\ b.end = f
        <5>1. f \in EndFrames BY <3>3 DEF EndFrames
        <5> DEFINE m == [a EXCEPT !.end = f]
        <5>2. m \in AnswerType /\ m.got = a.got BY <1>2, <5>1 DEF AnswerType
        <5>3. b = Closed(m, status, f) BY <4>2
        <5> HIDE DEF a, m
        <5> QED BY <4>2, <5>1, <5>2, <5>3, AnswerCloses
      <4>4. answer'[c] = b /\ answer' \in [Client -> AnswerType]
            /\ \A d \in Client \ {c} : answer'[d] = answer[d]
        BY <1>2, <1>5, <4>3
      <4>5. HeardOK(c)' BY <4>3, <4>4 DEF HeardOK
      <4>6. a.got = job[c].made
        <5>1. ~Pending(c) BY <1>2, <4>1, NotPending DEF Honest
        <5> QED BY <2>1, <4>1, <5>1 DEF n, TokensSent
      <4>7. ClosedOK(c)'
        <5>1. OwnEnd(c)' BY <1>1, <3>3, <4>1, <4>3, <4>4, <4>6 DEF OwnEnd, FinishOf, EngineLost
        <5> QED BY <5>1 DEF ClosedOK
      <4>8. JobOK(c)'
        <5>1. JobPath(c)' /\ JobFits(c)' BY <1>1, <1>2 DEF JobOK, JobPath, JobFits
        <5>2. Len(chan'[c]) <= Len(chan[c]) /\ Len(chan[c]) \in Nat /\ Len(chan'[c]) \in Nat
          BY <1>3, <1>4 DEF q
        <5>3. JobSeen(c)' BY <1>1, <1>2, <4>1, <4>3, <4>4, <5>2 DEF JobOK, JobSeen
        <5> QED BY <5>1, <5>3 DEF JobOK
      <4>9. answer[c].st = "open" BY <1>1
      <4> QED BY <1>1, <1>4, <4>3, <4>4, <4>5, <4>7, <4>8, <4>9, HandlerKeeps
    <3> QED BY <3>4, <3>5
  <2>3. CASE a.end # "none"
    <3>1. Len(e) = 2 /\ a.done = FALSE /\ FramesHeard(a) = n + 1
      <4>1. FramesHeard(a) = n + 1 + (IF a.done THEN 1 ELSE 0) BY <1>2, <1>6, <2>1, <2>3
      <4>2. CASE a.done
        <5>1. FramesHeard(a) = n + 2 BY <1>2, <4>1, <4>2
        <5>2. n + 2 + Len(q) = n + Len(e) /\ Len(q) \in Nat /\ Len(q) > 0 /\ Len(e) \in 0..2
          BY <1>3, <1>6, <1>8, <5>1
        <5>3. Len(e) \in Int /\ Len(q) \in Int /\ n \in Int BY <1>2, <1>3, <1>8
        <5>4. Len(q) = Len(e) - 2 BY <5>2, <5>3
        <5>5. \A l \in 0..2 : l <= 2 OBVIOUS
        <5>7. Len(e) <= 2 BY <5>2, <5>5
        <5>6. FALSE BY <5>2, <5>3, <5>4, <5>7
        <5> QED BY <5>6
      <4>3. CASE a.done = FALSE
        <5>1. FramesHeard(a) = n + 1 BY <1>2, <4>1, <4>3
        <5>2. n + 1 + Len(q) = n + Len(e) /\ Len(q) \in Nat /\ Len(q) > 0 /\ Len(e) \in 0..2
          BY <1>3, <1>6, <1>8, <5>1
        <5> QED BY <1>2, <1>8, <4>3, <5>1, <5>2
      <4> QED BY <1>9, <4>2, <4>3
    <3>2. f = "DONE" /\ job[c].body.stream BY <1>2, <1>8, <1>10, <3>1
    <3>3. b = [a EXCEPT !.done = TRUE] BY <3>2 DEF Heard
    <3> HIDE DEF f, b
    <3>4. b \in AnswerType /\ b.st = "open" /\ b.got = a.got /\ b.end = a.end /\ b.done
      BY <1>1, <1>2, <3>3 DEF AnswerType
    <3>5. FramesHeard(b) = FramesHeard(a) + 1 BY <1>2, <1>6, <2>1, <2>3, <3>1, <3>4 DEF FramesHeard
    <3> QED BY <1>2, <1>6, <1>11, <2>1, <2>3, <3>2, <3>4, <3>5
  <2> QED BY <2>2, <2>3
<1> QED BY <1>12, <1>13

\* A client that has heard its whole history can say what became of its job.
LEMMA HeardAll ==
  ASSUME Honest, NEW c \in Client, answer[c].st = "open", chan[c] = <<>>, job[c].st = "over"
  PROVE  /\ job[c].end # "closed"
         /\ site.sched \/ job[c].body.stream => answer[c].got = job[c].made
         /\ \/ site.cli
            \/ /\ answer[c].end = "none"
               /\ \/ job[c].end \in {"lost", "panic", "poison"} /\ EngineLost
                  \/ ~site.sched /\ ~job[c].body.stream
            \/ /\ answer[c].end = FinishOf(job[c].end) /\ job[c].body.stream
               /\ job[c].end \in {"eos", "stop", "length", "error"}
<1> DEFINE a == answer[c]
           n == TokensSent(c)
           e == Ending(c)
<1>1. /\ Typed /\ JobOK(c) /\ HeardOK(c) /\ PlaceOK(c) /\ n \in Int
      /\ a \in AnswerType /\ a.got \in Nat /\ a.done \in BOOLEAN
  BY SentIsInt DEF Honest, Typed, AnswerType
<1>2. ~Pending(c) BY <1>1, NotPending
<1>3. job[c].made \in Nat BY <1>1 DEF Typed, JobType, NoJob
<1>4. site.sched \/ job[c].body.stream => n = job[c].made BY <1>2 DEF TokensSent
<1>5. /\ FramesHeard(a) = n + Len(e) /\ a.got <= n
      /\ a.end # "none" => e # <<>> /\ a.got = n /\ a.end = e[1] /\ job[c].body.stream
      /\ a.done => a.end # "none"
      /\ FramesHeard(a) = a.got + (IF a.end = "none" THEN 0 ELSE 1) + (IF a.done THEN 1 ELSE 0)
  <2>1. FramesHeard(a) = a.got + (IF a.end = "none" THEN 0 ELSE 1) + (IF a.done THEN 1 ELSE 0)
    BY DEF FramesHeard
  <2>2. FramesHeard(a) \in Int BY <1>1, <2>1
  <2>3. FramesHeard(a) + 0 = n + Len(e) BY <1>1 DEF HeardOK
  <2> QED BY <1>1, <2>1, <2>2, <2>3 DEF HeardOK
<1>6. job[c].end # "closed" BY <1>1 DEF JobOK, JobSeen
<1>7. CASE e = <<>>
  <2>1. a.end = "none" /\ a.done = FALSE BY <1>1, <1>5, <1>7
  <2>2. a.got = n
    <3>1. Len(e) = 0 BY <1>7
    <3>2. a.got + 0 + 0 = n + 0 BY <1>5, <2>1, <3>1
    <3> QED BY <1>1, <3>2
  <2>3. \/ site.cli \/ job[c].end \in {"lost", "panic", "poison"}
        \/ ~site.sched /\ ~job[c].body.stream
    <3>1. CASE site.sched /\ ~site.cli /\ job[c].end \notin {"lost", "panic", "poison"}
      <4>1. e = <<FinishOf(job[c].end)>> BY <1>6, <3>1 DEF Ending
      <4> QED BY <1>7, <4>1
    <3>2. CASE ~site.sched /\ job[c].body.stream /\ ~site.cli /\ job[c].end \notin {"lost", "panic", "poison"}
      <4>1. e = <<FinishOf(job[c].end), "DONE">> BY <1>6, <3>2 DEF Ending
      <4> QED BY <1>7, <4>1
    <3> QED BY <3>1, <3>2
  <2>4. job[c].end \in {"lost", "panic", "poison"} => EngineLost
    BY <1>1 DEF JobOK, JobSeen, EngineLost
  <2> QED BY <1>4, <1>6, <2>1, <2>2, <2>3, <2>4
<1>8. CASE e # <<>>
  <2>1. /\ job[c].end \in {"eos", "stop", "length", "error"} /\ e[1] = FinishOf(job[c].end)
        /\ Len(e) \in Nat /\ Len(e) > 0
    <3> DEFINE F == FinishOf(job[c].end)
    <3>1. /\ job[c].end \in {"eos", "stop", "length", "error"}
          /\ e = <<F>> \/ e = <<F, "DONE">>
      BY <1>1, <1>8, EndingShape
    <3> HIDE DEF e, F
    <3>2. CASE e = <<F>> BY <3>1, <3>2 DEF F
    <3>3. CASE e = <<F, "DONE">> BY <3>1, <3>3 DEF F
    <3> QED BY <3>1, <3>2, <3>3
  <2>2. a.end # "none"
    <3>1. SUFFICES ASSUME a.end = "none" PROVE FALSE OBVIOUS
    <3>2. a.done = FALSE BY <1>1, <1>5, <3>1
    <3>3. a.got + 0 + 0 = n + Len(e) BY <1>5, <3>1, <3>2
    <3> QED BY <1>1, <1>5, <2>1, <3>3
  <2> QED BY <1>4, <1>5, <1>6, <2>1, <2>2
<1> QED BY <1>7, <1>8

LEMMA EndOfFramesHonest ==
  ASSUME Honest, Planned', NEW c \in Client, EndOfFrames(c)
  PROVE  Honest'
<1> DEFINE a == answer[c]
           b == IF job[c].body.stream THEN [a EXCEPT !.st = "closed", !.done = @ \/ site.sched]
                ELSE IF site.sched THEN Closed(a, 200, "length")
                ELSE IF job[c].end \in {"error", "panic", "poison"} THEN Closed(a, 500, "error")
                ELSE [Closed(a, 200, PlainFinishOf(job[c].end)) EXCEPT !.got = job[c].made]
<1>1. /\ a.st = "open" /\ chan[c] = <<>> /\ job[c].st = "over"
      /\ UNCHANGED <<site, server, loop, lock, job, chan, away>>
      /\ answer' = [answer EXCEPT ![c] = b]
  BY DEF EndOfFrames
<1>2. /\ Typed /\ JobOK(c) /\ a \in AnswerType /\ answer \in [Client -> AnswerType]
      /\ job[c] \in JobType /\ job[c].made \in Nat /\ job[c].body.stream \in BOOLEAN
      /\ site.sched \in BOOLEAN /\ ~(site.cli /\ site.sched)
      /\ chan \in [Client -> Seq(Frames)]
  <2>1. site \in Sites BY DEF Honest, Planned
  <2>2. site.sched \in BOOLEAN /\ ~(site.cli /\ site.sched) BY <2>1, ServerAssumption DEF Site
  <2>3. job[c] \in JobType BY <1>1 DEF Honest, Typed, NoJob
  <2> QED BY <2>2, <2>3, ServerAssumption DEF Honest, Typed, JobType
<1>3. /\ job[c].end # "closed"
      /\ site.sched \/ job[c].body.stream => a.got = job[c].made
      /\ \/ site.cli
         \/ /\ a.end = "none"
            /\ \/ job[c].end \in {"lost", "panic", "poison"} /\ EngineLost
               \/ ~site.sched /\ ~job[c].body.stream
         \/ /\ a.end = FinishOf(job[c].end) /\ job[c].body.stream
            /\ job[c].end \in {"eos", "stop", "length", "error"}
  BY <1>1, HeardAll
<1>4. site.cli => job[c].body.stream BY <1>1, <1>2 DEF JobOK, JobFits
<1>5. /\ job[c].end \in {"eos", "stop", "length", "error", "lost", "panic", "poison"}
      /\ site.sched => job[c].end \notin {"panic", "poison"}
      /\ ~site.sched => job[c].end # "lost"
      /\ job[c].end \in {"panic", "poison", "lost"} => EngineLost
  BY <1>1, <1>2, <1>3 DEF JobOK, JobPath, JobSeen, EngineLost
<1>6. /\ b \in AnswerType /\ b.st = "closed"
      /\ job[c].body.stream => b.end = a.end /\ b.got = a.got
      /\ ~job[c].body.stream /\ site.sched => b.end = "length"
      /\ ~job[c].body.stream /\ ~site.sched =>
           IF job[c].end \in {"error", "panic", "poison"} THEN b.end = "error"
           ELSE b.end = PlainFinishOf(job[c].end) /\ b.got = job[c].made
  <2>0. ASSUME NEW status \in Nat, NEW end \in EndFrames
        PROVE  /\ Closed(a, status, end) \in AnswerType /\ Closed(a, status, end).st = "closed"
               /\ Closed(a, status, end).end = end
    BY <1>2, AnswerCloses
  <2>1. CASE job[c].body.stream
    <3>1. b = [a EXCEPT !.st = "closed", !.done = @ \/ site.sched] BY <2>1
    <3> HIDE DEF b
    <3> QED BY <1>2, <2>1, <3>1 DEF AnswerType
  <2>2. CASE ~job[c].body.stream /\ site.sched
    <3>1. b = Closed(a, 200, "length") BY <2>2
    <3> HIDE DEF b
    <3>2. b \in AnswerType /\ b.st = "closed" /\ b.end = "length"
      BY <2>0, <3>1 DEF EndFrames
    <3> QED BY <2>2, <3>2
  <2>3. CASE ~job[c].body.stream /\ ~site.sched /\ job[c].end \in {"error", "panic", "poison"}
    <3>1. b = Closed(a, 500, "error") BY <2>3
    <3> HIDE DEF b
    <3>2. b \in AnswerType /\ b.st = "closed" /\ b.end = "error"
      BY <2>0, <3>1 DEF EndFrames
    <3> QED BY <2>3, <3>2
  <2>4. CASE ~job[c].body.stream /\ ~site.sched /\ job[c].end \notin {"error", "panic", "poison"}
    <3> DEFINE P == PlainFinishOf(job[c].end)
    <3>1. b = [Closed(a, 200, P) EXCEPT !.got = job[c].made] BY <2>4
    <3>2. P \in EndFrames BY DEF PlainFinishOf, EndFrames
    <3> HIDE DEF b, P
    <3>3. Closed(a, 200, P) \in AnswerType /\ Closed(a, 200, P).end = P
          /\ Closed(a, 200, P).st = "closed"
      BY <1>2, <3>2, ZenonT(30) DEF AnswerType, Closed
    <3>4. b \in AnswerType /\ b.end = P /\ b.st = "closed" /\ b.got = job[c].made
      BY <1>2, <3>1, <3>3 DEF AnswerType
    <3> QED BY <2>4, <3>4 DEF P
  <2> QED BY <1>2, <2>1, <2>2, <2>3, <2>4
<1> HIDE DEF b
<1>7. answer'[c] = b /\ answer' \in [Client -> AnswerType]
      /\ \A d \in Client \ {c} : answer'[d] = answer[d]
  BY <1>1, <1>2, <1>6
<1>8. ClosedOK(c)'
  <2>1. OwnEnd(c)'
    <3>1. CASE job[c].body.stream
      <4>1. b.end = a.end /\ b.got = job[c].made BY <1>3, <1>6, <3>1
      <4>2. CASE site.cli BY <1>1, <1>7, <4>1, <4>2 DEF OwnEnd
      <4>3. CASE ~site.cli /\ a.end = "none"
        <5>1. b.end = "none" BY <4>1, <4>3
        <5>2. job[c].end \in {"lost", "panic", "poison"} /\ EngineLost
          BY <1>3, <3>1, <4>3 DEF FinishOf
        <5> QED BY <1>1, <1>7, <4>3, <5>1, <5>2 DEF OwnEnd, EngineLost
      <4>4. CASE ~site.cli /\ a.end # "none"
        <5>1. b.end = FinishOf(job[c].end) /\ job[c].end \in {"eos", "stop", "length", "error"}
          BY <1>3, <4>1, <4>4
        <5> QED BY <1>1, <1>7, <4>1, <4>4, <5>1 DEF OwnEnd, FinishOf
      <4> QED BY <4>2, <4>3, <4>4
    <3>2. CASE ~job[c].body.stream /\ site.sched
      <4>1. job[c].end = "lost" /\ EngineLost BY <1>2, <1>3, <1>4, <1>5, <3>2
      <4>2. ~site.cli /\ b.end = "length" BY <1>4, <1>6, <3>2
      <4> QED BY <1>1, <1>7, <3>2, <4>1, <4>2 DEF OwnEnd, EngineLost
    <3>3. CASE ~job[c].body.stream /\ ~site.sched
      <4>1. ~site.cli BY <1>4, <3>3
      <4>2. CASE job[c].end \in {"error", "panic", "poison"}
        <5>1. b.end = "error" BY <1>6, <3>3, <4>2
        <5> QED BY <1>1, <1>5, <1>7, <4>1, <4>2, <5>1 DEF OwnEnd, EngineLost
      <4>3. CASE job[c].end \notin {"error", "panic", "poison"}
        <5>1. b.end = PlainFinishOf(job[c].end) /\ b.got = job[c].made BY <1>6, <3>3, <4>3
        <5>2. job[c].end \in {"eos", "stop", "length"} BY <1>5, <3>3, <4>3
        <5> QED BY <1>1, <1>7, <3>3, <4>1, <5>1, <5>2 DEF OwnEnd, PlainFinishOf
      <4> QED BY <4>2, <4>3
    <3> QED BY <1>2, <3>1, <3>2, <3>3
  <2> QED BY <2>1 DEF ClosedOK
<1>9. JobOK(c)'
  <2>1. JobPath(c)' /\ JobFits(c)' BY <1>1, <1>2 DEF JobOK, JobPath, JobFits
  <2>2. JobSeen(c)' BY <1>1, <1>2, <1>3, <1>6, <1>7 DEF JobOK, JobSeen
  <2> QED BY <2>1, <2>2 DEF JobOK
<1>10. HeardOK(c)' BY <1>6, <1>7 DEF HeardOK
<1> QED BY <1>1, <1>2, <1>6, <1>7, <1>8, <1>9, <1>10, HandlerKeeps

-----------------------------------------------------------------------------
(* The scheduled path *)

\* The job of a request the loop has.
LEMMA SubmittedFacts ==
  ASSUME Honest, NEW c \in Client, job[c].st = "submitted"
  PROVE  /\ job[c] \in JobType /\ site.sched /\ ~site.cli /\ answer[c].st \in {"open", "cut"}
         /\ c \in away <=> answer[c].st = "cut"
         /\ job[c].made \in Nat /\ job[c].max \in Nat /\ job[c].body \in Bodies
         /\ job[c].made <= job[c].max
         /\ Ending(c) = <<>>
<1>1. /\ Typed /\ Planned /\ JobPath(c) /\ JobFits(c) /\ JobSeen(c) /\ site \in Sites
  BY DEF Honest, JobOK, Planned
<1>2. job[c] \in JobType BY <1>1 DEF Typed, NoJob
<1>3. site.sched /\ ~site.cli BY <1>1, ServerAssumption DEF JobPath, Site
<1>4. answer[c].st \in {"open", "cut"} BY <1>1, SMTT(30) DEF Typed, AnswerType, JobSeen, NoJob
<1>5. c \in away <=> answer[c].st = "cut" BY <1>1 DEF Typed
<1> QED BY <1>1, <1>2, <1>3, <1>4, <1>5 DEF JobType, JobFits, Ending

\* The thread ends: every request it had is lost.
LEMMA LoopEndsHonest ==
  ASSUME Honest, Planned', NEW st \in {"stopped", "died"}, LoopEnds(st), loop.sending = <<>>,
         st = "stopped" => \A c \in Client : answer[c].st # "open",
         loop.st # "died",
         UNCHANGED <<site, server, lock, chan, answer, away>>
  PROVE  Honest'
<1>1. /\ loop' = [loop EXCEPT !.st = st, !.cmds = <<>>, !.waiting = <<>>,
                              !.running = {}, !.batch = {}, !.sending = <<>>]
      /\ job' = [c \in Client |-> IF job[c].st = "submitted"
                                  THEN [job[c] EXCEPT !.st = "over", !.end = "lost"] ELSE job[c]]
  BY DEF LoopEnds, AllLost
<1>2. /\ Typed /\ ServerOK /\ loop \in LoopType /\ job \in [Client -> JobType \union {NoJob}]
      /\ FrameCap \in Nat
      /\ \A c \in Client : PlaceOK(c) /\ JobOK(c) /\ HeardOK(c) /\ ClosedOK(c)
  BY ServerAssumption DEF Honest, Typed
<1>3. /\ loop'.cmds = <<>> /\ loop'.waiting = <<>> /\ loop'.running = {} /\ loop'.batch = {}
      /\ loop'.sending = <<>> /\ loop'.st = st /\ loop' \in LoopType
  BY <1>1, <1>2, EmptySeq DEF LoopType
<1>4. \A c \in Client :
        /\ job[c].st # "submitted" => job'[c] = job[c]
        /\ job[c].st = "submitted" => /\ job'[c] = [job[c] EXCEPT !.st = "over", !.end = "lost"]
                                      /\ job[c] \in JobType
  <2> TAKE c \in Client
  <2>1. job'[c] = IF job[c].st = "submitted" THEN [job[c] EXCEPT !.st = "over", !.end = "lost"]
                  ELSE job[c]
    BY <1>1
  <2>2. job[c].st = "submitted" => job[c] \in JobType BY SubmittedFacts
  <2> QED BY <2>1, <2>2
<1>5. ASSUME NEW c \in Client, job[c].st = "submitted"
      PROVE  /\ job'[c] \in JobType /\ job'[c].st = "over" /\ job'[c].end = "lost"
             /\ job'[c].body = job[c].body /\ job'[c].max = job[c].max
             /\ job'[c].made = job[c].made
  BY <1>4, <1>5 DEF JobType, Ends
<1>6. Typed'
  <2>1. job' \in [Client -> JobType \union {NoJob}] BY <1>1, <1>2, <1>4, <1>5
  <2> QED BY <1>2, <1>3, <2>1 DEF Typed
<1>7. LoopOK' BY <1>3 DEF LoopOK, CmdsOnce, WaitingOnce, SendingOnce, SendingOK
<1>8. \A c \in Client : job'[c].st # "submitted" BY <1>4, <1>5
<1>9. \A c \in Client : PlaceOK(c)'
  BY <1>3, <1>8 DEF PlaceOK, InCmds, InWaiting, InSending
<1>10. ServerOK'
  <2>1. lock.holder # "nobody" => job'[lock.holder] = job[lock.holder]
    BY <1>2, <1>4 DEF ServerOK, Typed, LockType
  <2>2. server.st \in {"starting", "spawning", "loaded"} =>
          \A c \in Client : job'[c] = NoJob /\ answer[c].st = "none"
    <3> SUFFICES ASSUME server.st \in {"starting", "spawning", "loaded"}, NEW c \in Client
                 PROVE  job'[c] = NoJob /\ answer[c].st = "none"
      OBVIOUS
    <3>1. job[c] = NoJob /\ answer[c].st = "none" BY <1>2 DEF ServerOK
    <3>2. job[c].st # "submitted" BY <3>1 DEF NoJob
    <3> QED BY <1>4, <3>1, <3>2
  <2> QED BY <1>2, <1>3, <2>1, <2>2 DEF ServerOK
<1>11. Cardinality(loop'.running) <= server'.cap
  BY <1>3, FS_EmptySet DEF Honest, Planned
<1>12. ASSUME NEW d \in Client PROVE JobOK(d)' /\ HeardOK(d)' /\ ClosedOK(d)'
  <2>1. CASE job[d].st # "submitted"
    <3>1. job'[d] = job[d] BY <1>4, <2>1
    <3>2. Pending(d)' = Pending(d) BY <1>3 DEF Pending
    <3> QED BY <1>2, <3>1, <3>2, ClientKept
  <2>2. CASE job[d].st = "submitted"
    <3>1. JobPath(d)' BY <1>5, <2>2, SubmittedFacts DEF JobPath
    <3>2. JobOK(d)'
      <4>1. Len(chan'[d]) <= FrameCap BY <1>2, <2>2, SubmittedFacts DEF JobOK, JobSeen
      <4>2. answer[d].st = "open" => loop'.st = "died" BY <1>3
      <4> QED BY <1>2, <1>5, <2>2, <3>1, <4>1, <4>2, SubmittedFacts, JobMoves
    <3>3. HeardOK(d)'
      <4>1. Ending(d)' = <<>> /\ Ending(d) = <<>> BY <1>5, <2>2, SubmittedFacts DEF Ending
      <4>2. Pending(d) = FALSE /\ Pending(d)' = FALSE BY <1>3 DEF Pending
      <4>3. TokensSent(d)' = TokensSent(d) BY <1>5, <2>2, <4>2 DEF TokensSent
      <4>4. FramesHeard(answer[d])' = FramesHeard(answer[d]) BY DEF FramesHeard
      <4>5. job'[d].body.stream = job[d].body.stream BY <1>5, <2>2
      <4> QED BY <1>2, <4>1, <4>3, <4>4, <4>5 DEF HeardOK
    <3>4. ClosedOK(d)' BY <2>2, SubmittedFacts DEF ClosedOK
    <3> QED BY <3>2, <3>3, <3>4
  <2> QED BY <2>1, <2>2
<1> QED BY <1>6, <1>7, <1>9, <1>10, <1>11, <1>12 DEF Honest

\* A step of the loop that decides nothing of a request it does not have.
LEMMA LoopKeeps ==
  ASSUME Honest, Planned', UNCHANGED <<site, server, lock, answer, away>>,
         loop' \in LoopType, LoopOK', \A c \in Client : PlaceOK(c)',
         Cardinality(loop'.running) <= server.cap,
         job' \in [Client -> JobType \union {NoJob}], chan' \in [Client -> Seq(Frames)],
         \A c \in Client : job[c].st # "submitted" => job'[c] = job[c],
         \A i \in 1..Len(loop'.cmds) : loop'.cmds[i] = "shutdown" =>
           \E k \in 1..Len(loop.cmds) : loop.cmds[k] = "shutdown",
         \A c \in Client : JobOK(c)' /\ HeardOK(c)' /\ ClosedOK(c)'
  PROVE  Honest'
<1>1. Typed /\ ServerOK BY DEF Honest
<1>2. Typed' BY <1>1 DEF Typed
<1>3. ServerOK'
  <2>1. lock.holder # "nobody" => job'[lock.holder] = job[lock.holder]
    BY <1>1 DEF ServerOK, Typed, LockType
  <2>2. ASSUME server.st \in {"starting", "spawning", "loaded"}, NEW c \in Client
        PROVE  job'[c] = NoJob /\ answer[c].st = "none"
    <3>1. job[c] = NoJob /\ answer[c].st = "none" BY <1>1, <2>2 DEF ServerOK
    <3>2. job[c].st # "submitted" BY <3>1 DEF NoJob
    <3> QED BY <3>1, <3>2
  <2> QED BY <1>1, <2>1, <2>2 DEF ServerOK
<1> QED BY <1>2, <1>3 DEF Honest

LEMMA Tails ==
  ASSUME NEW S, NEW s \in Seq(S), s # <<>>
  PROVE  /\ Len(s) \in Nat \ {0} /\ 1 \in 1..Len(s) /\ Head(s) = s[1] /\ Head(s) \in S
         /\ Tail(s) \in Seq(S) /\ Len(Tail(s)) = Len(s) - 1
         /\ \A i \in 1..Len(Tail(s)) : i + 1 \in 1..Len(s) /\ Tail(s)[i] = s[i + 1]
<1>1. Len(s) \in Nat \ {0} BY EmptySeq
<1>2. \A i \in 1..Len(s) : s[i] \in S BY ElementOfSeq
<1>3. /\ Head(s) = s[1] /\ Tail(s) \in Seq(S) /\ Len(Tail(s)) = Len(s) - 1
      /\ \A i \in 1..(Len(s) - 1) : Tail(s)[i] = s[i + 1]
  BY HeadTailProperties
<1> QED BY <1>1, <1>2, <1>3

\* The request whose command is taken is in no other table.
LEMMA CommandFacts ==
  ASSUME Honest, loop.cmds # <<>>, Head(loop.cmds) # "shutdown"
  PROVE  LET c == Head(loop.cmds)
             t == Tail(loop.cmds)
         IN  /\ c \in Client /\ job[c].st = "submitted" /\ job[c].end = "none"
             /\ ~InWaiting(c) /\ ~InSending(c) /\ c \notin loop.running
             /\ t \in Seq(Client \union {"shutdown"})
             /\ \A i \in 1..Len(t) : t[i] # c /\ \E k \in 1..Len(loop.cmds) : loop.cmds[k] = t[i]
             /\ \A i, j \in 1..Len(t) : t[i] = t[j] /\ t[i] \in Client => i = j
<1> DEFINE s == loop.cmds
           c == Head(s)
           t == Tail(s)
<1>1. s \in Seq(Client \union {"shutdown"}) /\ s # <<>> BY DEF Honest, Typed, LoopType
<1>2. CmdsOnce /\ \A d \in Client : PlaceOK(d) BY DEF Honest, LoopOK
<1> HIDE DEF s
<1>3. /\ Len(s) \in Nat \ {0} /\ 1 \in 1..Len(s) /\ c = s[1]
      /\ c \in Client \union {"shutdown"}
      /\ t \in Seq(Client \union {"shutdown"}) /\ Len(t) = Len(s) - 1
      /\ \A i \in 1..Len(t) : i + 1 \in 1..Len(s) /\ t[i] = s[i + 1]
  BY <1>1, Tails
<1>4. c \in Client BY <1>3 DEF s
<1>5. InCmds(c) BY <1>3 DEF InCmds, s
<1>6. /\ job[c].st = "submitted" /\ ~InWaiting(c) /\ ~InSending(c) /\ c \notin loop.running
      /\ job[c].end = "none"
  BY <1>2, <1>4, <1>5 DEF PlaceOK
<1>7. \A i, j \in 1..Len(s) : s[i] = s[j] /\ s[i] \in Client => i = j BY <1>2 DEF CmdsOnce, s
<1>8. \A i \in 1..Len(t) : t[i] # c /\ \E k \in 1..Len(s) : s[k] = t[i]
  <2> TAKE i \in 1..Len(t)
  <2>1. i + 1 # 1 BY <1>3
  <2> QED BY <1>3, <1>4, <1>7, <2>1
<1>9. \A i, j \in 1..Len(t) : t[i] = t[j] /\ t[i] \in Client => i = j
  <2> TAKE i, j \in 1..Len(t)
  <2>1. i \in Int /\ j \in Int /\ i + 1 \in 1..Len(s) /\ j + 1 \in 1..Len(s) BY <1>3
  <2>2. t[i] = s[i + 1] /\ t[j] = s[j + 1] BY <1>3
  <2>3. t[i] = t[j] /\ t[i] \in Client => i + 1 = j + 1 BY <1>7, <2>1, <2>2
  <2> QED BY <2>1, <2>3
<1> QED BY <1>3, <1>4, <1>6, <1>8, <1>9 DEF s

\* A request of the loop whose job moves but is not over: nothing is told.
LEMMA Undecided ==
  ASSUME Honest, NEW c \in Client, job[c].st = "submitted",
         UNCHANGED <<site, server, lock, answer, away>>, chan'[c] = chan[c], loop'.st = loop.st,
         job'[c] \in JobType, job'[c].st = "submitted", job'[c].body = job[c].body,
         job'[c].max = job[c].max, job'[c].made <= job[c].max, job'[c].end # "closed",
         job'[c].end \notin {"panic", "poison", "lost"},
         TokensSent(c)' = TokensSent(c)
  PROVE  JobOK(c)' /\ HeardOK(c)' /\ ClosedOK(c)'
<1>1. Typed /\ JobOK(c) /\ HeardOK(c) /\ site \in Sites BY DEF Honest, Planned
<1>2. /\ job[c] \in JobType /\ site.sched /\ answer[c].st \in {"open", "cut"}
      /\ Ending(c) = <<>>
  BY SubmittedFacts
<1>3. JobPath(c)' BY <1>2 DEF JobPath
<1>4. Len(chan'[c]) <= FrameCap BY <1>1, <1>2 DEF JobOK, JobSeen
<1>5. JobOK(c)' BY <1>1, <1>2, <1>3, <1>4, JobMoves
<1>6. HeardOK(c)'
  <2>1. Ending(c)' = <<>> BY DEF Ending
  <2>2. FramesHeard(answer[c])' = FramesHeard(answer[c]) BY DEF FramesHeard
  <2> QED BY <1>1, <1>2, <2>1, <2>2 DEF HeardOK
<1>7. ClosedOK(c)' BY <1>2 DEF ClosedOK
<1> QED BY <1>5, <1>6, <1>7

LEMMA LoopCommandHonest ==
  ASSUME Honest, Planned', LoopCommand
  PROVE  Honest'
<1> DEFINE c == Head(loop.cmds)
           t == Tail(loop.cmds)
<1>1. /\ loop.st = "running" /\ loop.sending = <<>> /\ loop.batch = {} /\ loop.cmds # <<>>
      /\ UNCHANGED <<site, server, lock, chan, answer, away>>
  BY DEF LoopCommand, LoopRuns
<1>2. /\ Typed /\ LoopOK /\ ServerOK /\ loop \in LoopType
      /\ job \in [Client -> JobType \union {NoJob}] /\ chan \in [Client -> Seq(Frames)]
      /\ \A d \in Client : PlaceOK(d) /\ JobOK(d) /\ HeardOK(d) /\ ClosedOK(d)
      /\ Cardinality(loop.running) <= server.cap
  BY DEF Honest, Typed
<1>3. CASE c = "shutdown"
  <2>1. LoopEnds("stopped") BY <1>3 DEF LoopCommand
  <2>2. \E i \in 1..Len(loop.cmds) : loop.cmds[i] = "shutdown"
    <3>1. loop.cmds \in Seq(Client \union {"shutdown"}) BY <1>2 DEF LoopType
    <3>2. 1 \in 1..Len(loop.cmds) /\ c = loop.cmds[1] BY <1>1, <3>1, Tails
    <3> QED BY <1>3, <3>2
  <2>3. \A d \in Client : answer[d].st # "open" BY <1>2, <2>2 DEF ServerOK
  <2> QED BY <1>1, <2>1, <2>3, LoopEndsHonest
<1>4. CASE c # "shutdown"
  <2>1. /\ c \in Client /\ job[c].st = "submitted" /\ job[c].end = "none"
        /\ ~InWaiting(c) /\ ~InSending(c) /\ c \notin loop.running
        /\ t \in Seq(Client \union {"shutdown"})
        /\ \A i \in 1..Len(t) : t[i] # c /\ \E k \in 1..Len(loop.cmds) : loop.cmds[k] = t[i]
        /\ \A i, j \in 1..Len(t) : t[i] = t[j] /\ t[i] \in Client => i = j
    BY <1>1, <1>4, CommandFacts
  <2>2. /\ job[c] \in JobType /\ site.sched /\ job[c].made <= job[c].max /\ job[c].made \in Nat
    BY <2>1, SubmittedFacts
  <2>3. \A i \in 1..Len(t) : t[i] = "shutdown" => \E k \in 1..Len(loop.cmds) : loop.cmds[k] = "shutdown"
    BY <2>1
  <2>4. CASE job[c].body.prompt = 0
    <3> DEFINE msg == [to |-> c, frame |-> "error"]
    <3>1. /\ loop' = [loop EXCEPT !.cmds = t, !.sending = <<msg>>]
          /\ job' = [job EXCEPT ![c].end = "error"]
      BY <1>4, <2>4 DEF LoopCommand
    <3>2. msg \in SendType /\ msg.to = c /\ msg.frame = "error" BY <2>1 DEF SendType, Frames
    <3> HIDE DEF msg
    <3>3. <<msg>> \in Seq(SendType) /\ Len(<<msg>>) = 1 /\ <<msg>>[1] = msg BY <3>2
    <3> HIDE DEF t
    <3>4. /\ loop' \in LoopType /\ loop'.cmds = t /\ loop'.sending = <<msg>>
          /\ loop'.waiting = loop.waiting /\ loop'.running = loop.running
          /\ loop'.batch = loop.batch /\ loop'.st = loop.st
      BY <1>2, <2>1, <3>1, <3>3 DEF LoopType
    <3>5. /\ job'[c] \in JobType /\ job'[c].st = "submitted" /\ job'[c].end = "error"
          /\ job'[c].body = job[c].body /\ job'[c].max = job[c].max /\ job'[c].made = job[c].made
          /\ \A d \in Client \ {c} : job'[d] = job[d]
          /\ job' \in [Client -> JobType \union {NoJob}]
      BY <1>2, <2>1, <2>2, <3>1 DEF JobType, Ends
    <3>6. LoopOK'
      <4>1. CmdsOnce' BY <2>1, <3>4 DEF CmdsOnce
      <4>2. WaitingOnce' BY <1>2, <3>4 DEF LoopOK, WaitingOnce
      <4>3. SendingOnce' BY <3>3, <3>4 DEF SendingOnce
      <4>4. SendingOK'
        <5>1. "error" = FinishOf("error") BY DEF FinishOf
        <5> QED BY <3>2, <3>3, <3>4, <3>5, <5>1 DEF SendingOK
      <4> QED BY <4>1, <4>2, <4>3, <4>4 DEF LoopOK
    <3>7. ASSUME NEW d \in Client PROVE PlaceOK(d)'
      <4>1. InWaiting(d)' = InWaiting(d) BY <3>4 DEF InWaiting
      <4>2. InSending(d)' <=> d = c BY <3>2, <3>3, <3>4 DEF InSending
      <4>3. CASE d = c
        <5>1. ~InCmds(d)' BY <2>1, <3>4, <4>3 DEF InCmds
        <5> QED BY <1>1, <2>1, <3>4, <3>5, <4>1, <4>2, <4>3, <5>1 DEF PlaceOK
      <4>4. CASE d # c
        <5>1. InCmds(d)' => InCmds(d) BY <2>1, <3>4 DEF InCmds
        <5>2. ~InSending(d) BY <1>1, <1>2 DEF InSending
        <5> QED BY <1>2, <3>4, <3>5, <4>1, <4>2, <4>4, <5>1, <5>2 DEF PlaceOK
      <4> QED BY <4>3, <4>4
    <3>8. \A d \in Client : Pending(d) = FALSE /\ Pending(d)' = FALSE
      BY <1>1, <3>2, <3>3, <3>4 DEF Pending
    <3>9. ASSUME NEW d \in Client PROVE JobOK(d)' /\ HeardOK(d)' /\ ClosedOK(d)'
      <4>1. CASE d = c
        <5>1. TokensSent(d)' = TokensSent(d) BY <1>1, <2>2, <3>5, <3>8, <4>1 DEF TokensSent
        <5>2. job[d].st = "submitted" /\ job'[d].made <= job[d].max BY <2>1, <2>2, <3>5, <4>1
        <5> QED BY <1>1, <3>4, <3>5, <4>1, <5>1, <5>2, Undecided
      <4>2. CASE d # c
        <5>1. job'[d] = job[d] /\ Pending(d)' = Pending(d) BY <3>5, <3>8, <4>2
        <5> QED BY <1>1, <1>2, <3>4, <5>1, ClientKept
      <4> QED BY <4>1, <4>2
    <3>10. \A d \in Client : job[d].st # "submitted" => job'[d] = job[d] BY <2>1, <3>5
    <3> QED BY <1>1, <1>2, <2>3, <3>4, <3>5, <3>6, <3>7, <3>9, <3>10, LoopKeeps
  <2>5. CASE job[c].body.prompt # 0
    <3> DEFINE w == loop.waiting
    <3>1. /\ loop' = [loop EXCEPT !.cmds = t, !.waiting = Append(w, c)]
          /\ job' = job
      BY <1>4, <2>5, <1>2 DEF LoopCommand, LoopType
    <3>2. w \in Seq(Client) BY <1>2 DEF LoopType
    <3> HIDE DEF w
    <3>3. /\ Append(w, c) \in Seq(Client) /\ Len(Append(w, c)) = Len(w) + 1 /\ Len(w) \in Nat
          /\ Append(w, c)[Len(w) + 1] = c /\ \A i \in 1..Len(w) : Append(w, c)[i] = w[i]
      BY <2>1, <3>2, AppendProperties
    <3> HIDE DEF t
    <3>4. /\ loop' \in LoopType /\ loop'.cmds = t /\ loop'.sending = loop.sending
          /\ loop'.waiting = Append(w, c) /\ loop'.running = loop.running
          /\ loop'.batch = loop.batch /\ loop'.st = loop.st
      BY <1>2, <2>1, <3>1, <3>3 DEF LoopType
    <3>5. \A i \in 1..Len(w) : w[i] # c BY <2>1 DEF InWaiting, w
    <3>6. LoopOK'
      <4>1. CmdsOnce' BY <2>1, <3>4 DEF CmdsOnce
      <4>2. WaitingOnce'
        <5>1. \A i, j \in 1..Len(w) : w[i] = w[j] => i = j BY <1>2 DEF LoopOK, WaitingOnce, w
        <5> QED BY <3>3, <3>4, <3>5, <5>1 DEF WaitingOnce
      <4>3. SendingOnce' /\ SendingOK' BY <1>2, <3>1, <3>4 DEF LoopOK, SendingOnce, SendingOK
      <4> QED BY <4>1, <4>2, <4>3 DEF LoopOK
    <3>7. ASSUME NEW d \in Client PROVE PlaceOK(d)'
      <4>1. InSending(d)' = InSending(d) BY <3>4 DEF InSending
      <4>2. CASE d = c
        <5>1. ~InCmds(d)' BY <2>1, <3>4, <4>2 DEF InCmds
        <5> QED BY <1>1, <2>1, <3>1, <3>4, <4>1, <4>2, <5>1 DEF PlaceOK
      <4>3. CASE d # c
        <5>1. InCmds(d)' => InCmds(d) BY <2>1, <3>4 DEF InCmds
        <5>2. InWaiting(d)' <=> InWaiting(d) BY <3>3, <3>4, <4>3 DEF InWaiting, w
        <5> QED BY <1>2, <3>1, <3>4, <4>1, <4>3, <5>1, <5>2 DEF PlaceOK
      <4> QED BY <4>2, <4>3
    <3>8. ASSUME NEW d \in Client PROVE JobOK(d)' /\ HeardOK(d)' /\ ClosedOK(d)'
      <4>1. job'[d] = job[d] /\ Pending(d)' = Pending(d) BY <3>1, <3>4 DEF Pending
      <4> QED BY <1>1, <1>2, <3>4, <4>1, ClientKept
    <3> QED BY <1>1, <1>2, <2>3, <3>1, <3>4, <3>6, <3>7, <3>8, LoopKeeps
  <2> QED BY <2>4, <2>5
<1> QED BY <1>3, <1>4

\* What a sequence holds is no more than its length.
LEMMA RangeIsSmall ==
  ASSUME NEW S, NEW s \in Seq(S)
  PROVE  /\ IsFiniteSet(Range(s)) /\ Cardinality(Range(s)) <= Len(s)
         /\ Range(s) = {s[i] : i \in 1..Len(s)}
<1>1. Range(s) = {s[i] : i \in 1..Len(s)} BY RangeEquality
<1>2. Len(s) \in Nat /\ DOMAIN s = 1..Len(s) /\ s \in [1..Len(s) -> S] OBVIOUS
<1>3. s \in Surjection(1..Len(s), Range(s))
  <2>1. s \in [1..Len(s) -> Range(s)] BY <1>1, <1>2
  <2> QED BY <1>1, <2>1 DEF Surjection
<1>4. IsFiniteSet(1..Len(s)) /\ Cardinality(1..Len(s)) = Len(s) BY <1>2, FS_Interval
<1> QED BY <1>1, <1>3, <1>4, FS_Surjection

\* A step takes in as many requests as there are windows left.
LEMMA LoopStepHonest ==
  ASSUME Honest, Planned', LoopStep
  PROVE  Honest'
<1> DEFINE w == loop.waiting
           free == server.cap - Cardinality(loop.running)
           n == IF free < Len(w) THEN free ELSE Len(w)
           rest == SubSeq(w, n + 1, Len(w))
           taken == SubSeq(w, 1, n)
           now == loop.running \union Range(taken)
<1>1. /\ loop.st = "running" /\ loop.sending = <<>> /\ loop.batch = {}
      /\ loop' = [loop EXCEPT !.waiting = rest, !.running = now, !.batch = now]
      /\ UNCHANGED <<site, server, lock, job, chan, answer, away>>
  <2>1. /\ loop' = [loop EXCEPT !.waiting = SubSeq(@, n + 1, Len(@)), !.running = now, !.batch = now]
        /\ UNCHANGED <<site, server, completions>> /\ LoopRuns
    BY DEF LoopStep
  <2> QED BY <2>1 DEF LoopRuns, completions
<1>2. /\ Typed /\ LoopOK /\ ServerOK /\ loop \in LoopType
      /\ job \in [Client -> JobType \union {NoJob}] /\ chan \in [Client -> Seq(Frames)]
      /\ \A d \in Client : PlaceOK(d) /\ JobOK(d) /\ HeardOK(d) /\ ClosedOK(d)
      /\ Cardinality(loop.running) <= server.cap /\ server.cap \in Nat
  BY DEF Honest, Typed, Planned
<1>3. /\ w \in Seq(Client) /\ Len(w) \in Nat /\ loop.running \in SUBSET Client
      /\ \A i \in 1..Len(w) : w[i] \in Client
  <2>1. w \in Seq(Client) /\ loop.running \in SUBSET Client BY <1>2 DEF LoopType
  <2> HIDE DEF w
  <2> QED BY <2>1, ElementOfSeq
<1>4. IsFiniteSet(loop.running) /\ Cardinality(loop.running) \in Nat
  BY <1>3, ServerAssumption, FS_Subset, FS_CardinalityType
<1>5. n \in Nat /\ n <= Len(w) /\ n <= free /\ free \in Nat
  <2> HIDE DEF w
  <2> QED BY <1>2, <1>3, <1>4
<1> HIDE DEF w, free, n
<1>6. /\ taken \in Seq(Client) /\ Len(taken) = n
      /\ \A i \in 1..n : i \in 1..Len(w) /\ taken[i] = w[i]
  <2>1. \A i \in 1..n : w[i] \in Client BY <1>3, <1>5
  <2>2. /\ taken \in Seq(Client) /\ Len(taken) = IF 1 <= n THEN n - 1 + 1 ELSE 0
        /\ \A i \in 1..(n - 1 + 1) : taken[i] = w[1 + i - 1]
    BY <1>5, <2>1, SubSeqProperties
  <2>3. \A i \in 1..n : i \in 1..(n - 1 + 1) /\ 1 + i - 1 = i BY <1>5
  <2>4. \A i \in 1..n : i \in 1..Len(w) BY <1>3, <1>5
  <2> QED BY <1>5, <2>2, <2>3, <2>4
<1>7. /\ rest \in Seq(Client) /\ Len(rest) = Len(w) - n
      /\ \A i \in 1..Len(rest) : n + i \in 1..Len(w) /\ rest[i] = w[n + i]
  <2>1. \A i \in (n + 1)..Len(w) : w[i] \in Client BY <1>3, <1>5
  <2>2. /\ rest \in Seq(Client)
        /\ Len(rest) = IF n + 1 <= Len(w) THEN Len(w) - (n + 1) + 1 ELSE 0
        /\ \A i \in 1..(Len(w) - (n + 1) + 1) : rest[i] = w[n + 1 + i - 1]
    BY <1>3, <1>5, <2>1, SubSeqProperties
  <2>3. Len(rest) = Len(w) - n BY <1>3, <1>5, <2>2
  <2>4. \A i \in 1..(Len(w) - n) : i \in 1..(Len(w) - (n + 1) + 1) /\ n + 1 + i - 1 = n + i
                                   /\ n + i \in 1..Len(w)
    BY <1>3, <1>5
  <2> QED BY <2>2, <2>3, <2>4
<1> HIDE DEF rest, taken
<1>8. /\ IsFiniteSet(Range(taken)) /\ Cardinality(Range(taken)) <= n
      /\ Range(taken) = {taken[i] : i \in 1..n} /\ Cardinality(Range(taken)) \in Nat
  BY <1>6, RangeIsSmall, FS_CardinalityType
<1>9. now \in SUBSET Client /\ Cardinality(now) <= server.cap
  <2>1. now \in SUBSET Client BY <1>3, <1>6, <1>8
  <2> DEFINE both == loop.running \intersect Range(taken)
             r == Range(taken)
             k == Cardinality(loop.running)
             m == Cardinality(r)
  <2>2. Cardinality(both) \in Nat
    BY <1>4, FS_Subset, FS_CardinalityType
  <2>3. Cardinality(now) = k + m - Cardinality(both)
    BY <1>4, <1>8, FS_Union
  <2>4. k \in Nat /\ m \in Nat /\ m <= n /\ n <= server.cap - k BY <1>4, <1>5, <1>8 DEF free
  <2> HIDE DEF now, both, k, m, r
  <2>5. Cardinality(now) <= server.cap BY <1>2, <1>5, <2>2, <2>3, <2>4
  <2> QED BY <2>1, <2>5 DEF now
<1>10. ASSUME NEW d \in Client
       PROVE  /\ d \in Range(taken) <=> \E i \in 1..n : w[i] = d
              /\ InWaiting(d)' <=> \E i \in (n + 1)..Len(w) : w[i] = d
              /\ InWaiting(d) <=> \E i \in 1..Len(w) : w[i] = d
  <2>1. d \in Range(taken) <=> \E i \in 1..n : w[i] = d BY <1>6, <1>8
  <2>2. InWaiting(d)' <=> \E i \in 1..Len(rest) : rest[i] = d BY <1>1, <1>2 DEF InWaiting, LoopType
  <2>3. ASSUME NEW i \in (n + 1)..Len(w), w[i] = d PROVE \E k \in 1..Len(rest) : rest[k] = d
    <3>1. i - n \in 1..Len(rest) /\ n + (i - n) = i BY <1>3, <1>5, <1>7
    <3> QED BY <1>7, <2>3, <3>1
  <2>4. ASSUME NEW i \in 1..Len(rest), rest[i] = d PROVE \E k \in (n + 1)..Len(w) : w[k] = d
    <3>1. n + i \in (n + 1)..Len(w) BY <1>3, <1>5, <1>7
    <3> QED BY <1>7, <2>4, <3>1
  <2>5. InWaiting(d) <=> \E i \in 1..Len(w) : w[i] = d BY DEF InWaiting, w
  <2> QED BY <2>1, <2>2, <2>3, <2>4, <2>5
<1> HIDE DEF now
<1>11. /\ loop' \in LoopType /\ loop'.cmds = loop.cmds /\ loop'.sending = loop.sending
       /\ loop'.waiting = rest /\ loop'.running = now /\ loop'.batch = now /\ loop'.st = loop.st
  BY <1>1, <1>2, <1>7, <1>9 DEF LoopType
<1>12. \A i, j \in 1..Len(w) : w[i] = w[j] => i = j BY <1>2 DEF LoopOK, WaitingOnce, w
<1>13. LoopOK'
  <2>1. CmdsOnce' /\ SendingOnce' /\ SendingOK'
    BY <1>1, <1>2, <1>11 DEF LoopOK, CmdsOnce, SendingOnce, SendingOK
  <2>2. WaitingOnce'
    <3> SUFFICES ASSUME NEW i \in 1..Len(rest), NEW j \in 1..Len(rest), rest[i] = rest[j]
                 PROVE  i = j
      BY <1>11 DEF WaitingOnce
    <3>1. n + i = n + j BY <1>7, <1>12
    <3> QED BY <1>5, <1>7, <3>1
  <2> QED BY <2>1, <2>2 DEF LoopOK
<1>14. ASSUME NEW d \in Client PROVE PlaceOK(d)'
  <2>1. /\ InCmds(d)' = InCmds(d) /\ InSending(d)' = InSending(d) /\ job'[d] = job[d]
    BY <1>1, <1>11 DEF InCmds, InSending
  <2>2. ~InSending(d)
    <3>1. \A i \in 1..Len(loop.sending) : FALSE BY <1>1
    <3> QED BY <3>1 DEF InSending
  <2>3. ASSUME InWaiting(d)' PROVE InWaiting(d) /\ d \notin Range(taken)
    <3>1. PICK i \in (n + 1)..Len(w) : w[i] = d BY <1>10, <2>3
    <3>2. i \in 1..Len(w) /\ i > n BY <1>3, <1>5
    <3>3. \A j \in 1..n : w[j] # d
      <4> TAKE j \in 1..n
      <4>1. j \in 1..Len(w) /\ i # j BY <1>3, <1>5, <3>2
      <4> QED BY <1>12, <3>1, <3>2, <4>1
    <3> QED BY <1>10, <3>1, <3>2, <3>3
  <2>4. d \in Range(taken) => InWaiting(d)
    BY <1>3, <1>5, <1>10
  <2>5. d \in now <=> d \in loop.running \/ d \in Range(taken) BY DEF now
  <2> QED BY <1>2, <1>11, <2>1, <2>2, <2>3, <2>4, <2>5 DEF PlaceOK
<1>15. ASSUME NEW d \in Client PROVE JobOK(d)' /\ HeardOK(d)' /\ ClosedOK(d)'
  <2>1. job'[d] = job[d] /\ Pending(d)' = Pending(d) BY <1>1, <1>11 DEF Pending
  <2> QED BY <1>1, <1>2, <1>11, <2>1, ClientKept
<1> QED BY <1>1, <1>2, <1>9, <1>11, <1>13, <1>14, <1>15, LoopKeeps

\* The loop samples a token of one request of the batch, or finds how it ends.
LEMMA DecodedHonest ==
  ASSUME Honest, Planned', NEW c \in Client, NEW frame \in Frames, Sends(c, frame),
         c \in loop.batch, loop.sending = <<>>, UNCHANGED <<site, server, lock, chan, answer, away>>,
         job' \in [Client -> JobType \union {NoJob}],
         \A d \in Client \ {c} : job'[d] = job[d],
         job'[c] \in JobType, job'[c].st = "submitted", job'[c].body = job[c].body,
         job'[c].max = job[c].max, job'[c].made <= job[c].max,
         IF frame = "token" THEN job'[c].made = job[c].made + 1 /\ job'[c].end = "none"
         ELSE /\ job'[c].made = job[c].made /\ frame = FinishOf(job'[c].end)
              /\ job'[c].end \in {"eos", "stop", "length", "error"}
  PROVE  Honest'
<1> DEFINE msg == [to |-> c, frame |-> frame]
<1>1. loop' = [loop EXCEPT !.batch = loop.batch \ {c}, !.sending = <<msg>>]
  <2>1. loop' = [loop EXCEPT !.batch = @ \ {c}, !.sending = <<msg>>] BY DEF Sends
  <2> QED BY <2>1
<1>2. /\ Typed /\ LoopOK /\ ServerOK /\ loop \in LoopType
      /\ \A d \in Client : PlaceOK(d) /\ JobOK(d) /\ HeardOK(d) /\ ClosedOK(d)
      /\ Cardinality(loop.running) <= server.cap
      /\ chan' \in [Client -> Seq(Frames)]
  BY DEF Honest, Typed
<1>3. msg \in SendType /\ msg.to = c /\ msg.frame = frame BY DEF SendType
<1> HIDE DEF msg
<1>4. <<msg>> \in Seq(SendType) /\ Len(<<msg>>) = 1 /\ <<msg>>[1] = msg BY <1>3
<1>5. /\ loop' \in LoopType /\ loop'.cmds = loop.cmds /\ loop'.sending = <<msg>>
      /\ loop'.waiting = loop.waiting /\ loop'.running = loop.running
      /\ loop'.batch = loop.batch \ {c} /\ loop'.st = loop.st
  BY <1>1, <1>2, <1>4 DEF LoopType
<1>6. \A d \in Client : ~InSending(d)
  <2>1. \A i \in 1..Len(loop.sending) : FALSE OBVIOUS
  <2> QED BY <2>1 DEF InSending
<1>7. /\ job[c].st = "submitted" /\ job[c].end = "none" /\ c \in loop.running
      /\ ~InCmds(c) /\ ~InWaiting(c)
  BY <1>2, <1>6 DEF PlaceOK
<1>8. LoopOK'
  <2>1. CmdsOnce' BY <1>2, <1>5 DEF LoopOK, CmdsOnce
  <2>2. WaitingOnce' BY <1>2, <1>5 DEF LoopOK, WaitingOnce
  <2>3. SendingOnce' BY <1>4, <1>5 DEF SendingOnce
  <2>4. SendingOK' BY <1>3, <1>4, <1>5 DEF SendingOK
  <2> QED BY <2>1, <2>2, <2>3, <2>4 DEF LoopOK
<1>9. ASSUME NEW d \in Client PROVE PlaceOK(d)'
  <2>1. InWaiting(d)' = InWaiting(d) /\ InCmds(d)' = InCmds(d) BY <1>5 DEF InWaiting, InCmds
  <2>2. InSending(d)' <=> d = c BY <1>3, <1>4, <1>5 DEF InSending
  <2>3. CASE d = c BY <1>2, <1>5, <1>7, <2>1, <2>2, <2>3 DEF PlaceOK
  <2>4. CASE d # c BY <1>2, <1>5, <1>6, <2>1, <2>2, <2>4 DEF PlaceOK
  <2> QED BY <2>3, <2>4
<1>10. ASSUME NEW d \in Client PROVE JobOK(d)' /\ HeardOK(d)' /\ ClosedOK(d)'
  <2>1. Pending(d) = FALSE BY DEF Pending
  <2>2. Pending(d)' = (d = c /\ frame = "token") BY <1>3, <1>4, <1>5 DEF Pending
  <2>3. CASE d = c
    <3>1. job[c].made \in Nat /\ job[c].made <= job[c].max /\ site.sched BY <1>7, SubmittedFacts
    <3>2. TokensSent(c)' = TokensSent(c)
      <4>1. TokensSent(c) = job[c].made BY <2>1, <2>3, <3>1 DEF TokensSent
      <4>2. CASE frame = "token"
        <5>1. Pending(c)' = TRUE BY <2>2, <2>3, <4>2
        <5>2. TokensSent(c)' = job'[c].made - 1 BY <3>1, <5>1 DEF TokensSent
        <5> QED BY <3>1, <4>1, <4>2, <5>2
      <4>3. CASE frame # "token"
        <5>1. Pending(c)' = FALSE BY <2>2, <4>3, <2>3
        <5>2. TokensSent(c)' = job'[c].made BY <3>1, <5>1 DEF TokensSent
        <5> QED BY <4>1, <4>3, <5>2
      <4> QED BY <4>2, <4>3
    <3> QED BY <1>5, <1>7, <2>3, <3>2, Undecided
  <2>4. CASE d # c
    <3>1. Pending(d)' = Pending(d) BY <2>1, <2>2, <2>4
    <3> QED BY <1>2, <1>5, <2>4, <3>1, ClientKept
  <2> QED BY <2>3, <2>4
<1>11. \A d \in Client : job[d].st # "submitted" => job'[d] = job[d] BY <1>7
<1> QED BY <1>2, <1>5, <1>8, <1>9, <1>10, <1>11, LoopKeeps

LEMMA DecodeHonest ==
  ASSUME Honest, Planned', NEW c \in Client, Decode(c)
  PROVE  Honest'
<1>1. /\ loop.st = "running" /\ loop.sending = <<>> /\ c \in loop.batch
      /\ UNCHANGED <<site, server, lock, chan, answer, away>>
  BY DEF Decode
<1>2. Typed /\ PlaceOK(c) /\ job \in [Client -> JobType \union {NoJob}] BY DEF Honest, Typed
<1>3. job[c].st = "submitted" /\ job[c].end = "none"
  <2>1. ~InSending(c)
    <3>1. \A i \in 1..Len(loop.sending) : FALSE BY <1>1
    <3> QED BY <3>1 DEF InSending
  <2> QED BY <1>1, <1>2, <2>1 DEF PlaceOK
<1>4. /\ job[c] \in JobType /\ job[c].made \in Nat /\ job[c].max \in Nat
      /\ job[c].made <= job[c].max
  BY <1>3, SubmittedFacts
<1>5. PICK kind \in {"token", "error", "eos", "stop", "panic"} :
        CASE kind = "panic" -> /\ job[c].made < job[c].max /\ LoopEnds("died")
          [] kind = "token" /\ job[c].made < job[c].max ->
               Sends(c, "token") /\ job' = [job EXCEPT ![c].made = job[c].made + 1]
          [] kind = "token" /\ job[c].made >= job[c].max ->
               Sends(c, "length") /\ job' = [job EXCEPT ![c].end = "length"]
          [] OTHER -> Sends(c, FinishOf(kind)) /\ job' = [job EXCEPT ![c].end = kind]
  <2>1. \A kind \in Kinds(job[c].body) : kind \in {"token", "error", "eos", "stop", "panic"}
    BY DEF Kinds
  <2> QED BY <1>2, <2>1 DEF Decode
<1>6. CASE kind = "panic"
  <2>1. LoopEnds("died") BY <1>5, <1>6
  <2> QED BY <1>1, <2>1, LoopEndsHonest
<1>7. CASE kind = "token" /\ job[c].made < job[c].max
  <2>1. Sends(c, "token") /\ job' = [job EXCEPT ![c].made = job[c].made + 1]
    BY <1>4, <1>5, <1>7
  <2>2. /\ job'[c] \in JobType /\ job'[c].st = "submitted" /\ job'[c].body = job[c].body
        /\ job'[c].max = job[c].max /\ job'[c].made = job[c].made + 1 /\ job'[c].end = "none"
        /\ job' \in [Client -> JobType \union {NoJob}]
        /\ \A d \in Client \ {c} : job'[d] = job[d]
    BY <1>2, <1>3, <1>4, <2>1 DEF JobType
  <2>3. job'[c].made <= job[c].max BY <1>4, <1>7, <2>2
  <2>4. "token" \in Frames BY DEF Frames
  <2> QED BY <1>1, <2>1, <2>2, <2>3, <2>4, DecodedHonest
<1>8. ASSUME NEW end \in {"eos", "stop", "length", "error"}, Sends(c, FinishOf(end)),
             job' = [job EXCEPT ![c].end = end]
      PROVE  Honest'
  <2> DEFINE f == FinishOf(end)
  <2>1. f \in Frames /\ f # "token" BY DEF Frames, FinishOf
  <2>2. /\ job'[c] \in JobType /\ job'[c].st = "submitted" /\ job'[c].body = job[c].body
        /\ job'[c].max = job[c].max /\ job'[c].made = job[c].made /\ job'[c].end = end
        /\ job' \in [Client -> JobType \union {NoJob}]
        /\ \A d \in Client \ {c} : job'[d] = job[d]
    BY <1>2, <1>3, <1>4, <1>8 DEF JobType, Ends
  <2>3. f = FinishOf(job'[c].end) /\ Sends(c, f) BY <1>8, <2>2
  <2> HIDE DEF f
  <2> QED BY <1>1, <1>4, <2>1, <2>2, <2>3, DecodedHonest
<1>9. CASE kind = "token" /\ ~(job[c].made < job[c].max)
  <2>1. job[c].made >= job[c].max BY <1>4, <1>9
  <2>2. Sends(c, "length") /\ job' = [job EXCEPT ![c].end = "length"] BY <1>5, <1>9, <2>1
  <2>3. "length" = FinishOf("length") BY DEF FinishOf
  <2> QED BY <1>8, <2>2, <2>3
<1>10. CASE kind \notin {"token", "panic"}
  <2>1. Sends(c, FinishOf(kind)) /\ job' = [job EXCEPT ![c].end = kind] BY <1>5, <1>10
  <2> QED BY <1>5, <1>8, <1>10, <2>1
<1> QED BY <1>6, <1>7, <1>9, <1>10

\* A sequence made of a set has each element once.
LEMMA SetToSeqFacts ==
  ASSUME NEW S, IsFiniteSet(S)
  PROVE  /\ SetToSeq(S) \in [1..Cardinality(S) -> S] /\ Cardinality(S) \in Nat
         /\ \A i, j \in 1..Cardinality(S) : SetToSeq(S)[i] = SetToSeq(S)[j] => i = j
         /\ \A x \in S : \E i \in 1..Cardinality(S) : SetToSeq(S)[i] = x
<1> DEFINE n == Cardinality(S)
           f == SetToSeq(S)
<1>1. n \in Nat /\ ExistsBijection(1..n, S) BY FS_CardinalityType
<1>2. PICK g \in [1..n -> S] : IsInjective(g)
  BY <1>1 DEF ExistsBijection, Bijection, Injection, IsInjective
<1>3. f \in [1..n -> S] /\ IsInjective(f) BY <1>2 DEF SetToSeq
<1> HIDE DEF f, n
<1>4. \A i, j \in 1..n : f[i] = f[j] => i = j BY <1>3 DEF IsInjective
<1> DEFINE T == {f[i] : i \in 1..n}
<1>5. f \in Surjection(1..n, T) /\ f \in Injection(1..n, T)
  <2>1. f \in [1..n -> T] BY <1>3
  <2> QED BY <1>3, <1>4, <2>1 DEF Surjection, Injection, IsInjective
<1>6. IsFiniteSet(1..n) /\ Cardinality(1..n) = n BY <1>1, FS_Interval
<1>7. Cardinality(T) = n BY <1>5, <1>6, FS_Surjection
<1>8. T = S
  <2>1. T \in SUBSET S BY <1>3
  <2> HIDE DEF T
  <2> QED BY <1>7, <2>1, FS_Subset DEF n
<1>9. \A x \in S : \E i \in 1..n : f[i] = x BY <1>8
<1> QED BY <1>1, <1>3, <1>4, <1>9 DEF f, n

\* The engine refuses the batch: each of its requests has its error on the way.
LEMMA BatchFailsHonest ==
  ASSUME Honest, Planned', BatchFails
  PROVE  Honest'
<1> DEFINE M == {[to |-> c, frame |-> "error"] : c \in loop.batch}
           s == SetToSeq(M)
           n == Cardinality(M)
<1>1. /\ loop.st = "running" /\ loop.sending = <<>> /\ loop.batch # {} /\ loop.batch = loop.running
      /\ loop' = [loop EXCEPT !.batch = {}, !.sending = s]
      /\ job' = [c \in Client |-> IF c \in loop.batch THEN [job[c] EXCEPT !.end = "error"] ELSE job[c]]
      /\ UNCHANGED <<site, server, lock, chan, answer, away>>
  BY DEF BatchFails
<1>2. /\ Typed /\ LoopOK /\ ServerOK /\ loop \in LoopType
      /\ job \in [Client -> JobType \union {NoJob}] /\ chan \in [Client -> Seq(Frames)]
      /\ \A d \in Client : PlaceOK(d) /\ JobOK(d) /\ HeardOK(d) /\ ClosedOK(d)
      /\ Cardinality(loop.running) <= server.cap
  BY DEF Honest, Typed
<1>3. loop.batch \in SUBSET Client BY <1>2 DEF LoopType
<1>4. \A m \in M : m \in SendType /\ m.to \in loop.batch /\ m.frame = "error" /\ m = [to |-> m.to, frame |-> "error"]
  BY <1>3 DEF SendType, Frames
<1>5. IsFiniteSet(M)
  <2> DEFINE g == [c \in loop.batch |-> [to |-> c, frame |-> "error"]]
  <2>1. IsFiniteSet(loop.batch) BY <1>3, ServerAssumption, FS_Subset
  <2>2. g \in Surjection(loop.batch, M) BY DEF Surjection
  <2> HIDE DEF g, M
  <2> QED BY <2>1, <2>2, FS_Surjection
<1>6. \A d \in loop.batch : \E m \in M : m.to = d
  <2> TAKE d \in loop.batch
  <2>1. [to |-> d, frame |-> "error"] \in M OBVIOUS
  <2> QED BY <2>1
<1> HIDE DEF M
<1>7. /\ s \in [1..n -> M] /\ n \in Nat
      /\ \A i, j \in 1..n : s[i] = s[j] => i = j
      /\ \A x \in M : \E i \in 1..n : s[i] = x
  BY <1>5, SetToSeqFacts
<1> HIDE DEF s, n
<1>8. /\ s \in Seq(SendType) /\ Len(s) = n
      /\ \A i \in 1..n : s[i].to \in loop.batch /\ s[i].frame = "error"
      /\ \A i, j \in 1..n : s[i].to = s[j].to => i = j
      /\ \A d \in loop.batch : \E i \in 1..n : s[i].to = d
  <2>1. s \in [1..n -> SendType] BY <1>4, <1>7
  <2>2. s \in Seq(SendType) /\ Len(s) = n BY <1>7, <2>1
  <2> QED BY <1>4, <1>6, <1>7, <2>2
<1>9. /\ loop' \in LoopType /\ loop'.cmds = loop.cmds /\ loop'.sending = s
      /\ loop'.waiting = loop.waiting /\ loop'.running = loop.running
      /\ loop'.batch = {} /\ loop'.st = loop.st
  BY <1>1, <1>2, <1>8 DEF LoopType
<1>10. ASSUME NEW d \in Client
       PROVE  /\ d \notin loop.batch => job'[d] = job[d]
              /\ d \in loop.batch =>
                   /\ job[d].st = "submitted" /\ job'[d] \in JobType /\ job'[d].st = "submitted"
                   /\ job'[d].end = "error" /\ job'[d].body = job[d].body
                   /\ job'[d].max = job[d].max /\ job'[d].made = job[d].made
  <2>1. job'[d] = IF d \in loop.batch THEN [job[d] EXCEPT !.end = "error"] ELSE job[d] BY <1>1
  <2>2. CASE d \in loop.batch
    <3>1. job[d].st = "submitted" BY <1>1, <1>2, <2>2 DEF PlaceOK
    <3>2. job[d] \in JobType BY <3>1, SubmittedFacts
    <3> QED BY <2>1, <2>2, <3>1, <3>2 DEF JobType, Ends
  <2> QED BY <2>1, <2>2
<1>11. job' \in [Client -> JobType \union {NoJob}]
  <2>1. \A d \in Client : job'[d] \in JobType \union {NoJob} BY <1>2, <1>10
  <2> QED BY <1>1, <2>1
<1>12. \A d \in Client : ~InSending(d)
  <2>1. \A i \in 1..Len(loop.sending) : FALSE BY <1>1
  <2> QED BY <2>1 DEF InSending
<1>13. LoopOK'
  <2>1. CmdsOnce' BY <1>2, <1>9 DEF LoopOK, CmdsOnce
  <2>2. WaitingOnce' BY <1>2, <1>9 DEF LoopOK, WaitingOnce
  <2>3. SendingOnce' BY <1>8, <1>9 DEF SendingOnce
  <2>4. SendingOK'
    <3> SUFFICES ASSUME NEW i \in 1..n
                 PROVE  /\ s[i].frame = "error" /\ job'[s[i].to].end = "error"
                        /\ "error" = FinishOf("error")
      BY <1>8, <1>9 DEF SendingOK
    <3> QED BY <1>3, <1>8, <1>10 DEF FinishOf
  <2> QED BY <2>1, <2>2, <2>3, <2>4 DEF LoopOK
<1>14. ASSUME NEW d \in Client PROVE PlaceOK(d)'
  <2>1. InWaiting(d)' = InWaiting(d) /\ InCmds(d)' = InCmds(d) BY <1>9 DEF InWaiting, InCmds
  <2>2. InSending(d)' <=> d \in loop.batch
    <3>1. InSending(d)' <=> \E i \in 1..n : s[i].to = d
      <4>1. loop'.sending = s /\ Len(s) = n BY <1>8, <1>9
      <4> QED BY <4>1 DEF InSending
    <3>2. (\E i \in 1..n : s[i].to = d) => d \in loop.batch BY <1>8
    <3>3. d \in loop.batch => \E i \in 1..n : s[i].to = d BY <1>8
    <3> QED BY <3>1, <3>2, <3>3
  <2>3. PlaceOK(d) BY <1>2
  <2> QED BY <1>1, <1>9, <1>10, <1>12, <2>1, <2>2, <2>3 DEF PlaceOK
<1>15. ASSUME NEW d \in Client PROVE JobOK(d)' /\ HeardOK(d)' /\ ClosedOK(d)'
  <2>1. Pending(d) = FALSE /\ Pending(d)' = FALSE
    <3>1. Pending(d) = FALSE BY <1>1 DEF Pending
    <3>2. s # <<>> => 1 \in 1..n BY <1>8, EmptySeq
    <3>3. s # <<>> => s[1].frame = "error" BY <1>8, <3>2
    <3> QED BY <1>9, <3>1, <3>3 DEF Pending
  <2>2. CASE d \in loop.batch
    <3>1. job[d].made \in Nat /\ job[d].made <= job[d].max /\ job[d].st = "submitted"
      BY <1>10, <2>2, SubmittedFacts
    <3>2. TokensSent(d)' = TokensSent(d) BY <1>1, <1>10, <2>1, <2>2 DEF TokensSent
    <3> QED BY <1>1, <1>9, <1>10, <2>2, <3>1, <3>2, Undecided
  <2>3. CASE d \notin loop.batch BY <1>1, <1>2, <1>9, <1>10, <2>1, <2>3, ClientKept, ZenonT(30)
  <2> QED BY <2>2, <2>3
<1>16. \A d \in Client : job[d].st # "submitted" => job'[d] = job[d] BY <1>10
<1> QED BY <1>1, <1>2, <1>9, <1>11, <1>13, <1>14, <1>15, <1>16, LoopKeeps

\* The frame that is sent next: whose it is, and what is left to send.
SendingSplit(c, frame, t) ==
  /\ c \in Client /\ frame \in Frames /\ t \in Seq(SendType)
  /\ job[c].st = "submitted" /\ ~InCmds(c) /\ ~InWaiting(c) /\ c \notin loop.batch
  /\ IF frame = "token" THEN t = <<>> /\ job[c].end = "none"
     ELSE job[c].end \in {"eos", "stop", "length", "error"} /\ frame = FinishOf(job[c].end)
  /\ \A i \in 1..Len(t) : /\ i + 1 \in 1..Len(loop.sending) /\ t[i] = loop.sending[i + 1]
                          /\ t[i].to \in Client \ {c} /\ t[i].frame # "token"
                          /\ job[t[i].to].end \in {"eos", "stop", "length", "error"}
                          /\ t[i].frame = FinishOf(job[t[i].to].end)
  /\ \A i, j \in 1..Len(t) : t[i].to = t[j].to => i = j
  /\ \A d \in Client : d # c /\ InSending(d) => \E i \in 1..Len(t) : t[i].to = d
  /\ Pending(c) = (frame = "token") /\ \A d \in Client \ {c} : Pending(d) = FALSE

LEMMA SendingFacts ==
  ASSUME Honest, loop.sending # <<>>, NEW c, c = Head(loop.sending).to,
         NEW frame, frame = Head(loop.sending).frame, NEW t, t = Tail(loop.sending)
  PROVE  SendingSplit(c, frame, t)
<1> DEFINE s == loop.sending
<1>1. /\ s \in Seq(SendType) /\ s # <<>> /\ \A d \in Client : PlaceOK(d)
      /\ SendingOnce /\ SendingOK
  BY DEF Honest, Typed, LoopType, LoopOK
<1>a. \A i, j \in 1..Len(s) : s[i].to = s[j].to => i = j BY <1>1 DEF SendingOnce
<1>b. \A i \in 1..Len(s) :
        IF s[i].frame = "token" THEN Len(s) = 1 /\ job[s[i].to].end = "none"
        ELSE job[s[i].to].end \in {"eos", "stop", "length", "error"}
             /\ s[i].frame = FinishOf(job[s[i].to].end)
  BY <1>1 DEF SendingOK
<1> HIDE DEF s
<1>2. /\ Len(s) \in Nat \ {0} /\ 1 \in 1..Len(s) /\ Head(s) = s[1] /\ Head(s) \in SendType
      /\ t \in Seq(SendType) /\ Len(t) = Len(s) - 1
      /\ \A i \in 1..Len(t) : i + 1 \in 1..Len(s) /\ t[i] = s[i + 1]
  BY <1>1, Tails DEF s
<1>3. c = s[1].to /\ frame = s[1].frame /\ c \in Client /\ frame \in Frames
  BY <1>2 DEF s, SendType
<1>4. \A i \in 1..Len(s) : s[i] \in SendType BY <1>1, ElementOfSeq
<1>5. InSending(c) BY <1>2, <1>3 DEF InSending, s
<1>6. job[c].st = "submitted" /\ ~InCmds(c) /\ ~InWaiting(c) /\ c \notin loop.batch
  BY <1>1, <1>3, <1>5 DEF PlaceOK
<1>7. IF frame = "token" THEN t = <<>> /\ job[c].end = "none"
      ELSE job[c].end \in {"eos", "stop", "length", "error"} /\ frame = FinishOf(job[c].end)
  <2>1. frame = "token" => Len(s) = 1 BY <1>2, <1>3, <1>b
  <2>2. Len(s) = 1 => t = <<>> BY <1>2, EmptySeq
  <2> QED BY <1>2, <1>3, <1>b, <2>1, <2>2
<1>8. ASSUME NEW i \in 1..Len(t)
      PROVE  /\ i + 1 \in 1..Len(s) /\ t[i] = s[i + 1]
             /\ t[i].to \in Client \ {c} /\ t[i].frame # "token"
             /\ job[t[i].to].end \in {"eos", "stop", "length", "error"}
             /\ t[i].frame = FinishOf(job[t[i].to].end)
  <2>1. i + 1 \in 1..Len(s) /\ t[i] = s[i + 1] BY <1>2
  <2>2. s[i + 1].to \in Client BY <1>4, <2>1 DEF SendType
  <2>3. i + 1 # 1 BY <1>2
  <2>4. s[i + 1].to # c BY <1>2, <1>3, <1>a, <2>1, <2>3
  <2>5. Len(s) # 1 BY <1>2, <2>1, <2>3
  <2> QED BY <1>b, <2>1, <2>2, <2>4, <2>5
<1>9. \A i, j \in 1..Len(t) : t[i].to = t[j].to => i = j
  <2> SUFFICES ASSUME NEW i \in 1..Len(t), NEW j \in 1..Len(t), t[i].to = t[j].to PROVE i = j
    OBVIOUS
  <2>1. i + 1 = j + 1 BY <1>8, <1>a
  <2> QED BY <1>2, <2>1
<1>10. ASSUME NEW d \in Client, d # c, InSending(d) PROVE \E i \in 1..Len(t) : t[i].to = d
  <2>1. PICK k \in 1..Len(s) : s[k].to = d BY <1>10 DEF InSending, s
  <2>2. k # 1 BY <1>3, <1>10, <2>1
  <2>3. k - 1 \in 1..Len(t) /\ (k - 1) + 1 = k BY <1>2, <2>2
  <2> QED BY <1>2, <2>1, <2>3
<1>11. Pending(c) = (frame = "token") /\ \A d \in Client \ {c} : Pending(d) = FALSE
  BY <1>1, <1>3 DEF Pending, s
<1> QED BY <1>2, <1>3, <1>6, <1>7, <1>8, <1>9, <1>10, <1>11 DEF s, SendingSplit

\* A frame leaves the loop: its request stays what it is, or leaves the tables and is over.
LEMMA SendKeeps ==
  ASSUME Honest, Planned', loop.sending # <<>>, NEW c, c = Head(loop.sending).to,
         UNCHANGED <<site, server, lock, answer, away>>,
         loop'.st = loop.st, loop'.cmds = loop.cmds, loop'.waiting = loop.waiting,
         loop'.sending = Tail(loop.sending), loop' \in LoopType,
         job' \in [Client -> JobType \union {NoJob}], chan' \in [Client -> Seq(Frames)],
         \A d \in Client \ {c} : job'[d] = job[d] /\ chan'[d] = chan[d],
         \/ /\ loop'.running = loop.running /\ loop'.batch = loop.batch
            /\ job'[c] = job[c] /\ job[c].end = "none"
         \/ /\ loop'.running = loop.running \ {c} /\ loop'.batch = loop.batch \ {c}
            /\ job'[c].st = "over",
         Pending(c)' = FALSE => JobOK(c)' /\ HeardOK(c)' /\ ClosedOK(c)'
  PROVE  Honest'
<1> DEFINE t == Tail(loop.sending)
           frame == Head(loop.sending).frame
<1>0. t = Tail(loop.sending) /\ frame = Head(loop.sending).frame OBVIOUS
<1> HIDE DEF t, frame
<1>a. SendingSplit(c, frame, t) BY <1>0, SendingFacts
<1>1. /\ c \in Client /\ frame \in Frames /\ t \in Seq(SendType)
      /\ job[c].st = "submitted" /\ ~InCmds(c) /\ ~InWaiting(c) /\ c \notin loop.batch
      /\ \A i \in 1..Len(t) : /\ i + 1 \in 1..Len(loop.sending) /\ t[i] = loop.sending[i + 1]
                              /\ t[i].to \in Client \ {c} /\ t[i].frame # "token"
                              /\ job[t[i].to].end \in {"eos", "stop", "length", "error"}
                              /\ t[i].frame = FinishOf(job[t[i].to].end)
      /\ \A i, j \in 1..Len(t) : t[i].to = t[j].to => i = j
      /\ \A d \in Client : d # c /\ InSending(d) => \E i \in 1..Len(t) : t[i].to = d
      /\ \A d \in Client \ {c} : Pending(d) = FALSE
  BY <1>a DEF SendingSplit
<1>2. /\ LoopOK /\ loop \in LoopType
      /\ \A d \in Client : PlaceOK(d) /\ JobOK(d) /\ HeardOK(d) /\ ClosedOK(d)
      /\ Cardinality(loop.running) <= server.cap /\ server.cap \in Nat
  BY DEF Honest, Typed, Planned
<1>3. loop'.sending = t BY <1>0
<1>4. LoopOK'
  <2>1. CmdsOnce' /\ WaitingOnce' BY <1>2 DEF LoopOK, CmdsOnce, WaitingOnce
  <2>2. SendingOnce' BY <1>1, <1>3 DEF SendingOnce
  <2>3. SendingOK'
    <3>1. \A i \in 1..Len(t) : job'[t[i].to] = job[t[i].to] BY <1>1
    <3> SUFFICES ASSUME NEW i \in 1..Len(t)
                 PROVE  /\ t[i].frame # "token"
                        /\ job'[t[i].to].end \in {"eos", "stop", "length", "error"}
                        /\ t[i].frame = FinishOf(job'[t[i].to].end)
      BY <1>3 DEF SendingOK
    <3> QED BY <1>1, <3>1
  <2> QED BY <2>1, <2>2, <2>3 DEF LoopOK
<1>5. \A d \in Client : Pending(d)' = FALSE
  <2>1. t # <<>> => 1 \in 1..Len(t) BY <1>1, EmptySeq
  <2>2. t # <<>> => t[1].frame # "token" BY <1>1, <2>1
  <2> QED BY <1>3, <2>2 DEF Pending
<1>6. ASSUME NEW d \in Client PROVE PlaceOK(d)'
  <2>1. InCmds(d)' = InCmds(d) /\ InWaiting(d)' = InWaiting(d) BY DEF InCmds, InWaiting
  <2>2. InSending(d)' <=> \E i \in 1..Len(t) : t[i].to = d BY <1>3 DEF InSending
  <2>3. CASE d = c
    <3>1. ~InSending(d)' BY <1>1, <2>2, <2>3
    <3> QED BY <1>1, <1>2, <2>1, <2>3, <3>1 DEF PlaceOK
  <2>4. CASE d # c
    <3>1. InSending(d)' <=> InSending(d)
      <4>1. ASSUME NEW i \in 1..Len(t), t[i].to = d PROVE InSending(d)
        BY <1>1, <4>1 DEF InSending
      <4> QED BY <1>1, <2>2, <2>4, <4>1
    <3> QED BY <1>2, <2>1, <2>4, <3>1 DEF PlaceOK
  <2> QED BY <2>3, <2>4
<1>7. Cardinality(loop'.running) <= server.cap
  <2>1. loop.running \in SUBSET Client BY <1>2 DEF LoopType
  <2>2. IsFiniteSet(loop.running) /\ Cardinality(loop.running) \in Nat
    BY <2>1, ServerAssumption, FS_Subset, FS_CardinalityType
  <2>3. loop.running \ {c} \in SUBSET loop.running OBVIOUS
  <2>4. /\ Cardinality(loop.running \ {c}) <= Cardinality(loop.running)
        /\ Cardinality(loop.running \ {c}) \in Nat
    BY <2>2, <2>3, FS_Subset, FS_CardinalityType
  <2>5. loop'.running = loop.running \/ loop'.running = loop.running \ {c} OBVIOUS
  <2>6. CASE loop'.running = loop.running BY <1>2, <2>6
  <2>7. CASE loop'.running = loop.running \ {c}
    <3> DEFINE k == Cardinality(loop.running \ {c})
               m == Cardinality(loop.running)
    <3>1. k \in Nat /\ m \in Nat /\ k <= m /\ m <= server.cap /\ Cardinality(loop'.running) = k
      BY <1>2, <2>2, <2>4, <2>7
    <3> HIDE DEF k, m
    <3> QED BY <1>2, <3>1
  <2> QED BY <2>5, <2>6, <2>7
<1>8. ASSUME NEW d \in Client PROVE JobOK(d)' /\ HeardOK(d)' /\ ClosedOK(d)'
  <2>1. CASE d = c BY <1>5, <2>1
  <2>2. CASE d # c BY <1>1, <1>2, <1>5, <2>2, ClientKept
  <2> QED BY <2>1, <2>2
<1>9. \A d \in Client : job[d].st # "submitted" => job'[d] = job[d] BY <1>1
<1> QED BY <1>4, <1>6, <1>7, <1>8, <1>9, LoopKeeps

\* A request that is not in the queue leaves only the batch.
LEMMA NotInQueue ==
  ASSUME NEW s \in Seq(Client), NEW c, \A i \in 1..Len(s) : s[i] # c
  PROVE  RemoveFirst(s, c) = s
  BY DEF RemoveFirst

LEMMA SendFrameHonest ==
  ASSUME Honest, Planned', SendFrame
  PROVE  Honest'
<1>0. PICK c : c = Head(loop.sending).to OBVIOUS
<1> DEFINE frame == Head(loop.sending).frame
           t == Tail(loop.sending)
           rest == [loop EXCEPT !.sending = t]
<1>1. /\ loop.st = "running" /\ loop.sending # <<>>
      /\ UNCHANGED <<site, server, lock, answer, away>>
      /\ IF c \in away
         THEN /\ loop' = OffTables(rest, c) /\ UNCHANGED chan
              /\ Finished(c, IF frame = "token" THEN "closed" ELSE job[c].end)
         ELSE /\ \E q \in Sent(chan[c], frame) : chan' = [chan EXCEPT ![c] = q]
              /\ IF frame = "token" THEN loop' = rest /\ UNCHANGED job
                 ELSE loop' = OffTables(rest, c) /\ Finished(c, job[c].end)
  <2>1. rest = [loop EXCEPT !.sending = Tail(@)] OBVIOUS
  <2> HIDE DEF rest
  <2> QED BY <1>0, <2>1 DEF SendFrame, ReceiverGone
<1>2. /\ Typed /\ loop \in LoopType /\ JobOK(c) /\ HeardOK(c) /\ c \in Client
      /\ job \in [Client -> JobType \union {NoJob}] /\ chan \in [Client -> Seq(Frames)]
  <2>1. SendingSplit(c, frame, t) BY <1>0, <1>1, SendingFacts
  <2> QED BY <2>1 DEF Honest, Typed, SendingSplit
<1>3. /\ frame \in Frames /\ t \in Seq(SendType)
      /\ job[c].st = "submitted" /\ ~InWaiting(c)
      /\ IF frame = "token" THEN job[c].end = "none"
         ELSE job[c].end \in {"eos", "stop", "length", "error"} /\ frame = FinishOf(job[c].end)
      /\ Pending(c) = (frame = "token")
  <2>1. SendingSplit(c, frame, t) BY <1>0, <1>1, SendingFacts
  <2> QED BY <2>1 DEF SendingSplit
<1>4. /\ job[c] \in JobType /\ site.sched /\ ~site.cli /\ answer[c].st \in {"open", "cut"}
      /\ c \in away <=> answer[c].st = "cut"
      /\ job[c].made \in Nat /\ job[c].max \in Nat /\ job[c].made <= job[c].max
      /\ Ending(c) = <<>>
  BY <1>2, <1>3, SubmittedFacts
<1> HIDE DEF frame, t
<1>5. /\ rest \in LoopType /\ rest.st = loop.st /\ rest.cmds = loop.cmds
      /\ rest.waiting = loop.waiting /\ rest.running = loop.running /\ rest.batch = loop.batch
      /\ rest.sending = t
  BY <1>2, <1>3 DEF LoopType
<1> HIDE DEF rest
<1>6. /\ OffTables(rest, c) \in LoopType /\ OffTables(rest, c).st = loop.st
      /\ OffTables(rest, c).cmds = loop.cmds /\ OffTables(rest, c).waiting = loop.waiting
      /\ OffTables(rest, c).running = loop.running \ {c}
      /\ OffTables(rest, c).batch = loop.batch \ {c} /\ OffTables(rest, c).sending = t
  <2>1. RemoveFirst(rest.waiting, c) = rest.waiting
    <3>1. rest.waiting \in Seq(Client) /\ \A i \in 1..Len(rest.waiting) : rest.waiting[i] # c
      BY <1>2, <1>3, <1>5 DEF InWaiting, LoopType
    <3> QED BY <3>1, NotInQueue
  <2>2. OffTables(rest, c) = [rest EXCEPT !.waiting = rest.waiting, !.running = rest.running \ {c},
                                          !.batch = rest.batch \ {c}]
    BY <2>1 DEF OffTables
  <2> QED BY <1>5, <2>2, ZenonT(30) DEF LoopType
<1>7. ASSUME NEW end \in {"eos", "stop", "length", "error", "closed"}, Finished(c, end)
      PROVE  /\ job'[c] \in JobType /\ job'[c].st = "over" /\ job'[c].end = end
             /\ job'[c].body = job[c].body /\ job'[c].max = job[c].max
             /\ job'[c].made = job[c].made
             /\ job' \in [Client -> JobType \union {NoJob}]
             /\ \A d \in Client \ {c} : job'[d] = job[d]
             /\ JobPath(c)'
  <2>1. job' = [job EXCEPT ![c] = [job[c] EXCEPT !.st = "over", !.end = end]]
    BY <1>7 DEF Finished
  <2>2. [job[c] EXCEPT !.st = "over", !.end = end] \in JobType BY <1>4 DEF JobType, Ends
  <2>3. /\ job'[c] \in JobType /\ job'[c].st = "over" /\ job'[c].end = end
        /\ job'[c].body = job[c].body /\ job'[c].max = job[c].max
        /\ job'[c].made = job[c].made
        /\ job' \in [Client -> JobType \union {NoJob}]
        /\ \A d \in Client \ {c} : job'[d] = job[d]
    BY <1>2, <1>4, <2>1, <2>2 DEF JobType
  <2> QED BY <2>3 DEF JobPath
<1>8. CASE c \in away
  <2> DEFINE end == IF frame = "token" THEN "closed" ELSE job[c].end
  <2>1. loop' = OffTables(rest, c) /\ UNCHANGED chan /\ Finished(c, end) BY <1>1, <1>8
  <2>2. end \in {"eos", "stop", "length", "error", "closed"} BY <1>3
  <2> HIDE DEF end
  <2>3. /\ job'[c] \in JobType /\ job'[c].st = "over" /\ job'[c].end = end
        /\ job'[c].body = job[c].body /\ job'[c].max = job[c].max
        /\ job'[c].made = job[c].made
        /\ job' \in [Client -> JobType \union {NoJob}]
        /\ \A d \in Client \ {c} : job'[d] = job[d]
        /\ JobPath(c)'
    BY <1>7, <2>1, <2>2
  <2>4. JobOK(c)'
    <3>1. Len(chan'[c]) <= FrameCap BY <1>2, <1>4, <2>1 DEF JobOK, JobSeen
    <3>2. answer[c].st = "cut" BY <1>4, <1>8
    <3> QED BY <1>1, <1>2, <1>4, <2>2, <2>3, <3>1, <3>2, JobMoves
  <2>5. HeardOK(c)' /\ ClosedOK(c)' BY <1>1, <1>4, <1>8 DEF HeardOK, ClosedOK
  <2>6. loop'.sending = Tail(loop.sending) BY <1>6, <2>1 DEF t
  <2> QED BY <1>0, <1>1, <1>2, <1>6, <2>1, <2>3, <2>4, <2>5, <2>6, SendKeeps
<1>9. CASE c \notin away
  <2>1. answer[c].st = "open" BY <1>4, <1>9
  <2>2. Len(chan[c]) < FrameCap /\ chan' = [chan EXCEPT ![c] = Append(chan[c], frame)]
    <3>1. PICK q \in Sent(chan[c], frame) : chan' = [chan EXCEPT ![c] = q] BY <1>1, <1>9
    <3> QED BY <3>1 DEF Sent
  <2> DEFINE q == chan[c]
  <2>3. /\ q \in Seq(Frames) /\ chan'[c] = Append(q, frame) /\ chan' \in [Client -> Seq(Frames)]
        /\ \A d \in Client \ {c} : chan'[d] = chan[d]
    BY <1>2, <1>3, <2>2
  <2>4. Len(chan'[c]) <= FrameCap
    <3> HIDE DEF q
    <3>1. Len(Append(q, frame)) = Len(q) + 1 /\ Len(q) \in Nat BY <1>3, <2>3, AppendProperties
    <3> QED BY <2>2, <2>3, <3>1, ServerAssumption DEF q
  <2>5. CASE frame = "token"
    <3>1. loop' = rest /\ job' = job BY <1>1, <1>9, <2>5
    <3>2. job[c].end = "none" BY <1>3, <2>5
    <3>3. JobPath(c)' BY <1>1, <1>4, <3>1, <1>3 DEF JobPath
    <3>4. JobOK(c)'
      BY <1>1, <1>2, <1>4, <2>1, <2>4, <3>1, <3>2, <3>3, JobMoves
    <3>5. ASSUME Pending(c)' = FALSE PROVE HeardOK(c)'
      <4>1. TokensSent(c) = job[c].made - 1 BY <1>3, <1>4, <2>5 DEF TokensSent
      <4>2. TokensSent(c)' = job[c].made BY <1>1, <1>4, <3>1, <3>5 DEF TokensSent
      <4>3. Ending(c)' = <<>> BY <1>3, <3>1 DEF Ending
      <4>4. TokensSent(c) \in Nat
        <5>1. job[c].made - 1 \in Int /\ answer[c].got \in Nat BY <1>2, <1>4 DEF Typed, AnswerType
        <5>2. answer[c].got <= TokensSent(c) BY <1>2, <2>1 DEF HeardOK
        <5> QED BY <4>1, <5>1, <5>2
      <4>5. TokensSent(c)' = TokensSent(c) + 1 BY <1>4, <4>1, <4>2
      <4>6. chan'[c] = Append(chan[c], "token") BY <2>3, <2>5
      <4> QED BY <1>1, <1>2, <1>4, <2>1, <4>3, <4>4, <4>5, <4>6, TokenTold
    <3>6. ClosedOK(c)' BY <1>1, <2>1 DEF ClosedOK
    <3>7. loop'.sending = Tail(loop.sending) BY <1>5, <3>1 DEF t
    <3> QED BY <1>0, <1>1, <1>2, <1>5, <2>3, <3>1, <3>2, <3>4, <3>5, <3>6, <3>7, SendKeeps
  <2>6. CASE frame # "token"
    <3> DEFINE end == job[c].end
    <3>1. loop' = OffTables(rest, c) /\ Finished(c, end) BY <1>1, <1>9, <2>6
    <3>2. end \in {"eos", "stop", "length", "error"} /\ frame = FinishOf(end) BY <1>3, <2>6
    <3> HIDE DEF end
    <3>3. /\ job'[c] \in JobType /\ job'[c].st = "over" /\ job'[c].end = end
          /\ job'[c].body = job[c].body /\ job'[c].max = job[c].max
          /\ job'[c].made = job[c].made
          /\ job' \in [Client -> JobType \union {NoJob}]
          /\ \A d \in Client \ {c} : job'[d] = job[d]
          /\ JobPath(c)'
      BY <1>7, <3>1, <3>2
    <3>4. JobOK(c)'
      BY <1>1, <1>2, <1>4, <2>1, <2>4, <3>2, <3>3, JobMoves
    <3>5. ASSUME Pending(c)' = FALSE PROVE HeardOK(c)'
      <4>1. TokensSent(c) = job[c].made BY <1>3, <1>4, <2>6 DEF TokensSent
      <4>2. TokensSent(c)' = job[c].made BY <1>1, <1>4, <3>3, <3>5 DEF TokensSent
      <4>3. Ending(c)' = <<frame>> BY <1>1, <1>4, <3>2, <3>3 DEF Ending
      <4>4. <<frame>> \in Seq(Frames) BY <1>3
      <4>5. chan'[c] = q \o <<frame>>
        <5> HIDE DEF q
        <5>1. Append(q, frame) = q \o <<frame>> BY <1>3, <2>3, AppendIsConcat
        <5> QED BY <2>3, <5>1
      <4> QED BY <1>1, <1>2, <1>4, <2>1, <4>1, <4>2, <4>3, <4>4, <4>5, EndTold
    <3>6. ClosedOK(c)' BY <1>1, <2>1 DEF ClosedOK
    <3>7. loop'.sending = Tail(loop.sending) BY <1>6, <3>1 DEF t
    <3> QED BY <1>0, <1>1, <1>2, <1>6, <2>3, <3>1, <3>3, <3>4, <3>5, <3>6, <3>7, SendKeeps, ZenonT(30)
  <2> QED BY <2>5, <2>6
<1> QED BY <1>8, <1>9

-----------------------------------------------------------------------------
(* The theorems *)

LEMMA HonestInit == Init => Honest
<1> SUFFICES ASSUME Init PROVE Honest
  OBVIOUS
<1>1. /\ site \in Sites /\ server = [st |-> "starting", code |-> 0, pages |-> 0, cap |-> 0]
      /\ loop = [st |-> "none", cmds |-> <<>>, waiting |-> <<>>, running |-> {},
                 batch |-> {}, sending |-> <<>>]
      /\ lock = [holder |-> "nobody", poisoned |-> FALSE]
      /\ \A c \in Client : job[c] = NoJob /\ answer[c] = NoAnswer /\ chan[c] = <<>>
      /\ job \in [Client -> {NoJob}] /\ answer \in [Client -> {NoAnswer}]
      /\ chan \in [Client -> {<<>>}] /\ away = {}
  BY DEF Init
<1>2. Planned BY <1>1 DEF Planned, States
<1>3. Typed
  <2>1. loop \in LoopType BY <1>1, EmptySeq DEF LoopType
  <2>2. NoAnswer \in AnswerType BY DEF NoAnswer, AnswerType, EndFrames
  <2>3. answer \in [Client -> AnswerType] BY <1>1, <2>2
  <2>4. chan \in [Client -> Seq(Frames)] BY <1>1, EmptySeq
  <2>5. away = {c \in Client : answer[c].st = "cut"} BY <1>1 DEF NoAnswer
  <2>6. job \in [Client -> JobType \union {NoJob}] BY <1>1
  <2> QED BY <1>1, <2>1, <2>3, <2>4, <2>5, <2>6 DEF Typed, LockType
<1>4. LoopOK BY <1>1 DEF LoopOK, CmdsOnce, WaitingOnce, SendingOnce, SendingOK
<1>5. ServerOK BY <1>1 DEF ServerOK, NoAnswer
<1>6. Cardinality(loop.running) <= server.cap BY <1>1, FS_EmptySet
<1>7. ASSUME NEW c \in Client PROVE PlaceOK(c) /\ JobOK(c) /\ HeardOK(c) /\ ClosedOK(c)
  <2>1. PlaceOK(c) BY <1>1 DEF PlaceOK, InCmds, InWaiting, InSending, NoJob
  <2>2. JobOK(c) BY <1>1, ServerAssumption DEF JobOK, JobPath, JobFits, JobSeen, NoJob, NoAnswer
  <2>3. HeardOK(c) /\ ClosedOK(c) BY <1>1 DEF HeardOK, ClosedOK, NoAnswer
  <2> QED BY <2>1, <2>2, <2>3
<1> QED BY <1>2, <1>3, <1>4, <1>5, <1>6, <1>7 DEF Honest

LEMMA HonestIdle ==
  ASSUME Honest, UNCHANGED vars
  PROVE  Honest'
<1>1. Planned' BY DEF Honest, Planned, vars
<1>2. Typed' /\ LoopOK' /\ ServerOK' /\ Cardinality(loop'.running) <= server'.cap
  BY DEF Honest, Typed, LoopOK, CmdsOnce, WaitingOnce, SendingOnce, SendingOK, ServerOK, vars
<1>3. ASSUME NEW c \in Client PROVE PlaceOK(c)' /\ JobOK(c)' /\ HeardOK(c)' /\ ClosedOK(c)'
  <2>1. PlaceOK(c)' BY DEF Honest, PlaceOK, InCmds, InWaiting, InSending, vars
  <2>2. Pending(c)' = Pending(c) BY DEF Pending, vars
  <2> QED BY <2>1, <2>2, ClientKept DEF Honest, vars
<1> QED BY <1>1, <1>2, <1>3 DEF Honest

LEMMA HonestStep ==
  ASSUME Honest, [Next]_vars
  PROVE  Honest'
<1>1. Planned' BY PlannedStep DEF Honest
<1>2. CASE Start \/ Spawned \/ Listen BY <1>1, <1>2, BootHonest
<1>3. CASE Signal BY <1>1, <1>3, SignalHonest
<1>4. CASE Down BY <1>1, <1>4, DownHonest
<1>5. CASE LoopCommand BY <1>1, <1>5, LoopCommandHonest
<1>6. CASE LoopStep BY <1>1, <1>6, LoopStepHonest
<1>7. CASE BatchFails BY <1>1, <1>7, BatchFailsHonest
<1>8. CASE SendFrame BY <1>1, <1>8, SendFrameHonest
<1>9. ASSUME NEW c \in Client, NEW body \in Bodies, Post(c, body) PROVE Honest'
  BY <1>1, <1>9, PostHonest
<1>10. ASSUME NEW c \in Client, NEW body \in Bodies, Prompt(c, body) PROVE Honest'
  BY <1>1, <1>10, PromptHonest
<1>11. ASSUME NEW c \in Client, RunEnds(c) PROVE Honest' BY <1>1, <1>11, DownHonest
<1>12. ASSUME NEW c \in Client, Leave(c) PROVE Honest' BY <1>1, <1>12, LeaveHonest
<1>13. ASSUME NEW c \in Client, TakeLock(c) PROVE Honest' BY <1>1, <1>13, TakeLockHonest
<1>14. ASSUME NEW c \in Client, Turn(c) PROVE Honest' BY <1>1, <1>14, TurnHonest
<1>15. ASSUME NEW c \in Client, Decode(c) PROVE Honest' BY <1>1, <1>15, DecodeHonest
<1>16. ASSUME NEW c \in Client, Receive(c) PROVE Honest' BY <1>1, <1>16, ReceiveHonest
<1>17. ASSUME NEW c \in Client, EndOfFrames(c) PROVE Honest' BY <1>1, <1>17, EndOfFramesHonest
<1>18. CASE UNCHANGED vars BY <1>18, HonestIdle
<1> QED
  BY <1>2, <1>3, <1>4, <1>5, <1>6, <1>7, <1>8, <1>9, <1>10, <1>11, <1>12, <1>13, <1>14, <1>15,
     <1>16, <1>17, <1>18
  DEF Next

\* No completion a server accepted writes beyond the context, however large the
\* number it was asked for before parse_completion cut it to 32 bits.
THEOREM CompletionsFit == Spec => []WithinContext
<1>1. Honest => WithinContext
  <2> SUFFICES ASSUME Honest, NEW c \in Client, job[c].st # "none", ~site.cli
               PROVE  job[c].body.prompt + job[c].made <= MaxLen(site)
    BY DEF WithinContext
  <2>1. Typed /\ JobFits(c) /\ site \in Sites BY DEF Honest, JobOK, Planned
  <2>2. job[c] \in JobType BY <2>1 DEF Typed, NoJob
  <2>3. /\ job[c].made \in Nat /\ job[c].max \in Nat /\ job[c].body \in Bodies
        /\ job[c].made <= job[c].max /\ job[c].body.prompt + job[c].max <= MaxLen(site)
    BY <2>1, <2>2 DEF JobType, JobFits
  <2>4. job[c].body.prompt \in Int BY <2>3, ServerAssumption DEF Option, Absent
  <2>5. MaxLen(site) \in Nat BY <2>1, MaxLenIsNat
  <2> QED BY <2>3, <2>4, <2>5
<1> QED BY <1>1, HonestInit, HonestStep, PTL DEF Spec

\* Whatever the other clients, the lock, the loop and the connections do, a client
\* that is answered was told the tokens of its own completion and the reason it ended
\* for; an answer without an end, or with another one, follows only a panic that took
\* the engine away, and the plain answer of the serial path calls a stop "length".
THEOREM ClientsHearTheirOwn == Spec => []AnswersHonest
<1>1. Honest => AnswersHonest
  <2> SUFFICES ASSUME Honest PROVE AnswersHonest
    OBVIOUS
  <2>1. Typed /\ ServerOK /\ Planned /\ \A c \in Client : PlaceOK(c) /\ JobOK(c) /\ ClosedOK(c)
    BY DEF Honest
  <2>2. server.st \in States /\ server.pages \in Nat /\ server.cap \in Nat BY <2>1 DEF Planned
  <2>3. loop.batch \subseteq loop.running BY <2>1 DEF PlaceOK, Typed, LoopType
  <2>4. \A c \in Client : Len(chan[c]) > FrameCap => ~site.sched
    <3> TAKE c \in Client
    <3>1. chan[c] \in Seq(Frames) /\ FrameCap \in Nat BY <2>1, ServerAssumption DEF Typed
    <3>2. site.sched => Len(chan[c]) <= FrameCap BY <2>1 DEF JobOK, JobSeen
    <3>3. Len(chan[c]) \in Nat BY <3>1
    <3> QED BY <3>1, <3>2, <3>3
  <2>5. lock.holder = "nobody" \/ job[lock.holder].st = "running" BY <2>1 DEF ServerOK
  <2>6. TypeOK BY <2>2, <2>3, <2>4, <2>5 DEF TypeOK, States
  <2> QED BY <2>1, <2>6 DEF AnswersHonest, ClosedOK
<1> QED BY <1>1, HonestInit, HonestStep, PTL DEF Spec
=============================================================================
