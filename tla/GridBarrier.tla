----------------------------- MODULE GridBarrier -----------------------------
(***************************************************************************)
(* The grid barrier of the layer-fused decode kernel                       *)
(* (crates/cuda/kernels/decode_layer_fused_kernels.cu) and the host's      *)
(* watchdog protocol around it (crates/cuda/src/engine.rs,                 *)
(* layer_fused.rs).                                                        *)
(*                                                                         *)
(* A decode step queues one launch per layer on one stream.  The blocks of *)
(* a launch cross the barrier slots in order; slot k is crossed by the     *)
(* prefix {b < Width[k]} of the grid.  Counters and generations live in    *)
(* one table that every launch of every step reuses, and a block that      *)
(* spins out its budget records the slot and leaves.  When the stream has  *)
(* drained the host reads the record, and zeroes the table when it is set. *)
(***************************************************************************)
EXTENDS Naturals, FiniteSets, Sequences

CONSTANTS
  Grid,      \* number of co-resident blocks
  Width,     \* per barrier slot, the number of participants
  Layers,    \* launches queued by one decode step
  GenMod,    \* modulus of a generation word (2^32 in the code)
  GiveUpCap, \* steps in a row the bounded sync may give up on
  Foreign    \* TRUE: foreign work may keep a block off the SMs for a while

Blocks == 0 .. (Grid - 1)
Slots  == DOMAIN Width

ASSUME BarrierAssumption ==
  /\ Grid \in Nat \ {0}
  /\ Layers \in Nat \ {0}
  /\ GenMod \in Nat \ {0, 1}
  /\ GiveUpCap \in Nat
  /\ Width \in Seq(1 .. Grid)
  /\ Width # <<>>
  /\ Foreign \in BOOLEAN

VARIABLES
  cnt,      \* bar[0..9]: arrivals of each slot
  gen,      \* bar[10..19]: generation of each slot
  err,      \* bar[20]: 0, or the slot whose spin timed out
  pc,       \* what each block of the running launch does next
  at,       \* the slot each block is at
  seen,     \* the generation a spinning block compares with
  layer,    \* the launch of the step that is running
  verdict,  \* what the host made of the last step
  givenUp,  \* steps given up on since the stream last drained in time
  arrived,  \* history: the blocks that arrived at each slot of this launch
  broken    \* history: some block of this step crossed a slot too soon

tvars == <<cnt, gen, err>>
vars == <<cnt, gen, err, pc, at, seen, layer, verdict, givenUp, arrived, broken>>

Participants(k) == {b \in Blocks : b < Width[k]}

\* The slots from k on, the one just crossed included (mutant).
AheadAgain(b, k) == {j \in Slots : j >= k /\ b < Width[j]}

\* The slots block b still has to cross after slot k.
Ahead(b, k) == {j \in Slots : j > k /\ b < Width[j]}

Nearest(S) == CHOOSE j \in S : \A i \in S : j <= i

\* A table reset_barriers has zeroed, as it is when the engine starts.
Clean == [k \in Slots |-> 0]

Init ==
  /\ cnt = Clean
  /\ gen = Clean
  /\ err = 0
  /\ pc = [b \in Blocks |-> "queued"]
  /\ at = [b \in Blocks |-> 0]
  /\ seen = [b \in Blocks |-> 0]
  /\ layer = 1
  /\ verdict = "none"
  /\ givenUp = 0
  /\ arrived = [k \in Slots |-> {}]
  /\ broken = FALSE

-----------------------------------------------------------------------------
(* The kernel *)

\* Block b runs the stages up to its next barrier, or retires.
MoveOn(b, k) ==
  IF Ahead(b, k) = {}
  THEN /\ pc' = [pc EXCEPT ![b] = "retired"]
       /\ at' = at
  ELSE /\ pc' = [pc EXCEPT ![b] = "stage"]
       /\ at' = [at EXCEPT ![b] = Nearest(Ahead(b, k))]

\* The block gets its SM.
Start(b) ==
  /\ pc[b] = "queued"
  /\ MoveOn(b, 0)
  /\ UNCHANGED <<tvars, seen, layer, verdict, givenUp, arrived, broken>>

\* Whether an arrival that found n arrivals completes the slot.
LastArrival(n, k) == n = Width[k] - 1

\* atomicAdd on the counter: the last participant releases, the others wait.
Arrive(b) ==
  LET k == at[b] IN
  /\ pc[b] = "stage"
  /\ cnt' = [cnt EXCEPT ![k] = @ + 1]
  /\ pc' = [pc EXCEPT ![b] = IF LastArrival(cnt[k], k) THEN "clear" ELSE "sample"]
  /\ arrived' = [arrived EXCEPT ![k] = @ \union {b}]
  /\ UNCHANGED <<gen, err, at, seen, layer, verdict, givenUp, broken>>

\* A release that leaves the counter to the next launch (mutant).
BumpOnly(b) ==
  /\ pc[b] = "clear"
  /\ pc' = [pc EXCEPT ![b] = "bump"]
  /\ UNCHANGED <<cnt, gen, err, at, seen, layer, verdict, givenUp, arrived, broken>>

\* The last participant zeroes the counter for the next launch ...
Clear(b) ==
  /\ pc[b] = "clear"
  /\ cnt' = [cnt EXCEPT ![at[b]] = 0]
  /\ pc' = [pc EXCEPT ![b] = "bump"]
  /\ UNCHANGED <<gen, err, at, seen, layer, verdict, givenUp, arrived, broken>>

Cross(b) ==
  /\ broken' = (broken \/ ~(Participants(at[b]) \subseteq arrived[at[b]]))
  /\ MoveOn(b, at[b])

\* ... and then releases the others.
Bump(b) ==
  /\ pc[b] = "bump"
  /\ gen' = [gen EXCEPT ![at[b]] = (@ + 1) % GenMod]
  /\ Cross(b)
  /\ UNCHANGED <<cnt, err, seen, layer, verdict, givenUp, arrived>>

\* A waiting block reads the generation it will compare with: after its
\* arrival, not before.
Sample(b) ==
  /\ pc[b] = "sample"
  /\ seen' = [seen EXCEPT ![b] = gen[at[b]]]
  /\ pc' = [pc EXCEPT ![b] = "spin"]
  /\ UNCHANGED <<tvars, at, layer, verdict, givenUp, arrived, broken>>

Observe(b) ==
  /\ pc[b] = "spin"
  /\ gen[at[b]] # seen[b]
  /\ Cross(b)
  /\ UNCHANGED <<tvars, seen, layer, verdict, givenUp, arrived>>

\* No block of the launch can do anything but spin: only then does a spin
\* last the ten seconds of its budget.
Stuck ==
  \A b \in Blocks : \/ pc[b] = "retired"
                    \/ pc[b] = "spin" /\ gen[at[b]] = seen[b]
                    \/ pc[b] = "queued" /\ Foreign

\* A time-out that leaves no record (mutant).
RecordNothing(e, k) == e

\* First writer wins.
Record(e, k) == IF e = 0 THEN k ELSE e

Watchdog(b) ==
  /\ pc[b] = "spin"
  /\ gen[at[b]] = seen[b]
  /\ Stuck \/ err # 0
  /\ err' = Record(err, at[b])
  /\ pc' = [pc EXCEPT ![b] = "retired"]
  /\ broken' = TRUE
  /\ UNCHANGED <<cnt, gen, at, seen, layer, verdict, givenUp, arrived>>

-----------------------------------------------------------------------------
(* The stream and the host *)

Drained == \A b \in Blocks : pc[b] = "retired"

FreshLaunch ==
  /\ pc' = [b \in Blocks |-> "queued"]
  /\ at' = [b \in Blocks |-> 0]
  /\ seen' = [b \in Blocks |-> 0]
  /\ arrived' = [k \in Slots |-> {}]

\* The stream starts the launch of the next layer on the table as it is.
NextLayer ==
  /\ Drained
  /\ layer < Layers
  /\ layer' = layer + 1
  /\ FreshLaunch
  /\ UNCHANGED <<tvars, verdict, givenUp, broken>>

\* The bounded sync returned in time: the host reads the record of the table,
\* fails the step and resets the table when it is set, and takes the logits
\* otherwise.
Judge ==
  /\ Drained
  /\ layer = Layers
  /\ verdict = "none"
  /\ verdict' = (IF err = 0 THEN "ok" ELSE "failed")
  /\ givenUp' = 0
  /\ IF err = 0
     THEN UNCHANGED tvars
     ELSE cnt' = Clean /\ gen' = Clean /\ err' = 0
  /\ UNCHANGED <<pc, at, seen, layer, arrived, broken>>

\* The next step's launches follow on the stream.
NextStep ==
  /\ Drained
  /\ verdict # "none"
  /\ verdict' = "none"
  /\ layer' = 1
  /\ broken' = FALSE
  /\ FreshLaunch
  /\ UNCHANGED <<tvars, givenUp>>

\* The bounded sync gave up on this step while it was still running: nothing
\* is read back, and the next step runs behind it on the table it leaves.
Abandon ==
  /\ Drained
  /\ layer = Layers
  /\ verdict = "none"
  /\ givenUp < GiveUpCap
  /\ givenUp' = givenUp + 1
  /\ layer' = 1
  /\ broken' = FALSE
  /\ FreshLaunch
  /\ UNCHANGED <<tvars, verdict>>

Block(b) ==
  \/ Start(b)
  \/ Arrive(b)
  \/ Clear(b)
  \/ Bump(b)
  \/ Sample(b)
  \/ Observe(b)
  \/ Watchdog(b)

Host == NextLayer \/ Judge \/ NextStep \/ Abandon

Next == (\E b \in Blocks : Block(b)) \/ Host

Spec == Init /\ [][Next]_vars

\* The SMs run every block they hold, and the stream and the host go on.
FairSpec == Spec /\ WF_vars(Host) /\ \A b \in Blocks : WF_vars(Block(b))

-----------------------------------------------------------------------------
(* Properties *)

\* The host takes a step's logits only when every block of every launch of
\* the step crossed all its barriers, each one after all the participants had
\* arrived, whatever earlier steps timed out on the same table.
OkIsSeparated == (verdict = "ok") => ~broken

\* Every queued step drains: the watchdog turns each stuck launch into a
\* bounded one, so the host never waits for ever.
StepDrains == []<>(Drained /\ layer = Layers)
=============================================================================
