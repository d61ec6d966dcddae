----------------------------- MODULE MCSchedLoop -----------------------------
(* Workloads for the scheduler loop, in blocks of two tokens.                *)
EXTENDS SchedLoop

CONSTANTS c1, c2, c3, c4

(* c1 is two blocks, c2 extends it by one token and hits what c1 leaves in   *)
(* the cache, c3 shares its first block only, c4 sends an empty prompt.       *)
SharedPrompts == c1 :> <<1, 1, 1, 1>> @@ c2 :> <<1, 1, 1, 1, 2>> @@ c3 :> <<1, 1, 2, 2>>
                 @@ c4 :> <<>>
SharedCaps == c1 :> 2 @@ c2 :> 1 @@ c3 :> 1 @@ c4 :> 1

(* Three requests that outgrow a small pool, because what ended requests used *)
(* stays counted, and one whose parameters are refused.                       *)
ScarcePrompts == c1 :> <<1, 1, 1>> @@ c2 :> <<2, 2, 2, 2, 2>> @@ c3 :> <<3, 3, 3>> @@ c4 :> <<1>>
ScarceCaps == c1 :> 2 @@ c2 :> 1 @@ c3 :> 2 @@ c4 :> 1

-----------------------------------------------------------------------------
(* The determinism harness over the same sizes: lists of two arrivals and a   *)
(* third after them, with and without aborts, injected preemptions, chunks    *)
(* and endings before the cap, and step budgets that evict and that do not.   *)

Harness == INSTANCE Replay

Arrival(at, prompt, maxOut, chunked, abortAt, preemptAt, endAt) ==
  [at |-> at, prompt |-> prompt, maxOut |-> maxOut, chunked |-> chunked,
   abortAt |-> abortAt, preemptAt |-> preemptAt, endAt |-> endAt]
Never == Harness!Never
Kinds == {Arrival(0, 3, 3, TRUE, 2, Never, 0), Arrival(0, 4, 2, TRUE, Never, 2, 0),
          Arrival(0, 1, 2, FALSE, Never, Never, 2), Arrival(0, 4, 0, FALSE, 4, 3, 0)}
Later == Arrival(4, 3, 2, TRUE, Never, Never, 0)
Lists == {<<f[1], f[2], Later>> : f \in [{1, 2} -> Kinds]}
ReplayCfgs == {[budget |-> b[1], floor |-> b[2], steps |-> 16, rank |-> <<2, 3, 1>>] :
                 b \in {<<3, 2>>, <<3, 0>>, <<99, 1>>}}
Outcome(list, cfg) == Harness!ReplayOf(list, cfg)[cfg.steps]

\* After every step until a panic: tokens dispatched, returned and held agree,
\* and so do queue, decoding list and admission's estimates.
ASSUME HarnessConserves ==
  \A list \in Lists, cfg \in ReplayCfgs : \A n \in 0 .. cfg.steps :
    LET r == Harness!ReplayOf(list, cfg)[n]
    IN  ~r.panicked => Harness!Conserved(r) /\ Harness!QueuesAgree(r)

\* "survivors are unaffected" (replay.rs:745): who ends has the output it has
\* when nobody is aborted.
ASSUME AbortIsolates ==
  \A list \in Lists, cfg \in ReplayCfgs :
    LET calm == [i \in DOMAIN list |-> [list[i] EXCEPT !.abortAt = Never]]
        x == Outcome(list, cfg)
        y == Outcome(calm, cfg)
    IN  \A i \in DOMAIN x.reqs :
          x.reqs[i].st = "Done" /\ i \in DOMAIN y.reqs /\ y.reqs[i].st = "Done"
            => Harness!LastLife(x, i) = Harness!LastLife(y, i)

\* An aborted request that was decoding is still chosen as a victim once a pool
\* of this size has no room left, which its state refuses: the harness panics
\* (replay.rs:347, 453).
ASSUME AbortedVictimPanics ==
  PoolTokens <= 12 => \E list \in Lists, cfg \in ReplayCfgs : Outcome(list, cfg).panicked

\* Waiting requests count as running ones from their arrival (replay.rs:339):
\* three at once never start where two may run.
ASSUME CrowdNeverStarts ==
  \A cfg \in ReplayCfgs :
    LET crowd == [i \in 1 .. AdmitCap + 1 |-> Arrival(0, 1, 1, FALSE, Never, Never, 0)]
    IN  \A i \in DOMAIN crowd : Outcome(crowd, cfg).reqs[i].st = "Waiting"
=============================================================================
