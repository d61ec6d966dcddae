------------------------------- MODULE Replay -------------------------------
(***************************************************************************)
(* The determinism harness (crates/scheduler/src/replay.rs): the           *)
(* scheduler's decisions over a fixed list of arrivals, as a pure function *)
(* of configuration and list, with aborts and preemptions injected at      *)
(* given steps and no pool behind the tokens it counts.                    *)
(*                                                                         *)
(* A request is known by its place in the list.  Token values are a        *)
(* function of request and position, so an arrival says which token of its *)
(* output, if any, completes a stop pattern or is EOS.  The trace is kept  *)
(* as far as it tells the tokens of a request, by their positions.  Output *)
(* caps stay below EMA_FLOOR (SchedAdmission).                             *)
(***************************************************************************)
EXTENDS SchedAdmission, ReqOps, TLC

Never == -1

\* An arrival: at, prompt, maxOut, chunked, abortAt and preemptAt (steps, or
\* Never), endAt (the number of the output token that ends it, or 0).
\* A configuration: budget (step_budget), floor (kv_floor), steps (max_steps),
\* and rank, the order of the ids, which are hashes.

NewReplay ==
  [reqs |-> <<>>, waiting |-> <<>>, decoding |-> <<>>, estimates |-> <<>>,
   step |-> 0, dispatched |-> 0, returned |-> 0, high |-> 0,
   tokens |-> <<>>, panicked |-> FALSE]

DeviceSum(r, ids) == SumOver(ids, LAMBDA i : r.reqs[i].device)

\* kv_usage_tokens, which record_high_water sums too: of all requests, also of
\* those that ended.
Usage(r) == DeviceSum(r, DOMAIN r.reqs)

Live(r) == {i \in DOMAIN r.reqs : ~Terminal(r.reqs[i])}

\* current_estimate, asked for requests without output only.
CurrentEstimate(a, q) ==
  Estimate(a.prompt, a.maxOut, IF a.chunked /\ q.prompt > q.cached THEN q.prompt - q.cached ELSE 0)

\* arrive
Arrive(r, arrivals) ==
  LET new == {i \in DOMAIN arrivals : i > Len(r.reqs) /\ arrivals[i].at <= r.step}
      ids == SetToSortSeq(new, <)
  IN  [r EXCEPT !.reqs = @ \o [i \in DOMAIN ids |-> NewReq],
                !.tokens = @ \o [i \in DOMAIN ids |-> <<>>],
                !.waiting = @ \o ids,
                !.estimates = [i \in new |-> CurrentEstimate(arrivals[i], NewReq)] @@ @]

\* abort_injected: a request that was decoding stays among the decoding.
AbortInjected(r, arrivals) ==
  LET hit == {i \in Live(r) : arrivals[i].abortAt = r.step}
  IN  [r EXCEPT !.reqs = [i \in DOMAIN @ |-> IF i \in hit THEN Abort(@[i]) ELSE @[i]],
                !.returned = @ + DeviceSum(r, hit),
                !.estimates = Restrict(@, DOMAIN @ \ hit),
                !.waiting = Without(@, hit)]

\* Takes requests off the decoding ones, one after the other, to the head of the
\* queue; a request that no operation preempts is a panic.
PreemptAll(r, ids) ==
  LET hit == ToSet(ids)
  IN  IF \E i \in hit : ~CanPreempt(r.reqs[i]) THEN [r EXCEPT !.panicked = TRUE]
      ELSE [r EXCEPT !.reqs = [i \in DOMAIN @ |-> IF i \in hit THEN Preempt(@[i]) ELSE @[i]],
                     !.returned = @ + DeviceSum(r, hit),
                     !.decoding = Without(@, hit),
                     !.waiting = Reverse(ids) \o @]

\* preempt_injected
PreemptInjected(r, arrivals) ==
  PreemptAll(r, SelectSeq(r.decoding, LAMBDA i : /\ arrivals[i].preemptAt = r.step
                                                 /\ r.reqs[i].st = "Decode"))

\* schedule_step: the gates, in the order of the queue; an estimate counts from
\* then on.
Admission(r, arrivals) ==
  LET Review(acc, i) ==
        LET a == arrivals[i]
            q == r.reqs[i]
            working == (i :> CurrentEstimate(a, q)) @@ acc.estimates
            first == IF q.st = "Waiting" THEN Min({ChunkSize, a.prompt}) ELSE 0
        IN  IF ~Admitted(working, first, acc.sum, IsBusy(Usage(r))) THEN acc
            ELSE [estimates |-> working, sum |-> acc.sum + first,
                  eligible |-> acc.eligible \union
                    {[id |-> i, arrival |-> i, resume |-> q.resume,
                      prompt |-> Max({q.prompt, a.prompt}), cached |-> q.cached]}]
  IN  FoldLeft(Review, [estimates |-> r.estimates, sum |-> 0, eligible |-> {}], r.waiting)

\* What the step may dispatch.
Budget(r, cfg) == Max({0, Min({cfg.budget, PoolTokens - Usage(r)}) - cfg.floor})

\* A prefill assignment, dispatched and confirmed at once.
Prefill(r, arrivals, p) ==
  LET a == arrivals[p.id]
      q == IF r.reqs[p.id].st = "Chunked" THEN DispatchChunk(r.reqs[p.id], p.end)
           ELSE StartPrefill(r.reqs[p.id], a.prompt, a.maxOut, p.end - p.start)
      done == Confirm(q).st = "Decode"
  IN  [r EXCEPT !.reqs[p.id] = Confirm(q),
                !.dispatched = @ + p.end - p.start,
                !.decoding = IF done /\ p.id \notin ToSet(@) THEN Append(@, p.id) ELSE @,
                !.waiting = IF done THEN Without(@, {p.id}) ELSE @]

ScheduleStep(r, arrivals, cfg) ==
  LET admission == Admission(r, arrivals)
      views == {[id |-> i, arrival |-> i, resume |-> r.reqs[i].resume] : i \in ToSet(r.decoding)}
      chosen == SelectBatch(admission.eligible, views, Budget(r, cfg))
      left == PreemptAll([r EXCEPT !.estimates = admission.estimates], chosen.preempted)
  IN  IF left.panicked THEN left
      ELSE FoldLeft(LAMBDA acc, p : Prefill(acc, arrivals, p), left, chosen.prefill)

\* terminal, after take_release
Ended(r, i) ==
  [r EXCEPT !.returned = @ + r.reqs[i].device,
            !.reqs[i] = TakeRelease(@),
            !.estimates = Restrict(@, DOMAIN @ \ {i}),
            !.decoding = Without(@, {i}),
            !.waiting = Without(@, {i})]

\* decode_step of one request, with the token of its next position.
DecodeOne(r, arrivals, i) ==
  LET q == r.reqs[i]
      kind == IF q.cached - q.prompt + 1 = arrivals[i].endAt THEN "stop" ELSE "token"
      sent == [r EXCEPT !.dispatched = @ + 1, !.reqs[i] = DecodeStep(q, kind)]
  IN  IF q.st # "Decode" THEN r
      ELSE IF DecodeEvent(q, kind) = "confirmed"
      THEN [sent EXCEPT !.tokens[i] = Append(@, q.cached)]
      ELSE Ended(sent, i)

DecodeAll(r, arrivals, cfg) ==
  LET sorted == SortSeq(r.decoding, LAMBDA i, j : cfg.rank[i] < cfg.rank[j])
  IN  FoldLeft(LAMBDA acc, i : DecodeOne(acc, arrivals, i), [r EXCEPT !.decoding = sorted], sorted)

\* One turn of the loop.
ReplayStep(r, arrivals, cfg) ==
  LET injected == PreemptInjected(AbortInjected(Arrive(r, arrivals), arrivals), arrivals)
      scheduled == ScheduleStep(injected, arrivals, cfg)
      decoded == DecodeAll(scheduled, arrivals, cfg)
  IN  IF scheduled.panicked THEN scheduled
      ELSE [decoded EXCEPT !.high = Max({@, Usage(decoded)}), !.step = @ + 1]

\* replay: the states after 0, 1, ... turns; the last one is the outcome.
ReplayOf(arrivals, cfg) ==
  LET at[n \in 0 .. cfg.steps] ==
        IF n = 0 THEN NewReplay
        ELSE LET r == at[n - 1]
                 over == Len(r.reqs) = Len(arrivals) /\ Live(r) = {}
             IN  IF r.panicked \/ over THEN r ELSE ReplayStep(r, arrivals, cfg)
  IN  at

-----------------------------------------------------------------------------
(* What the harness is for *)

\* "everything dispatched is returned" (replay.rs:705): what was dispatched and
\* not returned is what the live requests hold, after every step.
Conserved(r) == r.dispatched = r.returned + DeviceSum(r, Live(r))

\* A request waits or decodes, and is counted by admission, exactly while it
\* lives; aborted ones are left among the decoding.
QueuesAgree(r) ==
  /\ IsInjective(r.waiting) /\ IsInjective(r.decoding)
  /\ ToSet(r.waiting) = {i \in Live(r) : r.reqs[i].st \in {"Waiting", "Chunked", "Preempted"}}
  /\ ToSet(r.decoding) \ {i \in DOMAIN r.reqs : r.reqs[i].st = "Aborted"}
       = {i \in Live(r) : r.reqs[i].st = "Decode"}
  /\ DOMAIN r.estimates = Live(r)

\* The tokens a request ends with: those since its last start.
LastLife(r, i) ==
  LET starts == {k \in DOMAIN r.tokens[i] : r.tokens[i][k] = r.reqs[i].prompt}
  IN  IF starts = {} THEN <<>> ELSE SubSeq(r.tokens[i], Max(starts), Len(r.tokens[i]))
=============================================================================
