------------------------------- MODULE ReqOps -------------------------------
(***************************************************************************)
(* One request of the scheduler (crates/scheduler/src/req.rs) as a record, *)
(* and its operations as functions from record to record.  `st` is the     *)
(* ReqState, `cached`/`device` the two cursors (confirmed tokens, tokens   *)
(* dispatched to the device), `released` the armed exactly-once release    *)
(* guard.  Ids, seeds and arrival numbers belong to the callers; what the  *)
(* stop matcher and the EOS test say of a token is an input.               *)
(***************************************************************************)
EXTENDS Integers

ReqState == {"Waiting", "Prefill", "Chunked", "Decode", "Done", "Aborted", "Preempted"}
Request == [st : ReqState, prompt : Nat, maxOut : Nat, cached : Nat, device : Nat,
            resume : BOOLEAN, released : BOOLEAN]

Terminal(r) == r.st \in {"Done", "Aborted"}
Prefilling(r) == r.st \in {"Prefill", "Chunked"}

NewReq == [st |-> "Waiting", prompt |-> 0, maxOut |-> 0, cached |-> 0, device |-> 0,
           resume |-> FALSE, released |-> FALSE]

OutputTokens(r) == IF r.cached > r.prompt THEN r.cached - r.prompt ELSE 0

\* A start that dispatches its whole budget, past the prompt (mutant).
StartPrefillUnclipped(r, promptLen, maxOut, chunk) ==
  [r EXCEPT !.prompt = promptLen, !.maxOut = maxOut, !.cached = 0, !.device = chunk,
            !.st = IF chunk >= promptLen THEN "Prefill" ELSE "Chunked", !.resume = FALSE]

CanStartPrefill(r, chunk) == r.st \in {"Waiting", "Preempted"} /\ chunk > 0
StartPrefill(r, promptLen, maxOut, chunk) ==
  LET dev == IF chunk < promptLen THEN chunk ELSE promptLen
  IN  [r EXCEPT !.prompt = promptLen, !.maxOut = maxOut, !.cached = 0, !.device = dev,
                !.st = IF dev >= promptLen THEN "Prefill" ELSE "Chunked",
                !.resume = FALSE]

CanDispatchChunk(r, end) == r.st = "Chunked" /\ r.cached < end /\ end <= r.prompt
DispatchChunk(r, end) == [r EXCEPT !.device = end]

\* Confirms the chunk in flight; the whole prompt confirmed means Decode.
Confirm(r) ==
  [r EXCEPT !.cached = r.device, !.st = IF r.device >= r.prompt THEN "Decode" ELSE @]

\* A terminal state arms the release guard (set_done, arm_release).
Finished(r) == [r EXCEPT !.st = "Done", !.released = TRUE]

\* A cap that stops one token too late (mutant).
DecodeEventLateCap(r, kind) ==
  IF kind # "token" THEN kind
  ELSE IF r.cached > r.prompt + r.maxOut THEN "cap" ELSE "confirmed"

\* The order of the checks on a generated token: stop pattern, then EOS (both
\* are the `kind` of the token), then the output cap.
DecodeEvent(r, kind) ==
  IF kind # "token" THEN kind
  ELSE IF r.cached + 1 > r.prompt + r.maxOut THEN "cap" ELSE "confirmed"

\* The token is dispatched in any case; it is cached only when confirmed.
DecodeStep(r, kind) ==
  LET sent == [r EXCEPT !.device = r.cached + 1]
  IN  IF DecodeEvent(r, kind) = "confirmed" THEN [sent EXCEPT !.cached = sent.device]
      ELSE Finished(sent)

Finish(r) == IF r.st = "Decode" THEN Finished(r) ELSE r

\* An abort that does not look whether the request has ended (mutant).
AbortAlways(r) == [r EXCEPT !.st = "Aborted", !.released = TRUE]
Abort(r) == IF Terminal(r) THEN r ELSE [r EXCEPT !.st = "Aborted", !.released = TRUE]

\* A preemption that takes back one token only (mutant).
PreemptLastToken(r) ==
  [r EXCEPT !.st = "Preempted", !.cached = @ - 1, !.device = @ - 1, !.resume = TRUE]

CanPreempt(r) == r.st \in {"Prefill", "Chunked", "Decode"}
Preempt(r) == [r EXCEPT !.st = "Preempted", !.cached = 0, !.device = 0, !.resume = TRUE]

TakeRelease(r) == [r EXCEPT !.released = FALSE]
=============================================================================
