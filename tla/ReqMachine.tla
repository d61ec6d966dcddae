----------------------------- MODULE ReqMachine -----------------------------
(***************************************************************************)
(* The life of one request (crates/scheduler/src/req.rs) under any caller  *)
(* that keeps to the documented states of each operation: chunks of any    *)
(* size, preemption and resumption at any time, abort and finish at any    *)
(* time, before or after the end.                                          *)
(***************************************************************************)
EXTENDS ReqOps

CONSTANTS PromptLens,   \* prompt lengths (`prompt_len` of start_prefill)
          OutputCaps,   \* output caps (`max_output`)
          ChunkSizes    \* token budgets the batch selector hands out

ASSUME ReqAssumption == /\ PromptLens \subseteq Nat
                        /\ OutputCaps \subseteq Nat
                        /\ ChunkSizes \subseteq Nat \ {0}

VARIABLES req,      \* the Req
          taken,    \* how often take_release has said "release now"
          ended     \* what ended the request: "none" while it lives

vars == <<req, taken, ended>>

Init == req = NewReq /\ taken = 0 /\ ended = "none"

DoStartPrefill(promptLen, cap, chunk) ==
  /\ CanStartPrefill(req, chunk)
  /\ req' = StartPrefill(req, promptLen, cap, chunk)
  /\ UNCHANGED <<taken, ended>>

DoDispatchChunk(chunk) ==
  /\ CanDispatchChunk(req, req.cached + chunk)
  /\ req' = DispatchChunk(req, req.cached + chunk)
  /\ UNCHANGED <<taken, ended>>

DoConfirm ==
  /\ Prefilling(req)
  /\ req' = Confirm(req)
  /\ UNCHANGED <<taken, ended>>

DoDecodeStep(kind) ==
  /\ req.st = "Decode"
  /\ req' = DecodeStep(req, kind)
  /\ ended' = IF DecodeEvent(req, kind) = "confirmed" THEN ended ELSE DecodeEvent(req, kind)
  /\ UNCHANGED taken

DoFinish ==
  /\ req' = Finish(req)
  /\ ended' = IF req.st = "Decode" THEN "finish" ELSE ended
  /\ UNCHANGED taken

DoAbort ==
  /\ req' = Abort(req)
  /\ ended' = IF Terminal(req) THEN ended ELSE "abort"
  /\ UNCHANGED taken

DoPreempt ==
  /\ CanPreempt(req)
  /\ req' = Preempt(req)
  /\ UNCHANGED <<taken, ended>>

DoTakeRelease ==
  /\ req' = TakeRelease(req)
  /\ taken' = IF req.released THEN taken + 1 ELSE taken
  /\ UNCHANGED ended

Next == \/ \E p \in PromptLens, m \in OutputCaps, c \in ChunkSizes : DoStartPrefill(p, m, c)
        \/ \E c \in ChunkSizes : DoDispatchChunk(c)
        \/ DoConfirm
        \/ \E kind \in {"token", "eos", "stop"} : DoDecodeStep(kind)
        \/ DoFinish \/ DoAbort \/ DoPreempt \/ DoTakeRelease

Spec == Init /\ [][Next]_vars

----------------------------------------------------------------------------
Ending == {"none", "eos", "stop", "cap", "finish", "abort"}

TypeOK ==
  /\ req \in Request
  /\ taken \in Nat
  /\ ended \in Ending

\* The cursor invariant of assert_cursors_valid, in every state and not only
\* where the code asserts it: confirmed tokens were dispatched, prefill stays
\* inside the prompt, decoding inside prompt + cap, and a terminal step that
\* dispatched beyond the cap did not cache the token.
CursorsValid ==
  /\ req.cached <= req.device
  /\ Prefilling(req) => req.device <= req.prompt
  /\ req.st = "Decode" => req.prompt <= req.cached /\ req.device <= req.prompt + req.maxOut
  /\ req.cached <= req.prompt + req.maxOut

\* Exactly-once release: stop, EOS, cap, finish and abort, in any order and
\* any number, arm the guard once in the life of a request; only an ended
\* request can be released, and an ended one is released or ready to be.
ReleasedExactlyOnce ==
  taken + (IF req.released THEN 1 ELSE 0) = IF Terminal(req) THEN 1 ELSE 0

\* The cap ends a request after exactly `max_output` confirmed tokens, never
\* one before or one after (decode_step's boundary comment), also when the
\* request was preempted and generated its output a second time.
CapIsExact == ended = "cap" => OutputTokens(req) = req.maxOut

\* A tombstone stays: nothing revives an ended request or changes how it
\* ended (abort after done is a no-op).
EndIsFinal == Terminal(req) => req'.st = req.st /\ ended' = ended
EndStaysFinal == [][EndIsFinal]_vars
=============================================================================
