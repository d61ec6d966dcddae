-------------------------- MODULE ReqMachine_proofs --------------------------
(***************************************************************************)
(* Proofs about ReqMachine for every set of prompt lengths, caps and chunk *)
(* sizes.  The inductive invariant joins the checked ones with one fact    *)
(* they do not state: a request has an ending exactly when it is in a      *)
(* terminal state.  Without it nothing says that a request that ended with *)
(* the cap cannot start again and change its cursors.                      *)
(***************************************************************************)
EXTENDS ReqMachine, TLAPS

EndedIffTerminal == ended = "none" <=> ~Terminal(req)

Inv == /\ TypeOK /\ CursorsValid /\ ReleasedExactlyOnce
       /\ CapIsExact /\ EndedIffTerminal

\* What the operations on a request return, field by field.
LEMMA StartPrefillFields ==
  ASSUME NEW r \in Request, NEW p \in Nat, NEW m \in Nat, NEW c \in Nat
  PROVE  LET s == StartPrefill(r, p, m, c) IN
         /\ s \in Request
         /\ s.st \in {"Prefill", "Chunked"}
         /\ s.prompt = p /\ s.maxOut = m /\ s.cached = 0
         /\ s.device \in Nat /\ s.device <= p
         /\ s.released = r.released
<1>. DEFINE dev == IF c < p THEN c ELSE p
            st == IF dev >= p THEN "Prefill" ELSE "Chunked"
            s == [r EXCEPT !.prompt = p, !.maxOut = m, !.cached = 0, !.device = dev,
                           !.st = st, !.resume = FALSE]
<1>1. StartPrefill(r, p, m, c) = s
  BY DEF StartPrefill
<1>2. dev \in Nat /\ dev <= p /\ st \in {"Prefill", "Chunked"}
  OBVIOUS
<1>. HIDE DEF dev, st
<1>3. s \in Request
  BY <1>2 DEF Request, ReqState
<1>4. /\ s.st = st /\ s.prompt = p /\ s.maxOut = m /\ s.cached = 0 /\ s.device = dev
      /\ s.released = r.released
  BY DEF Request
<1>. QED BY <1>1, <1>2, <1>3, <1>4

LEMMA DispatchChunkFields ==
  ASSUME NEW r \in Request, NEW e \in Nat
  PROVE  LET s == DispatchChunk(r, e) IN
         /\ s \in Request /\ s.device = e
         /\ s.st = r.st /\ s.prompt = r.prompt /\ s.maxOut = r.maxOut
         /\ s.cached = r.cached /\ s.released = r.released
BY DEF DispatchChunk, Request

LEMMA ConfirmFields ==
  ASSUME NEW r \in Request
  PROVE  LET s == Confirm(r) IN
         /\ s \in Request /\ s.cached = r.device /\ s.device = r.device
         /\ s.st = IF r.device >= r.prompt THEN "Decode" ELSE r.st
         /\ s.prompt = r.prompt /\ s.maxOut = r.maxOut /\ s.released = r.released
BY DEF Confirm, Request, ReqState

LEMMA FinishedFields ==
  ASSUME NEW r \in Request, NEW end \in {"Done", "Aborted"}
  PROVE  LET s == [r EXCEPT !.st = end, !.released = TRUE] IN
         /\ s \in Request /\ s.st = end /\ s.released
         /\ s.prompt = r.prompt /\ s.maxOut = r.maxOut
         /\ s.cached = r.cached /\ s.device = r.device
BY DEF Request, ReqState

LEMMA PreemptFields ==
  ASSUME NEW r \in Request
  PROVE  LET s == Preempt(r) IN
         /\ s \in Request /\ s.st = "Preempted" /\ s.cached = 0 /\ s.device = 0
         /\ s.prompt = r.prompt /\ s.maxOut = r.maxOut /\ s.released = r.released
BY DEF Preempt, Request, ReqState

LEMMA TakeReleaseFields ==
  ASSUME NEW r \in Request
  PROVE  LET s == TakeRelease(r) IN
         /\ s \in Request /\ s.st = r.st /\ s.released = FALSE
         /\ s.prompt = r.prompt /\ s.maxOut = r.maxOut
         /\ s.cached = r.cached /\ s.device = r.device
BY DEF TakeRelease, Request

LEMMA DecodeStepFields ==
  ASSUME NEW r \in Request, NEW kind \in {"token", "eos", "stop"}
  PROVE  LET s == DecodeStep(r, kind)
             event == DecodeEvent(r, kind) IN
         /\ s \in Request
         /\ s.prompt = r.prompt /\ s.maxOut = r.maxOut /\ s.device = r.cached + 1
         /\ event \in {"eos", "stop", "cap", "confirmed"}
         /\ event = "cap" => r.cached + 1 > r.prompt + r.maxOut
         /\ event = "confirmed" =>
              /\ r.cached + 1 <= r.prompt + r.maxOut
              /\ s.st = r.st /\ s.cached = r.cached + 1 /\ s.released = r.released
         /\ event # "confirmed" => s.st = "Done" /\ s.cached = r.cached /\ s.released
<1>. DEFINE sent == [r EXCEPT !.device = r.cached + 1]
<1>1. /\ sent \in Request /\ sent.device = r.cached + 1
      /\ sent.st = r.st /\ sent.prompt = r.prompt /\ sent.maxOut = r.maxOut
      /\ sent.cached = r.cached /\ sent.released = r.released
  BY DEF Request
<1>2. /\ DecodeEvent(r, kind) \in {"eos", "stop", "cap", "confirmed"}
      /\ DecodeEvent(r, kind) = "cap" => r.cached + 1 > r.prompt + r.maxOut
      /\ DecodeEvent(r, kind) = "confirmed" => r.cached + 1 <= r.prompt + r.maxOut
  BY DEF DecodeEvent, Request
<1>3. DecodeStep(r, kind) = IF DecodeEvent(r, kind) = "confirmed"
                            THEN [sent EXCEPT !.cached = sent.device] ELSE Finished(sent)
  BY DEF DecodeStep
<1>. HIDE DEF sent
<1>4. CASE DecodeEvent(r, kind) = "confirmed"
  <2>1. LET s == [sent EXCEPT !.cached = sent.device] IN
        /\ s \in Request /\ s.cached = sent.device /\ s.device = sent.device
        /\ s.st = sent.st /\ s.prompt = sent.prompt /\ s.maxOut = sent.maxOut
        /\ s.released = sent.released
    BY <1>1 DEF Request
  <2>. QED BY <1>1, <1>2, <1>3, <1>4, <2>1
<1>5. CASE DecodeEvent(r, kind) # "confirmed"
  <2>1. LET s == Finished(sent) IN
        /\ s \in Request /\ s.st = "Done" /\ s.released /\ s.cached = sent.cached
        /\ s.device = sent.device /\ s.prompt = sent.prompt /\ s.maxOut = sent.maxOut
    BY <1>1, FinishedFields DEF Finished
  <2>. QED BY <1>1, <1>2, <1>3, <1>5, <2>1
<1>. QED BY <1>4, <1>5

LEMMA InitInv == Init => Inv
BY DEF Init, Inv, TypeOK, CursorsValid, ReleasedExactlyOnce, CapIsExact, EndedIffTerminal,
       NewReq, Request, ReqState, Ending, Terminal, Prefilling

\* Every operation, in any order, keeps the invariant.
LEMMA NextInv == Inv /\ [Next]_vars => Inv'
<1>. SUFFICES ASSUME Inv, [Next]_vars PROVE Inv'
  OBVIOUS
<1>. USE DEF Inv, TypeOK, CursorsValid, ReleasedExactlyOnce, CapIsExact, EndedIffTerminal,
             ReqState, Ending, Terminal, Prefilling, OutputTokens
<1>0. /\ req \in Request
      /\ req.cached \in Nat /\ req.device \in Nat /\ req.prompt \in Nat /\ req.maxOut \in Nat
      /\ req.released \in BOOLEAN /\ req.st \in ReqState
  BY DEF Request
<1>1. ASSUME NEW p \in PromptLens, NEW m \in OutputCaps, NEW c \in ChunkSizes,
             DoStartPrefill(p, m, c)
      PROVE  Inv'
  <2>1. p \in Nat /\ m \in Nat /\ c \in Nat
    BY ReqAssumption
  <2>2. /\ req' \in Request
        /\ req'.st \in {"Prefill", "Chunked"}
        /\ req'.prompt = p /\ req'.maxOut = m /\ req'.cached = 0
        /\ req'.device \in Nat /\ req'.device <= p
        /\ req'.released = req.released
    <3>1. req' = StartPrefill(req, p, m, c)
      BY <1>1 DEF DoStartPrefill
    <3>2. req \in Request
      BY <1>0
    <3>3. /\ StartPrefill(req, p, m, c) \in Request
          /\ StartPrefill(req, p, m, c).st \in {"Prefill", "Chunked"}
          /\ StartPrefill(req, p, m, c).prompt = p /\ StartPrefill(req, p, m, c).maxOut = m
          /\ StartPrefill(req, p, m, c).cached = 0
          /\ StartPrefill(req, p, m, c).device \in Nat
          /\ StartPrefill(req, p, m, c).device <= p
          /\ StartPrefill(req, p, m, c).released = req.released
      BY ONLY <2>1, <3>2, StartPrefillFields
    <3>. QED BY ONLY <3>1, <3>3
  <2>3. req.st \in {"Waiting", "Preempted"} /\ taken' = taken /\ ended' = ended
    BY <1>1 DEF DoStartPrefill, CanStartPrefill
  <2>. QED BY <1>0, <2>1, <2>2, <2>3
<1>2. ASSUME NEW c \in ChunkSizes, DoDispatchChunk(c) PROVE Inv'
  <2>1. c \in Nat /\ req.cached + c \in Nat
    BY <1>0, ReqAssumption
  <2>2. /\ req' \in Request /\ req'.device = req.cached + c
        /\ req'.st = req.st /\ req'.prompt = req.prompt /\ req'.maxOut = req.maxOut
        /\ req'.cached = req.cached /\ req'.released = req.released
    BY <1>0, <1>2, <2>1, DispatchChunkFields DEF DoDispatchChunk
  <2>3. /\ req.st = "Chunked" /\ req.cached + c <= req.prompt
        /\ taken' = taken /\ ended' = ended
    BY <1>2 DEF DoDispatchChunk, CanDispatchChunk
  <2>. QED BY <1>0, <2>1, <2>2, <2>3
<1>3. CASE DoConfirm
  <2>1. /\ req' \in Request /\ req'.cached = req.device /\ req'.device = req.device
        /\ req'.st = IF req.device >= req.prompt THEN "Decode" ELSE req.st
        /\ req'.prompt = req.prompt /\ req'.maxOut = req.maxOut
        /\ req'.released = req.released
    BY <1>0, <1>3, ConfirmFields DEF DoConfirm
  <2>2. req.st \in {"Prefill", "Chunked"} /\ taken' = taken /\ ended' = ended
    BY <1>3 DEF DoConfirm
  <2>. QED BY <1>0, <2>1, <2>2
<1>4. ASSUME NEW kind \in {"token", "eos", "stop"}, DoDecodeStep(kind) PROVE Inv'
  <2>. DEFINE event == DecodeEvent(req, kind)
  <2>1. /\ req' \in Request
        /\ req'.prompt = req.prompt /\ req'.maxOut = req.maxOut
        /\ req'.device = req.cached + 1
        /\ event \in {"eos", "stop", "cap", "confirmed"}
        /\ event = "cap" => req.cached + 1 > req.prompt + req.maxOut
        /\ event = "confirmed" =>
             /\ req.cached + 1 <= req.prompt + req.maxOut
             /\ req'.st = req.st /\ req'.cached = req.cached + 1
             /\ req'.released = req.released
        /\ event # "confirmed" =>
             req'.st = "Done" /\ req'.cached = req.cached /\ req'.released
    BY <1>0, <1>4, DecodeStepFields DEF DoDecodeStep
  <2>2. /\ req.st = "Decode" /\ taken' = taken
        /\ ended' = IF event = "confirmed" THEN ended ELSE event
    BY <1>4 DEF DoDecodeStep
  <2>. HIDE DEF event
  <2>3. CASE event = "confirmed"
    BY <1>0, <2>1, <2>2, <2>3
  <2>4. CASE event # "confirmed"
    BY <1>0, <2>1, <2>2, <2>4
  <2>. QED BY <2>3, <2>4
<1>5. ASSUME NEW end \in {"Done", "Aborted"}, NEW how \in {"finish", "abort"},
             ~Terminal(req), taken' = taken, ended' = how,
             req' = [req EXCEPT !.st = end, !.released = TRUE]
      PROVE  Inv'
  <2>1. /\ req' \in Request /\ req'.st = end /\ req'.released
        /\ req'.prompt = req.prompt /\ req'.maxOut = req.maxOut
        /\ req'.cached = req.cached /\ req'.device = req.device
    BY <1>0, <1>5, FinishedFields
  <2>. QED BY <1>0, <1>5, <2>1
<1>6. CASE DoFinish \/ DoAbort
  <2>1. CASE req' = req /\ ended' = ended /\ taken' = taken
    BY <2>1
  <2>. QED BY <1>5, <1>6, <2>1 DEF DoFinish, Finish, DoAbort, Abort, Finished
<1>7. CASE DoPreempt
  <2>1. /\ req' \in Request /\ req'.st = "Preempted" /\ req'.cached = 0 /\ req'.device = 0
        /\ req'.prompt = req.prompt /\ req'.maxOut = req.maxOut
        /\ req'.released = req.released
    BY <1>0, <1>7, PreemptFields DEF DoPreempt
  <2>2. /\ req.st \in {"Prefill", "Chunked", "Decode"}
        /\ taken' = taken /\ ended' = ended
    BY <1>7 DEF DoPreempt, CanPreempt
  <2>. QED BY <1>0, <2>1, <2>2
<1>8. CASE DoTakeRelease
  <2>1. /\ req' \in Request /\ req'.st = req.st /\ req'.released = FALSE
        /\ req'.prompt = req.prompt /\ req'.maxOut = req.maxOut
        /\ req'.cached = req.cached /\ req'.device = req.device
    BY <1>0, <1>8, TakeReleaseFields DEF DoTakeRelease
  <2>2. taken' = (IF req.released THEN taken + 1 ELSE taken) /\ ended' = ended
    BY <1>8 DEF DoTakeRelease
  <2>. QED BY <1>0, <2>1, <2>2
<1>9. CASE UNCHANGED vars
  BY <1>9 DEF vars
<1>. QED BY <1>1, <1>2, <1>3, <1>4, <1>6, <1>7, <1>8, <1>9 DEF Next

\* The invariant holds in every reachable state.
LEMMA InvHolds == Spec => []Inv
BY InitInv, NextInv, PTL DEF Spec

\* The record of a request, the count of its releases and what ended it keep
\* their types.
THEOREM TypeCorrect == Spec => []TypeOK
<1>1. Inv => TypeOK
  BY DEF Inv
<1>. QED BY <1>1, InvHolds, PTL

\* The cursor invariant of assert_cursors_valid holds in every state, for
\* prompts, caps and chunks of any size.
THEOREM CursorsAlwaysValid == Spec => []CursorsValid
<1>1. Inv => CursorsValid
  BY DEF Inv
<1>. QED BY <1>1, InvHolds, PTL

\* The release guard fires at most once in the life of a request, and only
\* for a request that has ended.
THEOREM ReleaseFiresOnce == Spec => []ReleasedExactlyOnce
<1>1. Inv => ReleasedExactlyOnce
  BY DEF Inv
<1>. QED BY <1>1, InvHolds, PTL

\* A request that the cap ended has exactly the capped number of tokens.
THEOREM CapEndsExactly == Spec => []CapIsExact
<1>1. Inv => CapIsExact
  BY DEF Inv
<1>. QED BY <1>1, InvHolds, PTL

\* No operation revives an ended request or changes how it ended.
THEOREM TombstonesStay == Spec => EndStaysFinal
<1>1. Inv /\ [Next]_vars => [EndIsFinal]_vars
  <2>. SUFFICES ASSUME Inv, Next PROVE EndIsFinal
    BY DEF vars
  <2>. USE DEF EndIsFinal, Inv, TypeOK, EndedIffTerminal, Terminal, Prefilling
  <2>1. ASSUME NEW p \in PromptLens, NEW m \in OutputCaps, NEW c \in ChunkSizes,
               DoStartPrefill(p, m, c)
        PROVE  EndIsFinal
    BY <2>1 DEF DoStartPrefill, CanStartPrefill
  <2>2. ASSUME NEW c \in ChunkSizes, DoDispatchChunk(c) PROVE EndIsFinal
    BY <2>2 DEF DoDispatchChunk, CanDispatchChunk
  <2>3. ASSUME NEW kind \in {"token", "eos", "stop"}, DoDecodeStep(kind) PROVE EndIsFinal
    BY <2>3 DEF DoDecodeStep
  <2>4. CASE DoConfirm \/ DoPreempt
    BY <2>4 DEF DoConfirm, DoPreempt, CanPreempt
  <2>5. CASE DoFinish \/ DoAbort
    BY <2>5 DEF DoFinish, Finish, DoAbort, Abort
  <2>6. CASE DoTakeRelease
    BY <2>6, TakeReleaseFields DEF DoTakeRelease
  <2>. QED BY <2>1, <2>2, <2>3, <2>4, <2>5, <2>6 DEF Next
<1>. QED BY <1>1, InvHolds, PTL DEF Spec, EndStaysFinal
=============================================================================
