----------------------------- MODULE Completion -----------------------------
(***************************************************************************)
(* A completion from the prompt's text to the client's text: the encoder   *)
(* (Tokenizer, BpeMerge), the request's machine (ReqMachine) with the stop matcher    *)
(* that decides what ends it, the frames decode_step of                    *)
(* bin/reinfer/src/sched_loop.rs sends, and beside it generate_stream of   *)
(* bin/reinfer/src/pipeline.rs, the loop that serves the same request when *)
(* the scheduler is off, fed with the same sampled tokens.                 *)
(*                                                                         *)
(* A slice of text inside a character panics: the thread, and with it the  *)
(* completion, stops there.  A preempted request generates its output      *)
(* again while `generated` and `last_len` stay (SchedLoop, Victim).        *)
(***************************************************************************)
EXTENDS ReqMachine, TextOps, BpeMerge

CONSTANTS Asks,         \* what is encoded: a text, whether its special tokens are
                        \* told, and whether it is a prompt
          Eos,          \* the token that ends a sequence
          MaxPreempts   \* bound: preemptions of the request

ASSUME CompletionAssumption == Eos \in DOMAIN Piece /\ MaxPreempts \in Nat

VARIABLES ask,       \* encode: its arguments
          stage,     \* encode: "text", "words", or "prompt" when it has returned
          todo,      \* encode: the words and special tokens to come
          word,      \* encode_word: the word, empty before and after
          syms,      \* encode_word: the symbol chain
          heap,      \* encode_word: the candidates
          prompt,    \* the prompt's tokens
          gen,       \* ReqMeta.generated
          mark,      \* ReqMeta.last_len
          sent,      \* the text of the Token frames, in order
          win,       \* StopMatcher.buf
          life,      \* history: the tokens sampled since the last start
          preempts,  \* history: the preemptions so far
          panicked,  \* the slice of a delta panicked
          inc,       \* an IncrementalDecoder that takes after every token
          serial     \* the locals of generate_stream

textVars == <<gen, mark, sent, win, life, preempts, panicked, inc, serial>>
encodeVars == <<ask, stage, todo, word, syms, heap, prompt>>
cvars == <<req, taken, ended, encodeVars, textVars>>

NoOutput == [gen |-> <<>>, mark |-> 0, sent |-> <<>>, end |-> "none"]

CInit ==
  /\ Init
  /\ ask \in Asks /\ stage = "text"
  /\ todo = <<>> /\ word = <<>> /\ syms = <<>> /\ heap = {} /\ prompt = <<>>
  /\ gen = <<>> /\ mark = 0 /\ sent = <<>> /\ win = <<>> /\ life = <<>>
  /\ preempts = 0 /\ panicked = FALSE
  /\ inc = [pending |-> <<>>, text |-> <<>>]
  /\ serial = NoOutput

-----------------------------------------------------------------------------
(* Encoding *)

Bos == IF Vocab.addBos THEN <<Vocab.bos>> ELSE <<>>
EosOf(ids) == IF Vocab.addEos THEN Append(ids, Vocab.eos) ELSE ids

\* The text falls into special tokens and words.
Split ==
  /\ stage = "text"
  /\ stage' = "words" /\ prompt' = Bos
  /\ todo' = Items(ask.text, ask.special)
  /\ UNCHANGED <<req, taken, ended, ask, word, syms, heap, textVars>>

EncodeSpecial ==
  /\ stage = "words" /\ word = <<>> /\ todo # <<>>
  /\ Head(todo).id # None
  /\ prompt' = Append(prompt, Head(todo).id)
  /\ todo' = Tail(todo)
  /\ UNCHANGED <<req, taken, ended, ask, stage, word, syms, heap, textVars>>

\* encode_word, of the next word.
EncodeWord ==
  /\ stage = "words" /\ word = <<>> /\ todo # <<>>
  /\ Head(todo).id = None
  /\ word' = Head(todo).raw
  /\ syms' = Chain(word') /\ heap' = FirstBigrams(word')
  /\ todo' = Tail(todo)
  /\ UNCHANGED <<req, taken, ended, ask, stage, prompt, textVars>>

Merge ==
  /\ \E b \in Top(heap) : /\ syms' = PopMerge(word, syms, heap, b).syms
                          /\ heap' = PopMerge(word, syms, heap, b).heap
  /\ UNCHANGED <<req, taken, ended, ask, stage, todo, word, prompt, textVars>>

\* The heap is empty: what is left of the chain becomes tokens.
WordEnds ==
  /\ heap = {} /\ word # <<>>
  /\ prompt' = prompt \o Tokens(Parts(word, syms))
  /\ word' = <<>> /\ syms' = <<>>
  /\ UNCHANGED <<req, taken, ended, ask, stage, todo, heap, textVars>>

EncodeEnds ==
  /\ stage = "words" /\ word = <<>> /\ todo = <<>>
  /\ stage' = "prompt" /\ prompt' = EosOf(prompt)
  /\ UNCHANGED <<req, taken, ended, ask, todo, word, syms, heap, textVars>>

Encode == Split \/ EncodeSpecial \/ EncodeWord \/ Merge \/ WordEnds \/ EncodeEnds

-----------------------------------------------------------------------------
(* One sampled token *)

\* A stop pattern is looked for first, then EOS; the cap is DecodeEvent's.
Kind(t) == IF Hits(win, t) THEN "stop" ELSE IF t = Eos THEN "eos" ELSE "token"

\* The frame of a confirmed token: the part of the text that is new in bytes.
SendDelta(t) ==
  LET g == Append(gen, t)
  IN  /\ gen' = g
      /\ panicked' = Panics(g, mark)
      /\ sent' = IF Panics(g, mark) THEN sent ELSE sent \o Delta(g, mark)
      /\ mark' = IF Panics(g, mark) THEN mark ELSE MarkAfter(g, mark)

\* push and take of the incremental decoder.
Feed(d, t) == LET p == Take(d.pending \o Piece[t])
              IN  [pending |-> p.rest, text |-> d.text \o p.text]

\* One turn of generate_stream that looks for a stop before it keeps the token,
\* in the output so far (mutant).
SerialStopsLate(s, t, cap) ==
  IF s.end # "none" THEN s
  ELSE IF Len(s.gen) >= cap THEN [s EXCEPT !.end = "length"]
  ELSE IF t = Eos THEN [s EXCEPT !.end = "eos"]
  ELSE IF \E i \in DOMAIN Stops : EndsWith(s.gen, Stops[i]) THEN [s EXCEPT !.end = "stop"]
  ELSE LET g == Append(s.gen, t)
       IN  IF Panics(g, s.mark) THEN [s EXCEPT !.gen = g, !.end = "panic"]
           ELSE [s EXCEPT !.gen = g, !.mark = MarkAfter(g, s.mark), !.sent = @ \o Delta(g, s.mark)]

\* One turn of generate_stream: the output cap, EOS, then the stop patterns,
\* whose tokens leave `generated` again, then the delta.
SerialTurn(s, t, cap) ==
  LET g == Append(s.gen, t)
      found == {i \in DOMAIN Stops : EndsWith(g, Stops[i])}
  IN  IF s.end # "none" THEN s
      ELSE IF Len(s.gen) >= cap THEN [s EXCEPT !.end = "length"]
      ELSE IF t = Eos THEN [s EXCEPT !.end = "eos"]
      ELSE IF found # {}
      THEN [s EXCEPT !.end = "stop", !.gen = SubSeq(g, 1, Len(g) - Len(Stops[Min(found)]))]
      ELSE IF Panics(g, s.mark) THEN [s EXCEPT !.gen = g, !.end = "panic"]
      ELSE [s EXCEPT !.gen = g, !.mark = MarkAfter(g, s.mark), !.sent = @ \o Delta(g, s.mark)]

Sample(t) ==
  /\ DoDecodeStep(Kind(t))
  /\ life' = Append(life, t)
  /\ win' = IF Hits(win, t) THEN win ELSE Slide(win, t)
  /\ serial' = IF preempts = 0 THEN SerialTurn(serial, t, req.maxOut) ELSE serial
  /\ IF DecodeEvent(req, Kind(t)) = "confirmed"
     THEN SendDelta(t) /\ inc' = Feed(inc, t)
     ELSE UNCHANGED <<gen, mark, sent, panicked, inc>>
  /\ UNCHANGED <<encodeVars, preempts>>

\* The output stream starts over: the matcher forgets, `generated` stays.
Restart ==
  /\ preempts < MaxPreempts
  /\ DoPreempt
  /\ win' = <<>> /\ life' = <<>> /\ preempts' = preempts + 1 /\ serial' = NoOutput
  /\ UNCHANGED <<encodeVars, gen, mark, sent, panicked, inc>>

\* The operations that touch no text.
Machine ==
  /\ \/ \E m \in OutputCaps, c \in ChunkSizes : DoStartPrefill(Len(prompt), m, c)
     \/ \E c \in ChunkSizes : DoDispatchChunk(c)
     \/ DoConfirm \/ DoFinish \/ DoAbort \/ DoTakeRelease
  /\ UNCHANGED <<encodeVars, textVars>>

Asked == stage = "prompt" /\ ask.prompt /\ ~panicked

CNext == Encode \/ (Asked /\ (Machine \/ Restart \/ \E t \in DOMAIN Piece : Sample(t)))

CSpec == CInit /\ [][CNext]_cvars

-----------------------------------------------------------------------------
(* Properties *)

\* What encode must return: the special tokens and the words llama.cpp makes of
\* the text, and of every word the parts that joining the leftmost pair of the
\* lowest rank, again and again, gives.
ReferenceTokens(text, special) ==
  LET parts == BySpecials(text, Active(special))
      OfWord(w) == Tokens(GreedyParts(ByteEncoded(w)))
      OfPart(p) == IF p.id # None THEN <<p.id>>
                   ELSE LET words == PatternWords(p.raw)
                        IN  FlattenSeq([k \in DOMAIN words |-> OfWord(words[k])])
  IN  FlattenSeq([k \in DOMAIN parts |-> OfPart(parts[k])])

Deviant(text, special) ==
  \E p \in ToSet(BySpecials(text, Active(special))) : \E i \in DOMAIN p.raw : Deviates(p.raw, i)

\* Two specials that overlap, neither within the other.
Overlapping(text, special) ==
  \E a, b \in Active(special) :
    \E i \in Occurrences(text, 1, a), j \in Occurrences(text, 1, b) :
      i < j /\ j < i + Len(Vocab.pieces[a]) /\ j + Len(Vocab.pieces[b]) > i + Len(Vocab.pieces[a])

\* Every byte of the text is there again when the prompt is decoded, in place,
\* but for the control tokens.
TextBytes(text, special) ==
  LET parts == BySpecials(text, Active(special))
  IN  FlattenSeq([k \in DOMAIN parts |->
        IF parts[k].id = None THEN Utf8Of(parts[k].raw) ELSE PieceBytes(parts[k].id)])

\* However stale the heap's entries are and whichever of two equal ones it pops
\* first, and by whatever way a hand-written scanner and a search for all
\* specials at once come to its words: encode returns what llama.cpp's patterns
\* and merges say, and loses no byte of the text.
EncodeFaithful ==
  stage = "words" /\ word = <<>> /\ todo = <<>> /\ ~Overlapping(ask.text, ask.special) =>
    /\ ~Deviant(ask.text, ask.special) => prompt = Bos \o ReferenceTokens(ask.text, ask.special)
    /\ FlattenSeq([i \in DOMAIN prompt |-> PieceBytes(prompt[i])])
         = FlattenSeq([i \in DOMAIN Bos |-> PieceBytes(Bos[i])]) \o TextBytes(ask.text, ask.special)

\* The decoder's first line: the texts it hands out chunk by chunk, with the
\* flush of what is left, are the text of all bytes at once, wherever the
\* tokens split a character and whatever invalid bytes come between.
DecoderChunkwise == inc.text \o Flush(inc.pending) = Decoded(gen)

\* A stop ends the request exactly at the first token that completes a pattern
\* of the output since the last start: never by tokens from before a
\* preemption, never missed because the window dropped a token it needs.
StopsExactly == (ended = "stop") = \E i \in DOMAIN Stops : EndsWith(life, Stops[i])

\* Scheduler or serial loop: for the same sampled tokens the client gets the
\* same text, after every token and in the end, although the two look for
\* stops, EOS and the cap in different orders and one of them takes a matched
\* pattern back; and where one panics the other does.
PathsEmitSame ==
  preempts = 0 => /\ serial.sent = sent
                  /\ panicked = (serial.end = "panic")
                  /\ ended \in {"eos", "stop", "cap"} => serial.end # "none"

\* "Detokenized delta text since the previous frame" (sched_loop.rs:302): the
\* deltas of an unpreempted request add up to the text of its tokens.  The code
\* cuts the new text at the old length in bytes, and the old text ended in a
\* replacement for a character that was not complete yet.
ClientGetsTheText ==
  preempts = 0 => ~panicked /\ (ended \in {"eos", "stop", "cap"} => sent = Decoded(gen))
=============================================================================
