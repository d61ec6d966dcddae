------------------------------- MODULE TextOps -------------------------------
(***************************************************************************)
(* Text on its way to the client: the UTF-8 decoder                        *)
(* (crates/tokenizer/src/decode.rs), the text of a token sequence          *)
(* (bpe.rs), the part of it a frame carries (bin/reinfer/src/sched_loop.rs *)
(* and pipeline.rs), and the stop matcher (crates/scheduler/src/stop.rs).  *)
(*                                                                         *)
(* A byte is told by its role: a character of its own, the lead of one     *)
(* that needs further bytes, a continuation, or a byte UTF-8 never has.  A *)
(* character is the sequence of its bytes and a text one of characters.    *)
(***************************************************************************)
EXTENDS Naturals, Sequences, SequencesExt

CONSTANTS Piece,    \* per token, its bytes (piece_bytes)
          Stops     \* the non-empty stop patterns, in order, as token sequences

Letters == {"a", "b"}
LeadWidth == [lead2 |-> 2, lead3 |-> 3, lead4 |-> 4]
Leads == DOMAIN LeadWidth
Bytes == Letters \union Leads \union {"cont", "bad"}

ASSUME TextAssumption ==
  /\ \A t \in DOMAIN Piece : Piece[t] \in Seq(Bytes)
  /\ \A i \in DOMAIN Stops : Stops[i] \in Seq(DOMAIN Piece) \ {<<>>}

\* U+FFFD, which takes three bytes.
Replacement == <<"fffd1", "fffd2", "fffd3">>

-----------------------------------------------------------------------------
(* The decoder *)

Width(b) == IF b \in Leads THEN LeadWidth[b] ELSE IF b \in Letters THEN 1 ELSE 0

\* The bytes of s from i on that belong to the character s[i] starts, as far
\* as they are there (0: s[i] starts none).
Present(s, i) ==
  LET ends == {j \in i .. Len(s) : /\ j < i + Width(s[i])
                                   /\ \A k \in (i + 1) .. j : s[k] = "cont"}
  IN  IF ends = {} THEN 0 ELSE Max(ends) - i + 1

\* What from_utf8 says of position i: a character, an invalid sequence (with
\* its length), or a sequence cut off by the end of the buffer.
IsChar(s, i) == Width(s[i]) > 0 /\ Present(s, i) = Width(s[i])
IsCutOff(s, i) == Width(s[i]) > 0 /\ ~IsChar(s, i) /\ i + Present(s, i) = Len(s) + 1
ErrorLen(s, i) == IF Width(s[i]) = 0 THEN 1 ELSE Present(s, i)

\* A decoder that replaces a sequence as soon as the buffer ends in it (mutant).
TakeAll(s) ==
  LET from[i \in 1 .. (Len(s) + 1)] ==
        IF i = Len(s) + 1 THEN [text |-> <<>>, rest |-> <<>>]
        ELSE LET n == IF IsChar(s, i) THEN Width(s[i]) ELSE ErrorLen(s, i)
                 c == IF IsChar(s, i) THEN SubSeq(s, i, i + n - 1) ELSE Replacement
                 later == from[i + n]
             IN  [text |-> <<c>> \o later.text, rest |-> later.rest]
  IN  from[1]

\* take: the complete sequences of the buffer, an invalid one as U+FFFD; what
\* the end of the buffer cuts off stays.
Take(s) ==
  LET from[i \in 1 .. (Len(s) + 1)] ==
        IF i = Len(s) + 1 THEN [text |-> <<>>, rest |-> <<>>]
        ELSE IF IsCutOff(s, i)
        THEN [text |-> <<>>, rest |-> SubSeq(s, i, Len(s))]
        ELSE LET n == IF IsChar(s, i) THEN Width(s[i]) ELSE ErrorLen(s, i)
                 c == IF IsChar(s, i) THEN SubSeq(s, i, i + n - 1) ELSE Replacement
                 later == from[i + n]
             IN  [text |-> <<c>> \o later.text, rest |-> later.rest]
  IN  from[1]

\* flush: what take gives, and one U+FFFD for what it leaves.
Flush(s) == LET got == Take(s)
            IN  IF got.rest = <<>> THEN got.text ELSE Append(got.text, Replacement)

\* decode_all
Decoded(tokens) == Flush(FlattenSeq([i \in DOMAIN tokens |-> Piece[tokens[i]]]))

-----------------------------------------------------------------------------
(* The delta of a frame *)

ByteLen(text) == Len(FlattenSeq(text))

\* The texts a str of that many bytes may be cut at: &full[mark..] panics
\* unless mark is the end of a character.
AtBoundary(text, mark) == \E k \in 0 .. Len(text) : ByteLen(SubSeq(text, 1, k)) = mark

\* The text from byte `mark` on.
From(text, mark) ==
  LET k == CHOOSE k \in 0 .. Len(text) : ByteLen(SubSeq(text, 1, k)) = mark
  IN  SubSeq(text, k + 1, Len(text))

\* What the next frame carries after `mark` bytes were sent.
Grows(tokens, mark) == ByteLen(Decoded(tokens)) > mark
Panics(tokens, mark) == Grows(tokens, mark) /\ ~AtBoundary(Decoded(tokens), mark)
Delta(tokens, mark) == IF Grows(tokens, mark) THEN From(Decoded(tokens), mark) ELSE <<>>
MarkAfter(tokens, mark) == IF Grows(tokens, mark) THEN ByteLen(Decoded(tokens)) ELSE mark

-----------------------------------------------------------------------------
(* The stop matcher *)

Longest == IF Stops = <<>> THEN 0 ELSE Max({Len(Stops[i]) : i \in DOMAIN Stops})

EndsWith(s, p) == Len(p) <= Len(s) /\ SubSeq(s, Len(s) - Len(p) + 1, Len(s)) = p

\* push: whether a pattern is complete with this token, given the window of
\* the tokens before.
Hits(win, t) == \E i \in DOMAIN Stops : EndsWith(Append(win, t), Stops[i])

LastOf(s, n) == SubSeq(s, Len(s) - (IF n < Len(s) THEN n ELSE Len(s)) + 1, Len(s))

\* A window one token short (mutant).
SlideShort(win, t) == IF Longest > 1 THEN LastOf(Append(win, t), Longest - 2) ELSE win

\* push: the window keeps the last max_len - 1 tokens.
Slide(win, t) == IF Longest > 1 THEN LastOf(Append(win, t), Longest - 1) ELSE win
=============================================================================
