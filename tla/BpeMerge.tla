------------------------------ MODULE BpeMerge ------------------------------
(***************************************************************************)
(* The merge loop of the byte-level BPE encoder (encode_word and           *)
(* add_new_bigram of crates/tokenizer/src/bpe.rs): a doubly linked chain   *)
(* of symbols over the word and a heap of candidate pairs, whose entries   *)
(* go stale when a neighbour merges first.                                 *)
(*                                                                         *)
(* A symbol is known by its index, which is also where its text starts, so *)
(* an entry's snapshot needs the two lengths only.  The heap is a set: no  *)
(* two pushed entries are equal, because one of the two lengths has grown  *)
(* between them.                                                           *)
(***************************************************************************)
EXTENDS Tokenizer

Rank == Vocab.rank          \* <<left text, right text>> -> rank of the merge rule
TokenOf == Vocab.tokenOf    \* text -> token

\* Symbols are numbered from 1; 0 is "none".
Chain(word) == [i \in DOMAIN word |-> [len |-> 1, prev |-> i - 1,
                                       next |-> IF i = Len(word) THEN 0 ELSE i + 1]]

TextAt(word, i, len) == SubSeq(word, i, i + len - 1)
SymText(word, syms, i) == TextAt(word, i, syms[i].len)

\* add_new_bigram: the entry it pushes, if any.
NewBigram(word, syms, l, r) ==
  IF l = 0 \/ r = 0 THEN {}
  ELSE LET pair == <<SymText(word, syms, l), SymText(word, syms, r)>>
       IN  IF syms[l].len = 0 \/ syms[r].len = 0 \/ pair \notin DOMAIN Rank THEN {}
           ELSE {[rank |-> Rank[pair], left |-> l, right |-> r,
                  llen |-> syms[l].len, rlen |-> syms[r].len]}

FirstBigrams(word) ==
  UNION {NewBigram(word, Chain(word), i - 1, i) : i \in 2 .. Len(word)}

\* What the heap may pop: lowest rank, then leftmost.
Top(heap) ==
  {b \in heap : \A c \in heap : \/ b.rank < c.rank
                                \/ b.rank = c.rank /\ b.left <= c.left}

\* An entry that only looks whether its symbols still exist (mutant).
ExistsStill(syms, b) == syms[b.left].len > 0 /\ syms[b.right].len > 0

\* The staleness check: both symbols are there, as long as they were.
Fresh(syms, b) ==
  syms[b.left].len > 0 /\ syms[b.left].len = b.llen /\ syms[b.right].len = b.rlen

\* The right symbol goes into the left one and leaves the chain.
MergeInto(syms, l, r) ==
  LET joined == [syms EXCEPT ![l].len = @ + syms[r].len, ![l].next = syms[r].next,
                             ![r].len = 0]
  IN  IF syms[r].next = 0 THEN joined ELSE [joined EXCEPT ![syms[r].next].prev = l]

\* One turn of the loop: pop b; a stale one is dropped, a fresh one merges and
\* its two neighbours become candidates.
PopMerge(word, syms, heap, b) ==
  LET rest == heap \ {b}
      new == MergeInto(syms, b.left, b.right)
  IN  IF ~Fresh(syms, b) THEN [syms |-> syms, heap |-> rest]
      ELSE [syms |-> new,
            heap |-> rest \union NewBigram(word, new, new[b.left].prev, b.left)
                          \union NewBigram(word, new, b.left, new[b.left].next)]

\* The texts of the symbols left, in order, and the tokens they stand for: the
\* token of the text, else one for each of its bytes - those of the characters
\* that stand for bytes - as if it were a byte of the word; without one, none.
Parts(word, syms) ==
  LET live == SelectSeq([i \in DOMAIN syms |-> i], LAMBDA i : syms[i].len > 0)
  IN  [k \in DOMAIN live |-> SymText(word, syms, live[k])]
ByteTokens(text) ==
  LET known == SelectSeq(Utf8Of(text), LAMBDA b : <<ByteToUnicode(b)>> \in DOMAIN TokenOf)
  IN  [k \in DOMAIN known |-> TokenOf[<<ByteToUnicode(known[k])>>]]
Tokens(parts) ==
  FlattenSeq([k \in DOMAIN parts |->
    IF parts[k] \in DOMAIN TokenOf THEN <<TokenOf[parts[k]]>> ELSE ByteTokens(parts[k])])

-----------------------------------------------------------------------------
(* What merging means: as long as a rule applies, join the leftmost pair of *)
(* the lowest rank.                                                         *)

Joinable(parts) == {i \in 1 .. (Len(parts) - 1) : <<parts[i], parts[i + 1]>> \in DOMAIN Rank}
RankAt(parts, i) == Rank[<<parts[i], parts[i + 1]>>]
Leftmost(parts) == CHOOSE i \in Joinable(parts) : \A j \in Joinable(parts) :
                       \/ RankAt(parts, i) < RankAt(parts, j)
                       \/ RankAt(parts, i) = RankAt(parts, j) /\ i <= j
JoinOnce(parts) ==
  IF Joinable(parts) = {} THEN parts
  ELSE LET i == Leftmost(parts)
       IN  SubSeq(parts, 1, i - 1) \o <<parts[i] \o parts[i + 1]>>
             \o SubSeq(parts, i + 2, Len(parts))

GreedyParts(word) ==
  LET after[n \in 0 .. Len(word)] ==
        IF n = 0 THEN [i \in DOMAIN word |-> <<word[i]>>] ELSE JoinOnce(after[n - 1])
  IN  after[Len(word)]
=============================================================================
