------------------------------ MODULE Tokenizer ------------------------------
(***************************************************************************)
(* The byte-level BPE tokenizer before and after it merges (bpe.rs and     *)
(* unicode.rs of crates/tokenizer): the vocabulary from the files of a     *)
(* model, special tokens told from text, text cut into words that are      *)
(* merged on their own (BpeMerge), and the bytes of a token.               *)
(*                                                                         *)
(* A character is its code point, a byte a number below 256, a text a      *)
(* sequence of either.  Piece ids count from 0.                            *)
(***************************************************************************)
EXTENDS Integers, Sequences, SequencesExt

CONSTANTS HfJson,      \* tokenizer.json and tokenizer_config.json
          Alphabetic,  \* the characters char::is_alphabetic has,
          Numeric      \* and char::is_numeric

None == -1

-----------------------------------------------------------------------------
(* Bytes as characters *)

Utf8(c) ==
  IF c < 128 THEN <<c>>
  ELSE IF c < 2048 THEN <<192 + c \div 64, 128 + (c % 64)>>
  ELSE <<224 + c \div 4096, 128 + ((c \div 64) % 64), 128 + (c % 64)>>

Utf8Of(text) == FlattenSeq([i \in DOMAIN text |-> Utf8(text[i])])

Direct(b) == b \in (33 .. 126) \cup (161 .. 172) \cup (174 .. 255)

\* missing_rank: the place of b among the bytes without a character of their own.
MissingRank(b) == CASE b \in 0 .. 32    -> b
                    [] b \in 127 .. 160 -> 33 + (b - 127)
                    [] b = 173          -> 67

ByteToUnicode(b) == IF Direct(b) THEN b ELSE 256 + MissingRank(b)
UnicodeToByte == [c \in {ByteToUnicode(b) : b \in 0 .. 255} |->
                    CHOOSE b \in 0 .. 255 : ByteToUnicode(b) = c]

ByteEncoded(text) ==
  LET bytes == Utf8Of(text)
  IN  [i \in DOMAIN bytes |-> ByteToUnicode(bytes[i])]

-----------------------------------------------------------------------------
(* The vocabulary *)

Types == {"UNDEFINED", "NORMAL", "UNKNOWN", "CONTROL", "USER_DEFINED", "UNUSED", "BYTE"}

Texts(pieces) == {pieces[id] : id \in DOMAIN pieces}

\* from_parts.  Of two pieces with one text, and of two rules for one pair, the
\* later one counts.
FromParts(pieces, types, merges) ==
  [pieces |-> pieces,
   types |-> types,
   tokenOf |-> [text \in Texts(pieces) |-> Max({id \in DOMAIN pieces : pieces[id] = text})],
   rank |-> [pair \in {merges[i] : i \in DOMAIN merges} |->
               Max({i \in DOMAIN merges : merges[i] = pair})],
   specials |-> {id \in DOMAIN pieces : types[id] \in {"CONTROL", "USER_DEFINED", "UNKNOWN"}}]

\* from_hf_json: the pieces of the vocabulary by id, gaps left empty; then the
\* added tokens, whose text fills a gap only.
HfPieces(json) ==
  LET ids == {json.vocab[t] : t \in DOMAIN json.vocab}
             \cup {json.added[i].id : i \in DOMAIN json.added}
      InVocab(id) == {t \in DOMAIN json.vocab : json.vocab[t] = id}
      Added(id) == SelectSeq(json.added, LAMBDA a : a.id = id)
  IN  [id \in 0 .. Max(ids) |->
         IF InVocab(id) # {} THEN CHOOSE t \in InVocab(id) : TRUE
         ELSE IF Added(id) # <<>> THEN Head(Added(id)).content ELSE <<>>]

\* Every added token is matched as a whole, special or not.
HfTypes(json) ==
  [id \in DOMAIN HfPieces(json) |->
     LET added == SelectSeq(json.added, LAMBDA a : a.id = id)
     IN  IF added = <<>> THEN "NORMAL"
         ELSE IF Last(added).special THEN "CONTROL" ELSE "USER_DEFINED"]

\* The first piece with that text.
Lookup(pieces, text) ==
  IF text \in Texts(pieces) THEN Min({id \in DOMAIN pieces : pieces[id] = text}) ELSE None

FromHfJson(json) ==
  LET pieces == HfPieces(json)
  IN  FromParts(pieces, HfTypes(json), json.merges)
        @@ [bos |-> Lookup(pieces, json.bos), eos |-> Lookup(pieces, json.eos),
            addBos |-> json.addBos, addEos |-> json.addEos]

\* from_meta: the metadata of a GGUF file, where types may be missing and a
\* special token be known by id or by its usual text.
FromMeta(meta) ==
  LET IdOf(key, name) == IF key = None THEN Lookup(meta.tokens, name) ELSE key
      types == IF meta.types = <<>> THEN [id \in DOMAIN meta.tokens |-> "NORMAL"]
               ELSE [id \in DOMAIN meta.tokens |-> meta.types[id]]
  IN  FromParts(meta.tokens, types, meta.merges)
        @@ [bos |-> IdOf(meta.bos, <<60, 115, 62>>), eos |-> IdOf(meta.eos, <<60, 47, 115, 62>>),
            addBos |-> meta.addBos, addEos |-> meta.addEos]

Vocab == FromHfJson(HfJson)

ASSUME TokenizerAssumption ==
  /\ \A t \in DOMAIN HfJson.vocab : t # <<>>
  /\ Vocab.addBos => Vocab.bos # None     \* else every encode is an error
  /\ Vocab.addEos => Vocab.eos # None

-----------------------------------------------------------------------------
(* Special tokens *)

\* Where the text of id stands next, from pos on.
Occurrences(text, pos, id) ==
  LET piece == Vocab.pieces[id]
  IN  {i \in pos .. Len(text) + 1 - Len(piece) : SubSeq(text, i, i + Len(piece) - 1) = piece}

\* The specials encode looks for.
Active(parseSpecial) ==
  {id \in Vocab.specials : /\ Vocab.pieces[id] # <<>>
                           /\ parseSpecial \/ Vocab.types[id] = "USER_DEFINED"}

\* Of two specials the one further left; at one place the longer, then the
\* smaller id.
Before(a, b) ==
  \/ a.start < b.start
  \/ a.start = b.start /\ Len(Vocab.pieces[a.id]) > Len(Vocab.pieces[b.id])
  \/ a.start = b.start /\ Len(Vocab.pieces[a.id]) = Len(Vocab.pieces[b.id]) /\ a.id <= b.id

Raw(text) == [raw |-> text, id |-> None]
Special(id) == [raw |-> <<>>, id |-> id]

Partition(text, active) ==
  LET from[pos \in 1 .. Len(text) + 1] ==
        LET found == {[start |-> Min(Occurrences(text, pos, id)), id |-> id] :
                        id \in {s \in active : Occurrences(text, pos, s) # {}}}
            best == CHOOSE a \in found : \A b \in found : Before(a, b)
            rest == from[best.start + Len(Vocab.pieces[best.id])]
        IN  IF pos > Len(text) THEN <<>>
            ELSE IF found = {} THEN <<Raw(SubSeq(text, pos, Len(text)))>>
            ELSE IF best.start > pos
            THEN <<Raw(SubSeq(text, pos, best.start - 1)), Special(best.id)>> \o rest
            ELSE <<Special(best.id)>> \o rest
  IN  from[1]

-----------------------------------------------------------------------------
(* Words: the hand-written scanner of the QWEN2 pattern *)

Apostrophe == 39
Blank == 32
NewLines == {10, 13}
White == {9, Blank} \cup NewLines
Other(c) == c \notin White \cup Alphabetic \cup Numeric

Either(upper) == {upper, upper + 32}     \* a letter in both cases

\* How many characters of the kind follow one another from i on.
RunOf(Kind(_), s, i) ==
  Max({n \in 0 .. Len(s) - i + 1 : \A k \in i .. i + n - 1 : Kind(s[k])})

IsLetter(c) == c \in Alphabetic
IsNewLine(c) == c \in NewLines
IsWhite(c) == c \in White

\* A: 's 't 'm 'd and 're 've; for 'll the code asks for an e as well.
Contraction(s, i) ==
  IF i = Len(s) \/ s[i] # Apostrophe THEN 0
  ELSE IF s[i + 1] \in Either(83) \cup Either(84) \cup Either(77) \cup Either(68) THEN 2
  ELSE IF /\ i + 2 <= Len(s)
          /\ s[i + 1] \in Either(82) \cup Either(86) \cup Either(76)
          /\ s[i + 2] \in Either(69) THEN 3
  ELSE 0

\* B: letters, with one other character before them that is no digit and no
\* end of a line.
LetterRun(s, i) ==
  IF IsLetter(s[i]) THEN RunOf(IsLetter, s, i)
  ELSE IF /\ s[i] \notin Numeric \cup NewLines
          /\ i < Len(s) /\ IsLetter(s[i + 1]) THEN 1 + RunOf(IsLetter, s, i + 1)
  ELSE 0

\* C: one digit.
DigitRun(s, i) == IF s[i] \in Numeric THEN 1 ELSE 0

\* D: what is neither white nor letter nor digit, a blank before, ends of lines
\* after it.
OtherRun(s, i) ==
  LET start == IF s[i] = Blank THEN i + 1 ELSE i
      others == RunOf(Other, s, start)
      end == start + others
  IN  IF others = 0 THEN 0 ELSE end - i + RunOf(IsNewLine, s, end)

\* E: white space up to the first ends of lines.
LineRun(s, i) ==
  LET ends == {m \in i .. Len(s) : IsNewLine(s[m])}
      m == Min(ends)
  IN  IF ends # {} /\ (\A k \in i .. m - 1 : IsWhite(s[k]))
      THEN m - i + RunOf(IsNewLine, s, m) ELSE 0

\* F, G: white space, its last character left to the word after it.
WhiteRun(s, i) ==
  LET run == RunOf(IsWhite, s, i)
  IN  IF i + run <= Len(s) /\ run > 1 THEN run - 1 ELSE run

\* Lines end before the letters are looked for (mutant).
ScanLinesFirst(s, i) ==
  LET lengths == <<Contraction(s, i), LineRun(s, i), DigitRun(s, i), OtherRun(s, i),
                   WhiteRun(s, i), LetterRun(s, i)>>
      matched == {k \in DOMAIN lengths : lengths[k] > 0}
  IN  IF matched = {} THEN 1 ELSE lengths[Min(matched)]

\* scan_fragment: the length the first pattern that matches at i takes.
ScanFragment(s, i) ==
  LET lengths == <<Contraction(s, i), LetterRun(s, i), DigitRun(s, i), OtherRun(s, i),
                   LineRun(s, i), WhiteRun(s, i)>>
      matched == {k \in DOMAIN lengths : lengths[k] > 0}
  IN  IF matched = {} THEN 1 ELSE lengths[Min(matched)]

\* qwen2_fragments
Fragments(s) ==
  LET from[i \in 1 .. Len(s) + 1] ==
        IF i > Len(s) THEN <<>>
        ELSE LET n == ScanFragment(s, i) IN <<SubSeq(s, i, i + n - 1)>> \o from[i + n]
  IN  from[1]

\* encode, before anything is merged: special tokens, and words as characters
\* that stand for bytes.
WordsOf(item) ==
  IF item.id # None THEN <<item>>
  ELSE LET words == Fragments(item.raw)
       IN  [k \in DOMAIN words |-> Raw(ByteEncoded(words[k]))]

Items(text, parseSpecial) ==
  LET parts == Partition(text, Active(parseSpecial))
  IN  FlattenSeq([k \in DOMAIN parts |-> WordsOf(parts[k])])

-----------------------------------------------------------------------------
(* And back *)

\* A character that stands for no byte is told in words, left out here, with
\* the whole piece.
NormalBytes(piece) ==
  FlattenSeq([i \in DOMAIN piece |->
    IF piece[i] \in DOMAIN UnicodeToByte THEN <<UnicodeToByte[piece[i]]>> ELSE Utf8Of(piece)])

HexDigits == (48 .. 57) \cup (65 .. 70) \cup (97 .. 102)
HexValue(c) == IF c <= 57 THEN c - 48 ELSE (c - 55) % 32

\* A piece <0xXX>; 0 if it is none.
ByteOfHex(piece) ==
  IF /\ Len(piece) = 6 /\ SubSeq(piece, 1, 3) = <<60, 48, 120>> /\ piece[6] = 62
     /\ {piece[4], piece[5]} \subseteq HexDigits
  THEN 16 * HexValue(piece[4]) + HexValue(piece[5]) ELSE 0

\* piece_bytes, without special tokens.
PieceBytes(id) ==
  LET piece == Vocab.pieces[id]
      type == Vocab.types[id]
  IN  CASE type = "USER_DEFINED" -> Utf8Of(piece)
        [] type = "NORMAL" -> NormalBytes(piece)
        [] type = "BYTE" -> <<ByteOfHex(piece)>>
        [] OTHER -> <<>>

-----------------------------------------------------------------------------
(* SentencePiece models: vocabularies read from a GGUF file or from the wire *)
(* format of spiece.model, and decoded; encode refuses them (spm.rs).        *)
(* Pieces are bytes, types the numbers of the file, integers below 2^31.     *)

\* read_varint at `at`: seven bits a byte, the lowest first, ten bytes at most.
Varint(s, at) ==
  LET ends == {n \in 1 .. 10 : at + n - 1 <= Len(s) /\ s[at + n - 1] < 128}
      n == Min(ends)
      value[k \in 0 .. n] == IF k = n THEN 0 ELSE (s[at + k] % 128) + 128 * value[k + 1]
      ok == ends # {} /\ (n = 10 => s[at + 9] < 2)
  IN  [ok |-> ok, value |-> IF ok THEN value[0] ELSE 0, next |-> IF ok THEN at + n ELSE at]

\* A field: read_key, then a number (wire 0), a run of bytes (2) or eight or
\* four bytes that are skipped (1, 5).  Another wire or a field that goes past
\* the end is corrupt.
Field(s, at) ==
  LET key == Varint(s, at)
      wire == key.value % 8
      arg == Varint(s, key.next)
      start == IF wire = 2 THEN arg.next ELSE key.next
      end == CASE wire = 0 -> arg.next
               [] wire = 1 -> start + 8
               [] wire = 2 -> start + arg.value
               [] OTHER    -> start + 4
      ok == /\ key.ok /\ wire \in {0, 1, 2, 5} /\ (wire \in {0, 2} => arg.ok)
            /\ end <= Len(s) + 1
  IN  [ok |-> ok, field |-> key.value \div 8, wire |-> wire, next |-> end,
       value |-> IF wire = 0 THEN arg.value ELSE 0,
       body |-> IF ok /\ wire = 2 THEN SubSeq(s, start, end - 1) ELSE <<>>]

\* All fields, up to the first corrupt one.
FieldsOf(s) ==
  LET from[at \in 1 .. Len(s) + 1] ==
        IF at > Len(s) THEN <<>>
        ELSE LET f == Field(s, at) IN IF f.ok THEN <<f>> \o from[f.next] ELSE <<f>>
  IN  from[1]

Intact(fields) == \A i \in DOMAIN fields : fields[i].ok
FieldsWith(fields, field, wire) ==
  SelectSeq(fields, LAMBDA f : f.field = field /\ f.wire = wire)

\* from_utf8
Utf8Width(b) ==
  CASE b < 128 -> 1 [] b \in 194 .. 223 -> 2 [] b \in 224 .. 239 -> 3
    [] b \in 240 .. 244 -> 4 [] OTHER -> 0
SecondBytes(b) ==
  CASE b = 224 -> 160 .. 191 [] b = 237 -> 128 .. 159
    [] b = 240 -> 144 .. 191 [] b = 244 -> 128 .. 143 [] OTHER -> 128 .. 191
IsUtf8(s) ==
  LET from[i \in 1 .. Len(s) + 1] ==
        IF i > Len(s) THEN TRUE
        ELSE LET n == Utf8Width(s[i])
             IN  /\ n > 0 /\ i + n <= Len(s) + 1
                 /\ n > 1 => s[i + 1] \in SecondBytes(s[i])
                 /\ \A k \in i + 2 .. i + n - 1 : s[k] \in 128 .. 191
                 /\ from[i + n]
  IN  from[1]

\* SentencePiece types that have an output.
Normal == 1
UserDefined == 4
Byte == 6

\* parse_sentence_piece: the last text and the last type count.
SentencePiece(s) ==
  LET fields == FieldsOf(s)
      texts == FieldsWith(fields, 1, 2)
      types == FieldsWith(fields, 3, 0)
  IN  [ok |-> Intact(fields) /\ \A i \in DOMAIN texts : IsUtf8(texts[i].body),
       text |-> IF texts = <<>> THEN <<>> ELSE Last(texts).body,
       type |-> IF types = <<>> THEN Normal ELSE Last(types).value]

\* parse_model_proto: the pieces, none if the file is corrupt or has none.
ParseModelProto(s) ==
  LET fields == FieldsOf(s)
      found == FieldsWith(fields, 1, 2)
      pieces == [i \in DOMAIN found |-> SentencePiece(found[i].body)]
  IN  IF Intact(fields) /\ \A i \in DOMAIN pieces : pieces[i].ok
      THEN [i \in DOMAIN pieces |-> [text |-> pieces[i].text, type |-> pieces[i].type]]
      ELSE <<>>

\* from_container and, with the ids the metadata gives (or None), from_meta.
SpmVocab(pieces, types, ids, addBos) ==
  LET Named(name) == LET at == {i \in DOMAIN pieces : pieces[i] = name}
                     IN  IF at = {} THEN None ELSE Min(at) - 1
      IdOr(id, name) == IF id = None THEN Named(name) ELSE id
  IN  [pieces |-> pieces, types |-> types,
       bos |-> IdOr(ids.bos, <<60, 115, 62>>), eos |-> IdOr(ids.eos, <<60, 47, 115, 62>>),
       unk |-> IdOr(ids.unk, <<60, 117, 110, 107, 62>>), addBos |-> addBos]

NoIds == [bos |-> None, eos |-> None, unk |-> None]
SpmFromContainer(container) ==
  SpmVocab([i \in DOMAIN container |-> container[i].text],
           [i \in DOMAIN container |-> container[i].type], NoIds, TRUE)

\* Too few types are an error; further ones are dropped.
SpmMetaValid(meta) == meta.types = <<>> \/ Len(meta.types) >= Len(meta.tokens)
SpmFromMeta(meta) ==
  SpmVocab(meta.tokens,
           [i \in DOMAIN meta.tokens |-> IF meta.types = <<>> THEN Normal ELSE meta.types[i]],
           [bos |-> meta.bos, eos |-> meta.eos, unk |-> meta.unk], meta.addBos)

\* A blank for every U+2581.
WithBlanks(s) ==
  LET from[i \in 1 .. Len(s) + 1] ==
        IF i > Len(s) THEN <<>>
        ELSE IF i + 2 <= Len(s) /\ SubSeq(s, i, i + 2) = <<226, 150, 129>> THEN <<Blank>> \o from[i + 3]
        ELSE <<s[i]>> \o from[i + 1]
  IN  from[1]

\* piece_bytes, without special tokens; an id past the vocabulary is told.
SpmPieceBytes(v, id) ==
  IF id \notin 0 .. Len(v.pieces) - 1 THEN <<91, 85, 78, 75, 93>>
  ELSE LET piece == v.pieces[id + 1]
           type == v.types[id + 1]
       IN  CASE type = UserDefined -> piece
             [] type = Normal -> WithBlanks(piece)
             [] type = Byte -> <<ByteOfHex(piece)>>
             [] OTHER -> <<>>

\* decode_all, before its bytes become text.
SpmDecoded(v, ids) == FlattenSeq([i \in DOMAIN ids |-> SpmPieceBytes(v, ids[i])])

-----------------------------------------------------------------------------
(* What the comments say of it: llama.cpp splits a text special by special,  *)
(* the longest first (bpe.rs:6-10), and words are what the pattern           *)
(*   '(?:[sS]|[tT]|[rR][eE]|[vV][eE]|[mM]|[lL][lL]|[dD])                      *)
(*   |[^\r\n\p{L}\p{N}]?\p{L}+|\p{N}| ?[^\s\p{L}\p{N}]+[\r\n]*           *)
(*   |\s*[\r\n]+|\s+(?!\S)|\s+                                              *)
(* finds one after the other: its first alternative that matches, as long as *)
(* that can be (bpe.rs:616-626).                                             *)

SplitBy(parts, id) ==
  LET Cut(text) ==
        LET from[pos \in 1 .. Len(text) + 1] ==
              LET at == Min(Occurrences(text, pos, id))
                  before == IF at > pos THEN <<Raw(SubSeq(text, pos, at - 1))>> ELSE <<>>
              IN  IF pos > Len(text) THEN <<>>
                  ELSE IF Occurrences(text, pos, id) = {} THEN <<Raw(SubSeq(text, pos, Len(text)))>>
                  ELSE before \o <<Special(id)>> \o from[at + Len(Vocab.pieces[id])]
        IN  from[1]
  IN  FlattenSeq([k \in DOMAIN parts |->
        IF parts[k].id = None THEN Cut(parts[k].raw) ELSE <<parts[k]>>])

BySpecials(text, active) ==
  LET Length(id) == Len(Vocab.pieces[id])
      order == SetToSortSeq(active, LAMBDA a, b : \/ Length(a) > Length(b)
                                                  \/ Length(a) = Length(b) /\ a < b)
  IN  FoldLeft(SplitBy, IF text = <<>> THEN <<>> ELSE <<Raw(text)>>, order)

\* Whether the k-th alternative matches the n characters of s from i on.
Matches(k, s, i, n) ==
  LET w == SubSeq(s, i, i + n - 1)
      Of(from, to, kind) == \A j \in from .. to : w[j] \in kind
      Others(from, to) == \A j \in from .. to : Other(w[j])
  IN  CASE k = 1 -> /\ w[1] = Apostrophe
                    /\ \/ n = 2 /\ \E c \in {83, 84, 77, 68} : w[2] \in Either(c)
                       \/ n = 3 /\ \E c \in {<<82, 69>>, <<86, 69>>, <<76, 76>>} :
                                     w[2] \in Either(c[1]) /\ w[3] \in Either(c[2])
        [] k = 2 -> /\ w[1] \notin Numeric \cup NewLines
                    /\ w[n] \in Alphabetic /\ Of(2, n, Alphabetic)
        [] k = 3 -> n = 1 /\ w[1] \in Numeric
        [] k = 4 -> \E j \in 1 .. n : /\ Other(w[j])
                                      /\ Others(IF w[1] = Blank THEN 2 ELSE 1, j)
                                      /\ Of(j + 1, n, NewLines)
        [] k = 5 -> Of(1, n, White) /\ w[n] \in NewLines
        [] k = 6 -> Of(1, n, White) /\ (i + n <= Len(s) => s[i + n] \in White)
        [] k = 7 -> Of(1, n, White)

PatternLength(s, i) ==
  LET lengths(k) == {n \in 1 .. Len(s) - i + 1 : Matches(k, s, i, n)}
  IN  Max(lengths(Min({k \in 1 .. 7 : lengths(k) # {}})))

\* The two places where the scanner is known to go its own way: 'll and 'le,
\* and white space with ends of lines at more than one place in it.
Deviates(s, i) ==
  \/ /\ s[i] = Apostrophe /\ i + 2 <= Len(s)
     /\ s[i + 1] \in Either(76) /\ s[i + 2] \in Either(76) \cup Either(69)
  \/ \E j \in i .. Len(s), k \in i .. Len(s) :
        /\ j + 1 < k /\ \A m \in i .. k : IsWhite(s[m])
        /\ IsNewLine(s[j]) /\ IsNewLine(s[k]) /\ \E m \in j .. k : ~IsNewLine(s[m])

PatternWords(s) ==
  LET from[i \in 1 .. Len(s) + 1] ==
        IF i > Len(s) THEN <<>>
        ELSE LET n == PatternLength(s, i) IN <<SubSeq(s, i, i + n - 1)>> \o from[i + n]
  IN  from[1]
=============================================================================
