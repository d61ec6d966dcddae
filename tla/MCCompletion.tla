---------------------------- MODULE MCCompletion ----------------------------
(* Prompts over two letters with rules that compete (a rule's left part is    *)
(* another's right part), of equal rank, and one whose text has no token;     *)
(* every text of up to three characters of each kind the scanner tells, and   *)
(* some with special tokens of which one begins another; sampled tokens that  *)
(* split characters of two and four bytes; a stop of two tokens that overlaps *)
(* itself and one that is a single token.                                     *)
EXTENDS Completion

a == 97
b == 98
s == 115
l == 108
e == 101
Lt == 60
Gt == 62
One == 49
LF == 10
eacute == 233
SpacePiece == 288   \* what stands for a blank, and for the end of a line
LinePiece == 266

MCAlphabetic == {a, b, s, l, e, eacute}
MCNumeric == {One}

\* The bytes used, in the order of their ids; some of what the rules make.
MCBytePieces == <<a, b, s, l, e, Lt, Gt, One, Apostrophe, SpacePiece, LinePiece, 195, 169>>
MCMade == <<<<a, a>>, <<e, a>>, <<LinePiece, SpacePiece>>, <<SpacePiece, a>>, <<Apostrophe, s>>, <<195, 169>>, <<One, One>>>>
MCMerges ==
  <<<<<<a, a>>, <<a, b>>>>, <<<<a>>, <<b>>>>, <<<<a>>, <<a>>>>, <<<<b>>, <<a, b>>>>, <<<<a, b>>, <<b>>>>,
    <<<<SpacePiece>>, <<a>>>>, <<<<s>>, <<a>>>>, <<<<Apostrophe>>, <<s>>>>, <<<<195>>, <<169>>>>,
    <<<<e>>, <<a>>>>, <<<<LinePiece>>, <<SpacePiece>>>>, <<<<One>>, <<One>>>>>>

MCHfJson ==
  [vocab |-> [t \in {<<MCBytePieces[i]>> : i \in DOMAIN MCBytePieces} |->
                CHOOSE i \in DOMAIN MCBytePieces : t = <<MCBytePieces[i]>>]
               @@ [t \in ToSet(MCMade) |-> 20 + CHOOSE i \in DOMAIN MCMade : t = MCMade[i]],
   added |-> <<[id |-> 30, content |-> <<Lt, s, Gt>>, special |-> TRUE],
               [id |-> 31, content |-> <<Lt, s, Gt, b>>, special |-> FALSE],
               [id |-> 32, content |-> <<s, Gt, b, b, b>>, special |-> TRUE]>>,
   merges |-> MCMerges,
   bos |-> <<Lt, s, Gt>>, eos |-> <<Lt, 47, s, Gt>>, addBos |-> TRUE, addEos |-> FALSE]

\* The same vocabulary in a GGUF file, where the begin of a sequence goes by its
\* usual text.
MCGguf == [tokens |-> Vocab.pieces, types |-> Vocab.types, merges |-> MCMerges,
           bos |-> None, eos |-> None, addBos |-> TRUE, addEos |-> FALSE]

ASSUME SameFromGguf == FromMeta(MCGguf) = Vocab

\* bpe.rs:870-979: <0x0a>, and a piece of the kind that is written otherwise.
ASSUME HexPieces == /\ ByteOfHex(<<60, 48, 120, 48, 97, 62>>) = 10
                    /\ ByteOfHex(<<60, 48, 120, 70, 102, 62>>) = 255
                    /\ ByteOfHex(<<a, b>>) = 0

\* A spiece.model as its trainer writes it: pieces with their scores, other
\* fields among them and after them, a type where it is not NORMAL.
Bytes7(n) == IF n < 128 THEN <<n>> ELSE <<128 + (n % 128), n \div 128>>
Run(field, body) == <<8 * field + 2>> \o Bytes7(Len(body)) \o body
WirePiece(p) ==
  Run(1, p.text) \o <<21, 0, 0, 128, 63>> \o (IF p.type = Normal THEN <<>> ELSE <<24, p.type>>)
    \o <<32, 129, 1>>
WireModel(pieces) ==
  FlattenSeq([i \in DOMAIN pieces |-> Run(1, WirePiece(pieces[i])) \o Run(3, <<8, 1>>)])
    \o <<41, 0, 0, 0, 0, 0, 0, 0, 0>>

SpmPieces == {[text |-> <<226, 150, 129, a>>, type |-> Normal], [text |-> <<Lt, s, Gt>>, type |-> 3],
              [text |-> <<Lt, 48, 120, 67, 51, Gt>>, type |-> Byte],
              [text |-> [i \in 1 .. 130 |-> b], type |-> UserDefined]}
SpmModels == UNION {[1 .. n -> SpmPieces] : n \in 1 .. 2}

\* What was written is read; a file cut off anywhere is refused or, between two
\* fields, gives the first pieces; never other ones.
ASSUME ProtoRead ==
  \A m \in SpmModels :
    LET bytes == WireModel(m)
    IN  /\ ParseModelProto(bytes) = m
        /\ \A n \in DOMAIN bytes : \E k \in 0 .. Len(m) :
              ParseModelProto(SubSeq(bytes, 1, n)) = SubSeq(m, 1, k)

\* A GGUF file and a container with one vocabulary give one tokenizer, whose
\* decoder tells an id that has no piece.
ASSUME SpmTokenizers ==
  \A m \in SpmModels :
    LET v == SpmFromContainer(m)
        meta == [tokens |-> v.pieces, types |-> Append(v.types, Normal), bos |-> None,
                 eos |-> None, unk |-> None, addBos |-> TRUE]
    IN  /\ SpmMetaValid(meta) /\ SpmFromMeta(meta) = v
        /\ v.bos # None => v.types[v.bos + 1] = 3
        /\ SpmDecoded(v, <<Len(m), 0>>) = <<91, 85, 78, 75, 93>> \o SpmPieceBytes(v, 0)
        /\ m[1].text[1] = 226 => SpmPieceBytes(v, 0) = <<Blank, a>>

Plain(t, asked) == [text |-> t, special |-> FALSE, prompt |-> asked]
Chat(t) == [text |-> t, special |-> TRUE, prompt |-> FALSE]

MCKinds == {a, l, e, One, Apostrophe, Blank, LF, Lt}
MCAsks ==
  {Plain(t, TRUE) : t \in {<<a, b, a, b, b>>, <<a, a>>}}
    \cup {Plain(t, FALSE) : t \in UNION {[1 .. n -> MCKinds] : n \in 0 .. 3}}
    \cup {Plain(t, FALSE) : t \in {<<a, Apostrophe, s, a>>, <<Lt, Lt, LF, LF, a>>,
            <<a, a, a, b>>, <<b, a, a, b>>, <<a, Blank, Blank, a>>,
            <<Blank, LF, LF, Blank, a>>, <<eacute, a, eacute>>,
            <<Apostrophe, l, e, a>>,
            <<a, Lt, s, Gt, b>>}}
    \cup {Chat(t) : t \in {<<a, Lt, s, Gt>>, <<Lt, s, Gt, b, a>>, <<Lt, s, Lt, s, Gt, Lt>>,
            <<a, b, s, Gt, b, b, b>>, <<Lt, s, Gt, b, b, b>>}}

MCPiece == [L2 |-> <<"lead2">>, L4 |-> <<"a", "lead4", "cont">>, C |-> <<"cont">>,
            A |-> <<"a">>, E |-> <<>>]
MCStops == <<<<"A", "A", "C">>, <<"C", "A">>>>
=============================================================================
