---------------------------- MODULE ForwardPass ----------------------------
(***************************************************************************)
(* The transformer forward pass as a graph of values.  A value is the name *)
(* of what it is the result of: <<stage, layer, tokens>> is the result of   *)
(* `stage' in `layer' for the last of `tokens', the tokens before it being *)
(* in the KV cache.  Definition gives each value by one operation on       *)
(* others, as the host reference computes it; Apply inverts it, so that a  *)
(* kernel applied to the operands the reference would use yields the       *)
(* reference's value, and Junk on any others.                              *)
(*                                                                         *)
(* Numbers are abstracted: rounding and the order of a reduction are not   *)
(* told apart.  The representation is: a device value is <<type, value>>,  *)
(* and a kernel that reads an element as another type than it was written  *)
(* reads Junk.                                                             *)
(***************************************************************************)
EXTENDS Integers, Sequences, SequencesExt

CONSTANTS Tokens,     \* the vocabulary
          NumLayers,  \* cfg.n_layer
          MaxLen,     \* the longest sequence looked at
          HeadNorm    \* whether the layers have q_norm and k_norm

ASSUME ForwardPassAssumption ==
    /\ NumLayers \in Nat \ {0}
    /\ MaxLen \in Nat \ {0}
    /\ HeadNorm \in BOOLEAN

Layers == 0 .. NumLayers - 1
TokenSeqs == UNION {[1..n -> Tokens] : n \in 1..MaxLen}

\* Before attention the first layer looks at one token, and at its position
\* once it is rotated: everything else depends on the whole sequence.
ByToken == {"token", "x", "xn", "q", "k", "v", "qn", "kn"}
ByPosition == {"qr", "kr", "qs"}

Context(stage, layer, toks) ==
    CASE layer = 0 /\ stage \in ByToken -> <<Last(toks)>>
      [] layer = 0 /\ stage \in ByPosition ->
            [i \in DOMAIN toks |-> IF i = Len(toks) THEN toks[i] ELSE "any"]
      [] OTHER -> toks

Value(stage, layer, toks) == <<stage, layer, Context(stage, layer, toks)>>
Junk == <<"junk", 0, <<>>>>

Stages == {"x", "xn", "q", "k", "v", "qr", "kr", "qs", "attn", "o",
           "h", "hn", "gate", "up", "act", "down"}
              \cup (IF HeadNorm THEN {"qn", "kn"} ELSE {})

Values == {Value(s, li, p) : s \in Stages, li \in Layers, p \in TokenSeqs}
            \cup {Value(s, NumLayers, p) : s \in {"x", "final", "logits"}, p \in TokenSeqs}

-----------------------------------------------------------------------------
\* The operation on a value and its operands, each named by what it is the
\* result of.
Definition(value) ==
    LET li == value[2]
        p == value[3]
        The(s) == <<s, li, p>>
        Of(s) == <<The(s)>>
        Before(s) == [i \in DOMAIN p |-> <<s, li, SubSeq(p, 1, i)>>]
    IN  CASE value[1] = "x" /\ li = 0 -> <<"embed", 0, Of("token")>>
          [] value[1] = "x" /\ li > 0 ->
                <<"add", 0, <<<<"h", li - 1, p>>, <<"down", li - 1, p>>>>>>
          [] value[1] = "xn" -> <<"attn_norm", li, Of("x")>>
          [] value[1] = "q" -> <<"q_proj", li, Of("xn")>>
          [] value[1] = "k" -> <<"k_proj", li, Of("xn")>>
          [] value[1] = "v" -> <<"v_proj", li, Of("xn")>>
          [] value[1] = "qn" -> <<"q_norm", li, Of("q")>>
          [] value[1] = "kn" -> <<"k_norm", li, Of("k")>>
          [] value[1] = "qr" -> <<"rope", Len(p) - 1, Of(IF HeadNorm THEN "qn" ELSE "q")>>
          [] value[1] = "kr" -> <<"rope", Len(p) - 1, Of(IF HeadNorm THEN "kn" ELSE "k")>>
          [] value[1] = "qs" -> <<"scale", 0, Of("qr")>>
          [] value[1] = "attn" -> <<"attend", 0, Of("qs") \o Before("kr") \o Before("v")>>
          [] value[1] = "o" -> <<"o_proj", li, Of("attn")>>
          [] value[1] = "h" -> <<"add", 0, <<The("x"), The("o")>>>>
          [] value[1] = "hn" -> <<"ffn_norm", li, Of("h")>>
          [] value[1] = "gate" -> <<"gate_proj", li, Of("hn")>>
          [] value[1] = "up" -> <<"up_proj", li, Of("hn")>>
          [] value[1] = "act" -> <<"swiglu", 0, <<The("gate"), The("up")>>>>
          [] value[1] = "down" -> <<"down_proj", li, Of("act")>>
          [] value[1] = "final" -> <<"final_norm", 0, Of("x")>>
          [] value[1] = "logits" -> <<"lm_head", 0, Of("final")>>

Operation(def) == SubSeq(def, 1, 2)
Operands(def) == [i \in DOMAIN def[3] |-> Value(def[3][i][1], def[3][i][2], def[3][i][3])]

\* By operation and operands, the value that they define.
ByDefinition(operation, operands) ==
    [op \in {operation[v] : v \in Values} |->
        [args \in {operands[v] : v \in {w \in Values : operation[w] = op}} |->
            CHOOSE v \in Values : operation[v] = op /\ operands[v] = args]]

Results == ByDefinition([v \in Values |-> Operation(Definition(v))],
                        [v \in Values |-> Operands(Definition(v))])

\* Different values have different definitions, so Results loses none.
ASSUME DefinitionsDiffer ==
    \A v \in Values : Results[Operation(Definition(v))][Operands(Definition(v))] = v

ResultOf(results, op, operands) ==
    IF op \in DOMAIN results /\ operands \in DOMAIN results[op] THEN results[op][operands]
                                                               ELSE Junk

Apply(op, operands) == ResultOf(Results, op, operands)

-----------------------------------------------------------------------------
\* Elements of device memory.
Half(value) == <<"f16", value>>
Single(value) == <<"f32", value>>
Partial(value) == <<"partial", value>>   \* the slab partials of a product
Blank == Half(Junk)

ReadHalf(cell) == IF cell[1] = "f16" THEN cell[2] ELSE Junk
ReadSingle(cell) == IF cell[1] = "f32" THEN cell[2] ELSE Junk
ReadPartial(cell) == IF cell[1] = "partial" THEN cell[2] ELSE Junk
=============================================================================
