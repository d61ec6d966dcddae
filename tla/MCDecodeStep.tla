----------------------------- MODULE MCDecodeStep -----------------------------
EXTENDS DecodeStep, TLC

Symmetric == Permutations(Tokens) \union Permutations(Segs)
=============================================================================
