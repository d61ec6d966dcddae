--------------------------- MODULE MCDecodeTiers ---------------------------
EXTENDS DecodeTiers

MCTokens == 0..1
MCPrompts == {<<1>>, <<1, 0>>}

\* Every tier, every way of an item first or second, and the captures that are
\* kept, that do not fit their declaration (the naive attention) and that can
\* never be replayed (products of the library).  Left out: the declaration of
\* the layer kernels, whose token cell is wrong (GraphBuilds), and the split
\* one with the custom product, whose cells hold the partials' address that a
\* larger batch replaces.  The f32 channel does not look at the custom product.
MCBuilds == {b \in Loadable : /\ b.graph => (b.fused /\ ~b.layer) \/ ~b.jgemm
                              /\ b.f32 => b.jgemm}

\* With these for Builds, LogitsFaithful is violated: a replay gathers token 0,
\* since build_layer_fused keeps the token cell of the last layer and only the
\* first layer's node reads it.
GraphBuilds == {b \in Loadable : b.graph /\ b.layer}

\* The builders' own check, which otherwise only warns: what they declare is
\* what is expected of each build.
ASSUME NodesAsExpected ==
    \A b \in MCBuilds \cup GraphBuilds :
        b.graph => Len(Build(b).specs) = ExpectedNodeCount(b)
=============================================================================
