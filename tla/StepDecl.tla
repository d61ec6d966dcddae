------------------------------ MODULE StepDecl ------------------------------
(***************************************************************************)
(* The declaration of the decode step for a CUDA graph (engine.rs,         *)
(* GraphStepDecl): its launches in order, built once when the engine is    *)
(* loaded, and of their arguments the cells to write before every step.    *)
(* A cell is a node and a slot, the name of one argument of the node's     *)
(* launch.  A captured graph keeps the arguments its nodes had at capture; *)
(* a replay sets those of the nodes to refresh again from their cells.     *)
(***************************************************************************)
EXTENDS DecodePrograms

\* SpecAcc, cell_of: the slot of every launch of a kind, in launch order.
CellsOf(specs, op, slot) ==
    LET nodes == SelectSeq([n \in DOMAIN specs |-> n], LAMBDA n : specs[n].op = op)
    IN  [i \in DOMAIN nodes |-> <<nodes[i], slot>>]

DeclareGemm(b, plan) == IF b.jgemm THEN JgemmLaunch(plan, 1) ELSE <<Execute(plan, 1)>>

\* build: the split sequence.  The cells are 0 until the first step.
DeclareQkv(b, li) ==
    LET plans == F16Plans(li)
    IN  <<LaunchRmsNorm("x", "xn", AttnNorm(li))>>
            \o DeclareGemm(b, plans.q) \o <<LaunchCastF32F16("c_q", "q", 1)>>
            \o DeclareGemm(b, plans.k) \o <<LaunchCastF32F16("c_k", "k", 1)>>
            \o DeclareGemm(b, plans.v) \o <<LaunchCastF32F16("c_v", "v", 1)>>

DeclareAttention(li) ==
    (IF HeadNorm THEN <<LaunchRmsHeads("q", QNorm(li), 1), LaunchRmsHeads("k", KNorm(li), 1)>>
                 ELSE <<>>)
        \o <<LaunchRopeHeads("q", 0, TRUE), LaunchRopeHeads("k", 0, FALSE), LaunchKvWrite(0, 0),
             LaunchFlash(li)>>

DeclareFfn(b, li) ==
    LET plans == F16Plans(li)
    IN  DeclareGemm(b, plans.o) \o <<LaunchFusedAddRms("x", "c_o", "xn", FfnNorm(li))>>
            \o DeclareGemm(b, plans.gate) \o DeclareGemm(b, plans.up)
            \o <<LaunchFusedCastSwiglu("c_g", "c_u", "down", 1)>>
            \o DeclareGemm(b, plans.down) \o <<LaunchAddCast("x", "c_d")>>

SplitSpecs(b) ==
    <<LaunchGather(0, "x")>>
        \o PerLayer(LAMBDA li : DeclareQkv(b, li) \o DeclareAttention(li) \o DeclareFfn(b, li))
        \o <<LaunchRmsNorm("x", "xn", FinalNorm)>>
        \o DeclareGemm(b, LmHeadPlan(b))

\* GraphStepDecl: the launches in order, the cells that follow the step, and
\* which of them a replay refreshes: the first node's token and all the others.
GraphStepDecl(specs, token, pos, phys, off) ==
    [specs |-> specs, token |-> token, pos |-> pos, phys |-> phys, off |-> off,
     refresh |-> {<<1, "token">>} \cup ToSet(pos) \cup ToSet(phys) \cup ToSet(off)]

BuildSplit(b) ==
    LET specs == SplitSpecs(b)
    IN  GraphStepDecl(specs, <<1, "token">>, CellsOf(specs, "rope", "pos"),
                      CellsOf(specs, "kv_write", "phys"), CellsOf(specs, "kv_write", "off"))

FusedSpecs(b) ==
    <<LaunchGather(0, "x"), LaunchRmsNorm("x", "xn", AttnNorm(0))>>
        \o PerLayer(LAMBDA li : FusedLayer(li, 0)) \o FusedHead(b)

\* build_fused: the fused kernels find the slot of the KV from its length.
FusedDecl(b, pos) == GraphStepDecl(FusedSpecs(b), <<1, "token">>, pos, <<>>, <<>>)

\* Mutant: the position of the fused second phase is not refreshed.
BuildFusedStalePos(b) ==
    [FusedDecl(b, CellsOf(FusedSpecs(b), "p2_qkv", "pos")) EXCEPT !.refresh = {<<1, "token">>}]

BuildFused(b) == FusedDecl(b, CellsOf(FusedSpecs(b), "p2_qkv", "pos"))

\* build_layer_fused: the token cell is that of the layer kernel declared
\* last, while layer 0's is the one to refresh and the only one read.
BuildLayerFused(b) ==
    LET specs == PerLayer(LAMBDA li : <<LaunchLayer(li, 0, 0)>>) \o FusedHead(b)
        pos == CellsOf(specs, "layer", "pos")
    IN  GraphStepDecl(specs, <<Len(pos), "token">>, pos, <<>>, <<>>)

\* expected_node_count: what a declaration is checked to amount to.
ExpectedNodeCount(b) ==
    LET gemm == IF b.jgemm THEN 2 ELSE 1
    IN  CASE b.layer -> NumLayers + 2
          [] b.fused /\ ~b.layer -> 4 + 8 * NumLayers
          [] OTHER -> 2 + ((IF HeadNorm THEN 13 ELSE 11) + 7 * gemm) * NumLayers + gemm

Build(b) == CASE b.layer -> BuildLayerFused(b)
              [] b.fused /\ ~b.layer -> BuildFused(b)
              [] OTHER -> BuildSplit(b)

IsAllCustom(decl) == \A n \in DOMAIN decl.specs : decl.specs[n].op # "cublas"

-----------------------------------------------------------------------------
\* write_step: the value of a cell at a step, which decodes at.token at at.pos;
\* any other argument is as declared.
Cell(decl, at, cell, declared) ==
    CASE cell = decl.token -> at.token
      [] cell \in ToSet(decl.pos) -> at.pos
      [] cell \in ToSet(decl.phys) ->
            LET li == (CHOOSE i \in DOMAIN decl.phys : decl.phys[i] = cell) - 1
            IN  li * PP + at.pos \div BlockLen
      [] cell \in ToSet(decl.off) -> at.pos % BlockLen
      [] OTHER -> declared

WriteStep(decl, at) ==
    [n \in DOMAIN decl.specs |->
        [slot \in DOMAIN decl.specs[n] |-> Cell(decl, at, <<n, slot>>, decl.specs[n][slot])]]

\* launch_decode_decl: the declared launches, none with another way.
LaunchDecodeDecl(decl, at) == <<One(UploadLens(at.pos + 1))>> \o Ones(WriteStep(decl, at))
=============================================================================
