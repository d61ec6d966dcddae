----------------------------- MODULE GraphExec -----------------------------
(***************************************************************************)
(* The CUDA graphs of the decode step (graph.rs).  A capture records the   *)
(* kernels a step launches, without running them, each a node with its     *)
(* arguments as they were.  It is kept when the nodes are as many as the   *)
(* step declares (GraphStepDecl).  A replay sets the arguments of some     *)
(* nodes again, from the cells of the declaration, and launches them all.  *)
(* There is one graph per bucket of lengths.                               *)
(***************************************************************************)
EXTENDS StepDecl, FiniteSets

CONSTANTS BUCKET_STEP_SMALL, BUCKET_SPLIT,   \* buckets of so many, up to this length,
          BUCKET_STEP_LARGE, BUCKET_COUNT    \* then of so many; and how many there are

ASSUME GraphExecAssumption ==
    /\ {BUCKET_STEP_SMALL, BUCKET_SPLIT, BUCKET_STEP_LARGE, BUCKET_COUNT} \subseteq Nat \ {0}
    /\ BUCKET_SPLIT % BUCKET_STEP_SMALL = 0
    /\ BUCKET_SPLIT \div BUCKET_STEP_SMALL < BUCKET_COUNT

Lesser(m, n) == IF m <= n THEN m ELSE n
DivCeil(n, step) == (n + step - 1) \div step
BUCKET_SMALL == BUCKET_SPLIT \div BUCKET_STEP_SMALL

Buckets == 0 .. BUCKET_COUNT - 1

\* bucket_index: the first bucket that the length fits, or the last one.
BucketIndex(len) ==
    IF len <= BUCKET_SPLIT
    THEN IF len = 0 THEN 0 ELSE Lesser(DivCeil(len, BUCKET_STEP_SMALL), BUCKET_SMALL) - 1
    ELSE Lesser(BUCKET_SMALL + DivCeil(len - BUCKET_SPLIT, BUCKET_STEP_LARGE), BUCKET_COUNT) - 1

-----------------------------------------------------------------------------
\* KernelSpec: how many slots a declared launch has, and for how many of them
\* a cell.  Of a product of the library only m, n and k are known.
MAX_READBACK_SLOTS == 16
GEMM_PARAM_SLOTS == 22

IsCublas(spec) == spec.op = "cublas"
LayoutSlots(spec) == IF IsCublas(spec) THEN GEMM_PARAM_SLOTS ELSE Cardinality(DOMAIN spec) - 1
PtrSlots(spec) == IF IsCublas(spec) THEN 3 ELSE LayoutSlots(spec)

ValidateSpecs(specs) ==
    /\ specs # <<>>
    /\ \A n \in DOMAIN specs :
            /\ PtrSlots(specs[n]) <= LayoutSlots(specs[n])
            /\ IsCublas(specs[n]) \/ PtrSlots(specs[n]) = LayoutSlots(specs[n])

-----------------------------------------------------------------------------
\* The CUDA of the process: a runtime of 13.2 or later, whose generic calls
\* read and set the parameters of any node; older ones on an older or on a
\* newer driver.
Runtimes == {"v2", "classic", "mixed"}

\* read_node_params: a driver of 13 or later hands an older runtime nothing
\* that may be followed.
ReadBackFails(spec, runtime) == IsCublas(spec) /\ runtime = "mixed"

\* from_spec: no slot would be launched as null after a refresh.  The older
\* read-back gives addresses of arguments, for so many slots.
RefreshSafe(spec, runtime) ==
    \/ PtrSlots(spec) = LayoutSlots(spec)
    \/ runtime = "classic" /\ LayoutSlots(spec) <= MAX_READBACK_SLOTS

\* An older runtime rejects the handles that the kernels here are loaded with.
SetParamsWorks(runtime) == runtime = "v2"

-----------------------------------------------------------------------------
NoGraph == [state |-> "none"]
Capturing(nodes) == [state |-> "capturing", nodes |-> nodes]
GraphFailed == [state |-> "failed"]

\* What a stream in capture mode makes of launches: the copies of the host
\* are nodes too, which read their source again whenever they run.
KernelNodes(launches) == SelectSeq(launches, LAMBDA l : l.op # "upload")

\* Mutant: the nodes are not counted.
FinishUncounted(decl, nodes, seeded, runtime) ==
    IF /\ nodes # <<>>
       /\ ValidateSpecs(decl.specs)
       /\ \A n \in DOMAIN decl.specs : ~ReadBackFails(decl.specs[n], runtime)
    THEN [state |-> "bound", nodes |-> nodes, seeded |-> seeded, runtime |-> runtime]
    ELSE GraphFailed

\* Capture::finish, then seed_staging when the cells were what was launched.
Finish(decl, nodes, seeded, runtime) ==
    IF /\ nodes # <<>>
       /\ Len(nodes) = Len(decl.specs)
       /\ ValidateSpecs(decl.specs)
       /\ \A n \in DOMAIN decl.specs : ~ReadBackFails(decl.specs[n], runtime)
    THEN [state |-> "bound", nodes |-> nodes, seeded |-> seeded, runtime |-> runtime]
    ELSE GraphFailed

\* replay: the nodes whose parameters are set again.  The addresses of an
\* unseeded graph all differ from those it was captured with.
Dirty(decl, g) ==
    IF g.seeded THEN {cell[1] : cell \in decl.refresh} ELSE DOMAIN g.nodes

\* No node may be left that would be launched with null, and one node at
\* least is set.
CanReplay(decl, g) ==
    /\ \A n \in DOMAIN decl.specs : RefreshSafe(decl.specs[n], g.runtime)
    /\ SetParamsWorks(g.runtime)

\* A node that is set becomes the declared launch with what its cells hold
\* now; any other one keeps what it was captured with.  The executable graph
\* is updated from the nodes or, where that is refused, built from them anew.
Refreshed(decl, g, at) ==
    LET dirty == Dirty(decl, g)
        fresh == WriteStep(decl, at)
    IN  [n \in DOMAIN g.nodes |-> IF n \in dirty THEN fresh[n] ELSE g.nodes[n]]

AfterReplay(decl, g, at) == [g EXCEPT !.nodes = Refreshed(decl, g, at), !.seeded = TRUE]

\* replay_step: the copy of the length and the kernels.
ReplayStep(decl, g, at) ==
    <<One(UploadLens(at.pos + 1)), One([op |-> "graph", nodes |-> Refreshed(decl, g, at)])>>
=============================================================================
