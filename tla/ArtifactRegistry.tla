--------------------------- MODULE ArtifactRegistry ---------------------------
(***************************************************************************)
(* What the JIT cache promises about the artifact of one key, files, locks *)
(* and processes left out: there is one artifact or none, an artifact is   *)
(* published only where there is none, nothing but a fault of the disk     *)
(* takes it away, and callers are served the artifact there is.  JitCache  *)
(* implements this.                                                        *)
(***************************************************************************)
EXTENDS Naturals

CONSTANTS Proc,      \* the callers of build_once
          Content,   \* what a compilation can produce
          None       \* no artifact

VARIABLES artifact,  \* what the registry holds
          served,    \* what each caller was given, None outside its use of it
          faults     \* how often the disk has failed

vars == <<artifact, served, faults>>

Init == artifact = None /\ served = [p \in Proc |-> None] /\ faults = 0

Publish == /\ artifact = None
           /\ artifact' \in Content
           /\ UNCHANGED <<served, faults>>

\* Once the disk has failed, a caller that is reading while the artifact is
\* being rebuilt may still get the one it read about.
Serve(p) == /\ \E c \in Content : /\ faults = 0 => c = artifact
                                  /\ served' = [served EXCEPT ![p] = c]
            /\ UNCHANGED <<artifact, faults>>

PutDown(p) == served' = [served EXCEPT ![p] = None] /\ UNCHANGED <<artifact, faults>>

Fault == /\ faults' = faults + 1
         /\ artifact' \in {artifact, None}
         /\ UNCHANGED served

Next == \/ Publish \/ Fault
        \/ \E p \in Proc : Serve(p) \/ PutDown(p)

Spec == Init /\ [][Next]_vars
=============================================================================
