--------------------------- MODULE JitCache_proofs ---------------------------
(***************************************************************************)
(* Proofs about JitCache for any set of processes, any compiler output and *)
(* any number of crashes and faults.  CompileJustified and PathStaysGood   *)
(* are not inductive: they need that a process past the lock holds it,     *)
(* that what it read under the lock is still so, and that while the disk   *)
(* has not failed a meta file is there only together with its cubin.       *)
(***************************************************************************)
EXTENDS JitCache, TLAPS

Building == {"rmCubin", "rmMeta", "compile", "writeCubin", "renameCubin"}
Storing  == {"writeMeta", "renameMeta"}

\* Past the lock, one holds it.
LockInv == \A p \in Proc :
  (pc[p] \in Building \cup Storing \/ (pc[p] \in {"meta", "cubin"} /\ phase[p] # "peek")) => lock = p

\* Outside try_load and the end of a call, every look is known.
PhaseInv == \A p \in Proc : /\ pc[p] \in Building \cup Storing => phase[p] = "check"
                            /\ pc[p] \in {"lock", "idle"} => phase[p] = "peek"

\* What has been read and compiled is whole.
LocalInv == \A p \in Proc : /\ pc[p] = "cubin" => seen[p] \in Content
                            /\ pc[p] \in Storing \cup {"writeCubin", "renameCubin"} => bytes[p] \in Content

\* A meta file read under the lock changes only by damage.
SeenInv == \A p \in Proc : pc[p] = "cubin" /\ phase[p] # "peek" => meta \in {seen[p], Bad}

\* From the look under the lock to the new cubin there is no good artifact.
BuildInv == \A p \in Proc : pc[p] \in Building => ~Valid

\* The new cubin stays where it was put until its meta follows, or is damaged.
StoreInv == \A p \in Proc : pc[p] \in Storing => cubin \in {bytes[p], Bad}

\* Without a fault: a meta file comes with its cubin, and what
\* somebody has read or was given is still there.
FaultFree == faults = 0 =>
  /\ cubin # Bad /\ meta # Bad
  /\ meta \in Content => Valid
  /\ \A p \in Proc : /\ pc[p] = "cubin" => meta = seen[p]
                     /\ pc[p] = "use" => Valid /\ cubin = got[p]

IInv == TypeOK /\ LockInv /\ PhaseInv /\ LocalInv /\ SeenInv /\ BuildInv /\ StoreInv /\ FaultFree

USE ValuesDistinct, CapsNat
USE DEF Labels, Phases, Temps, Building, Storing, files, locals, budgets, Valid, Goto, Unlocked
USE DEF IInv, TypeOK, LockInv, PhaseInv, LocalInv, SeenInv, BuildInv, StoreInv, FaultFree

\* An empty cache satisfies the invariant.
LEMMA InitInv == Init => IInv
BY DEF Init

\* A look under the lock, or without it, ends in a hit or a miss.
LEMMA LooksKeep ==
  ASSUME IInv, NEW p \in Proc, ReadMeta(p) \/ ReadCubin(p) PROVE IInv'
<1>1. CASE ReadMeta(p)
  BY <1>1 DEF ReadMeta, Miss, AfterMiss, Leave
<1>2. CASE ReadCubin(p)
  BY <1>2 DEF ReadCubin, Agrees, Miss, AfterMiss, Leave
<1>. QED BY <1>1, <1>2

\* Opening the cache, getting the lock and giving up on it.
LEMMA EntriesKeep ==
  ASSUME IInv, NEW p \in Proc, Open(p) \/ Acquire(p) \/ TimeOut(p) PROVE IInv'
<1>1. CASE Open(p)
  BY <1>1 DEF Open
<1>2. CASE Acquire(p)
  BY <1>2 DEF Acquire
<1>3. CASE TimeOut(p)
  BY <1>3 DEF TimeOut, Leave
<1>. QED BY <1>1, <1>2, <1>3

\* Clearing what was there and compiling.
LEMMA BuildsKeep ==
  ASSUME IInv, NEW p \in Proc, RemoveCubin(p) \/ RemoveMeta(p) \/ Compile(p) PROVE IInv'
<1>1. CASE RemoveCubin(p)
  BY <1>1 DEF RemoveCubin
<1>2. CASE RemoveMeta(p)
  BY <1>2 DEF RemoveMeta
<1>3. CASE Compile(p)
  BY <1>3 DEF Compile
<1>. QED BY <1>1, <1>2, <1>3

\* Writing and renaming the two files.
LEMMA StoresKeep ==
  ASSUME IInv, NEW p \in Proc,
         WriteCubin(p) \/ RenameCubin(p) \/ WriteMeta(p) \/ RenameMeta(p)
  PROVE IInv'
<1>1. CASE WriteCubin(p)
  BY <1>1 DEF WriteCubin, WriteTemp
<1>2. CASE RenameCubin(p)
  BY <1>2 DEF RenameCubin
<1>3. CASE WriteMeta(p)
  BY <1>3 DEF WriteMeta, WriteTemp
<1>4. CASE RenameMeta(p)
  BY <1>4 DEF RenameMeta
<1>. QED BY <1>1, <1>2, <1>3, <1>4

\* The ways out of a call.
LEMMA ExitsKeep ==
  ASSUME IInv, NEW p \in Proc, Fails(p) \/ Use(p) \/ Crash(p) PROVE IInv'
<1>1. CASE Fails(p)
  BY <1>1 DEF Fails, Leave
<1>2. CASE Use(p)
  BY <1>2 DEF Use, Leave
<1>3. CASE Crash(p)
  BY <1>3 DEF Crash, Leave
<1>. QED BY <1>1, <1>2, <1>3

LEMMA StepKeeps == IInv /\ [Next]_vars => IInv'
<1>. SUFFICES ASSUME IInv, [Next]_vars PROVE IInv'
  OBVIOUS
<1>1. CASE \E p \in Proc : Open(p) \/ Compile(p) \/ Proceed(p) \/ Crash(p)
  BY <1>1, LooksKeep, EntriesKeep, BuildsKeep, StoresKeep, ExitsKeep DEF Proceed
<1>2. CASE Damage
  BY <1>2 DEF Damage
<1>3. CASE UNCHANGED vars
  BY <1>3 DEF vars
<1>. QED BY <1>1, <1>2, <1>3 DEF Next

LEMMA InvAlways == Spec => []IInv
BY InitInv, StepKeeps, PTL DEF Spec

\* The files, the lock and the processes keep their types.
THEOREM JitTypes == Spec => []TypeOK
<1>1. IInv => TypeOK
  OBVIOUS
<1>. QED BY <1>1, InvAlways, PTL

\* No process deletes or recompiles a good artifact: for any number of
\* processes, crashes, damaged files and lock timeouts.
THEOREM GoodArtifactsKept == Spec => []CompileJustified
<1>1. IInv => CompileJustified
  BY DEF CompileJustified
<1>. QED BY <1>1, InvAlways, PTL

\* The path build_once returned leads to the bytes it checked, whenever its
\* caller reads it, as long as the disk has not failed.
THEOREM PathsLeadToChecked == Spec => []PathStaysGood
<1>1. IInv => PathStaysGood
  BY DEF PathStaysGood
<1>. QED BY <1>1, InvAlways, PTL

----------------------------------------------------------------------------
\* Every step is a step of the registry, or none it can see.
LEMMA StepImplements == IInv /\ [Next]_vars => [Registry!Next]_(Registry!vars)
<1>. SUFFICES ASSUME IInv, [Next]_vars PROVE [Registry!Next]_(Registry!vars)
  OBVIOUS
<1>. USE DEF Registry!Next, Registry!vars
<1>1. ASSUME NEW p \in Proc, ReadMeta(p) \/ TimeOut(p) \/ Fails(p) \/ Use(p) \/ Crash(p)
      PROVE [Registry!Next]_(Registry!vars)
  <2>1. UNCHANGED <<cubin, meta, faults>> /\ got' \in {got, [got EXCEPT ![p] = None]}
    BY <1>1 DEF ReadMeta, TimeOut, Fails, Use, Crash, Miss, Leave
  <2>. QED BY <2>1 DEF Registry!PutDown
<1>2. ASSUME NEW p \in Proc, ReadCubin(p) PROVE [Registry!Next]_(Registry!vars)
  <2>1. CASE Agrees(p)
    <3>1. cubin \in Content /\ (faults = 0 => Valid)
      BY <1>2, <2>1 DEF ReadCubin, Agrees
    <3>2. UNCHANGED <<cubin, meta, faults>> /\ got' = [got EXCEPT ![p] = cubin]
      BY <1>2, <2>1 DEF ReadCubin
    <3>. QED BY <3>1, <3>2 DEF Registry!Serve
  <2>2. CASE ~Agrees(p)
    <3>1. UNCHANGED <<cubin, meta, faults>> /\ got' \in {got, [got EXCEPT ![p] = None]}
      BY <1>2, <2>2 DEF ReadCubin, Miss, Leave
    <3>. QED BY <3>1 DEF Registry!PutDown
  <2>. QED BY <2>1, <2>2
<1>3. ASSUME NEW p \in Proc, Open(p) \/ Acquire(p) \/ Compile(p) \/ WriteCubin(p) \/ WriteMeta(p)
      PROVE [Registry!Next]_(Registry!vars)
  BY <1>3 DEF Open, Acquire, Compile, WriteCubin, WriteMeta, WriteTemp
<1>4. ASSUME NEW p \in Proc, RemoveCubin(p) \/ RemoveMeta(p) PROVE [Registry!Next]_(Registry!vars)
  <2>1. ~Valid /\ ~Valid' /\ UNCHANGED <<got, faults>>
    BY <1>4 DEF RemoveCubin, RemoveMeta
  <2>. QED BY <2>1
<1>5. ASSUME NEW p \in Proc, RenameCubin(p) PROVE [Registry!Next]_(Registry!vars)
  <2>1. ~Valid /\ cubin' \in Content /\ UNCHANGED <<got, faults>>
    BY <1>5 DEF RenameCubin
  <2>. QED BY <2>1 DEF Registry!Publish
<1>6. ASSUME NEW p \in Proc, RenameMeta(p) PROVE [Registry!Next]_(Registry!vars)
  <2>1. UNCHANGED <<cubin, got, faults>> /\ meta' = bytes[p] /\ cubin \in {bytes[p], Bad}
    BY <1>6 DEF RenameMeta
  <2>2. Valid => Valid'
    BY <2>1
  <2>. QED BY <2>1, <2>2 DEF Registry!Publish
<1>7. CASE Damage
  <2>1. faults' = faults + 1 /\ UNCHANGED got /\ ~Valid'
    BY <1>7 DEF Damage
  <2>. QED BY <2>1 DEF Registry!Fault
<1>8. CASE UNCHANGED vars
  BY <1>8 DEF vars
<1>. QED BY <1>1, <1>2, <1>3, <1>4, <1>5, <1>6, <1>7, <1>8 DEF Next, Proceed

\* The files and their lock implement the registry, for any set of processes.
THEOREM CacheIsRegistry == Spec => ImplementsRegistry
<1>1. Init => Registry!Init
  BY DEF Init, Registry!Init
<1>. QED BY <1>1, StepImplements, InvAlways, PTL DEF Spec, ImplementsRegistry, Registry!Spec
=============================================================================
