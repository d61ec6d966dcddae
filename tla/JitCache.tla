------------------------------- MODULE JitCache -------------------------------
(***************************************************************************)
(* The on-disk JIT cache (jit/src/cache.rs, lock.rs, meta.rs): the files   *)
(* of one key, `<key>.cubin` and `<key>.meta.json`, its flock, and the     *)
(* processes that call build_once and then read the path they were given   *)
(* (jit_provider.rs).  Every file operation is a step of its own, so that  *)
(* processes interleave and die between any two of them.  Keys share no    *)
(* file, so one key is the whole cache.  A cubin is its content; a meta    *)
(* file is the content its sha256 and size are those of.                   *)
(***************************************************************************)
EXTENDS Naturals

CONSTANTS Proc,       \* processes (or threads: each call opens its own lock file)
          Content,    \* what one source may compile to; nvcc need not be reproducible
          None,       \* no file, nothing read
          Bad,        \* a file whose bytes are damaged
          Nobody,     \* the lock is free
          CrashCap,   \* bound: how many processes die in the middle of a call
          FaultCap    \* bound: how often the disk damages a file

ASSUME ValuesDistinct == /\ None \notin Content /\ Bad \notin Content /\ None # Bad
                         /\ Nobody \notin Proc
ASSUME CapsNat == CrashCap \in Nat /\ FaultCap \in Nat

VARIABLES cubin, meta,   \* the two files
          temps,         \* temp files: <<process, which file>>
          lock,          \* who holds the flock of the key
          pc,            \* where each process is
          phase,         \* which of the three try_load calls it is in
          seen,          \* the meta it has read in this try_load
          bytes,         \* what it has compiled
          got,           \* the hit build_once returned
          crashes, faults

files == <<cubin, meta, temps>>
locals == <<phase, seen, bytes, got>>
budgets == <<crashes, faults>>
vars == <<files, lock, pc, locals, budgets>>

Labels == {"idle", "meta", "cubin", "lock", "rmCubin", "rmMeta", "compile",
           "writeCubin", "renameCubin", "writeMeta", "renameMeta", "use"}
Phases == {"peek", "check", "verify"}
Temps == Proc \X {"cubin", "meta"}

Init == /\ cubin = None /\ meta = None /\ temps = {} /\ lock = Nobody
        /\ pc = [p \in Proc |-> "idle"] /\ phase = [p \in Proc |-> "peek"]
        /\ seen = [p \in Proc |-> None] /\ bytes = [p \in Proc |-> None]
        /\ got = [p \in Proc |-> None]
        /\ crashes = 0 /\ faults = 0

----------------------------------------------------------------------------
Goto(p, l) == pc' = [pc EXCEPT ![p] = l]

\* Dropping the guard, or dying, frees the lock of its holder.
Unlocked(p) == IF lock = p THEN Nobody ELSE lock

\* The call is over, with an error or with its process: the guard drops, its
\* locals are gone.
Leave(p) == /\ Goto(p, "idle")
            /\ lock' = Unlocked(p)
            /\ phase' = [phase EXCEPT ![p] = "peek"]
            /\ seen' = [seen EXCEPT ![p] = None]
            /\ bytes' = [bytes EXCEPT ![p] = None]
            /\ got' = [got EXCEPT ![p] = None]

\* JitCache::open: temp files older than an hour are swept; how old a temp
\* file is, is not modelled, so any of them may be.
Open(p) ==
  /\ pc[p] = "idle"
  /\ \E stale \in SUBSET temps : temps' = temps \ stale
  /\ Goto(p, "meta")
  /\ UNCHANGED <<cubin, meta, lock, locals, budgets>>

\* A miss of the unlocked look that builds without the lock (mutant).
AfterMissUnlocked(p) == IF phase[p] \in {"peek", "check"} THEN "rmCubin" ELSE "idle"

\* What a miss means depends on which of the three looks it is.
AfterMiss(p) == IF phase[p] = "peek" THEN "lock" ELSE "rmCubin"
Miss(p) ==
  \/ phase[p] = "verify" /\ Leave(p)
  \/ /\ phase[p] # "verify"
     /\ Goto(p, AfterMiss(p))
     /\ seen' = [seen EXCEPT ![p] = None]
     /\ UNCHANGED <<lock, phase, bytes, got>>

\* A read that takes a damaged meta file for one (mutant).
ReadMetaUnchecked(p) ==
  /\ pc[p] = "meta"
  /\ \/ /\ meta # None
        /\ seen' = [seen EXCEPT ![p] = meta]
        /\ Goto(p, "cubin")
        /\ UNCHANGED <<lock, phase, bytes, got>>
     \/ meta = None /\ Miss(p)
  /\ UNCHANGED <<files, budgets>>

\* read_meta: a missing or damaged meta file is a miss.
ReadMeta(p) ==
  /\ pc[p] = "meta"
  /\ \/ /\ meta \in Content
        /\ seen' = [seen EXCEPT ![p] = meta]
        /\ Goto(p, "cubin")
        /\ UNCHANGED <<lock, phase, bytes, got>>
     \/ meta \notin Content /\ Miss(p)
  /\ UNCHANGED <<files, budgets>>

\* The cubin is a hit only with the size and sha256 of the meta that was read;
\* build_once returns it and lets go of the lock, if it has it.
Agrees(p) == cubin = seen[p]
ReadCubin(p) ==
  /\ pc[p] = "cubin"
  /\ \/ /\ Agrees(p)
        /\ got' = [got EXCEPT ![p] = cubin]
        /\ Goto(p, "use")
        /\ lock' = Unlocked(p)
        /\ seen' = [seen EXCEPT ![p] = None]
        /\ bytes' = [bytes EXCEPT ![p] = None]
        /\ UNCHANGED phase
     \/ ~Agrees(p) /\ Miss(p)
  /\ UNCHANGED <<files, budgets>>

\* A lock without the second look (mutant).
AcquireUnchecked(p) ==
  /\ pc[p] = "lock" /\ lock = Nobody
  /\ lock' = p
  /\ Goto(p, "rmCubin")
  /\ phase' = [phase EXCEPT ![p] = "check"]
  /\ UNCHANGED <<files, seen, bytes, got, budgets>>

\* lock_with: non-blocking attempts every 25 ms until the deadline.
Acquire(p) ==
  /\ pc[p] = "lock" /\ lock = Nobody
  /\ lock' = p
  /\ Goto(p, "meta")
  /\ phase' = [phase EXCEPT ![p] = "check"]
  /\ UNCHANGED <<files, seen, bytes, got, budgets>>

\* A deadline that breaks the lock, and one that never comes (mutants).
TimeOutSteals(p) ==
  /\ pc[p] = "lock" /\ lock # Nobody
  /\ lock' = p
  /\ Goto(p, "meta")
  /\ phase' = [phase EXCEPT ![p] = "check"]
  /\ UNCHANGED <<files, seen, bytes, got, budgets>>

TimeOutNever(p) == pc[p] = "lock" /\ lock = p /\ UNCHANGED vars

TimeOut(p) ==
  /\ pc[p] = "lock" /\ lock # Nobody
  /\ Leave(p)
  /\ UNCHANGED <<files, budgets>>

\* remove: both deletions may fail, and their errors are dropped.
RemoveCubin(p) ==
  /\ pc[p] = "rmCubin"
  /\ cubin' \in {None, cubin}
  /\ Goto(p, "rmMeta")
  /\ UNCHANGED <<meta, temps, lock, locals, budgets>>

RemoveMeta(p) ==
  /\ pc[p] = "rmMeta"
  /\ meta' \in {None, meta}
  /\ Goto(p, "compile")
  /\ UNCHANGED <<cubin, temps, lock, locals, budgets>>

Compile(p) ==
  /\ pc[p] = "compile"
  /\ \E c \in Content : bytes' = [bytes EXCEPT ![p] = c]
  /\ Goto(p, "writeCubin")
  /\ UNCHANGED <<files, lock, phase, seen, got, budgets>>

\* store and write_meta: each file is written under a temporary name and renamed.
WriteTemp(p, which, next) ==
  /\ temps' = temps \cup {<<p, which>>}
  /\ Goto(p, next)
  /\ UNCHANGED <<cubin, meta, lock, locals, budgets>>

WriteCubin(p) == pc[p] = "writeCubin" /\ WriteTemp(p, "cubin", "renameCubin")
WriteMeta(p)  == pc[p] = "writeMeta"  /\ WriteTemp(p, "meta", "renameMeta")

RenameCubin(p) ==
  /\ pc[p] = "renameCubin" /\ <<p, "cubin">> \in temps
  /\ cubin' = bytes[p]
  /\ temps' = temps \ {<<p, "cubin">>}
  /\ Goto(p, "writeMeta")
  /\ UNCHANGED <<meta, lock, locals, budgets>>

\* The commit point; build_once then looks once more, still holding the lock.
RenameMeta(p) ==
  /\ pc[p] = "renameMeta" /\ <<p, "meta">> \in temps
  /\ meta' = bytes[p]
  /\ temps' = temps \ {<<p, "meta">>}
  /\ phase' = [phase EXCEPT ![p] = "verify"]
  /\ Goto(p, "meta")
  /\ UNCHANGED <<cubin, lock, seen, bytes, got, budgets>>

\* A file operation or the compiler fails (a rename also when its temp file
\* was swept); a failed write may leave a partial temp file.  Opening the lock
\* file fails like the look before it.
Fails(p) ==
  /\ pc[p] \in {"meta", "compile", "writeCubin", "renameCubin", "writeMeta", "renameMeta"}
  /\ Leave(p)
  /\ temps' \in {temps, temps \cup {<<p, "cubin">> : w \in {"writeCubin"} \cap {pc[p]}}
                              \cup {<<p, "meta">> : w \in {"writeMeta"} \cap {pc[p]}}}
  /\ UNCHANGED <<cubin, meta, budgets>>

\* The caller reads the path it was given, unchecked, and loads what is there.
Use(p) ==
  /\ pc[p] = "use"
  /\ Leave(p)
  /\ UNCHANGED <<files, budgets>>

\* A process dies anywhere in a call: the kernel frees its flock, its files stay.
Crash(p) ==
  /\ pc[p] # "idle" /\ crashes < CrashCap
  /\ crashes' = crashes + 1
  /\ Leave(p)
  /\ UNCHANGED <<files, faults>>

\* A file that was written is damaged (no fsync, bad sector).
Damage ==
  /\ faults < FaultCap
  /\ faults' = faults + 1
  /\ \/ cubin # None /\ cubin' = Bad /\ UNCHANGED meta
     \/ meta # None /\ meta' = Bad /\ UNCHANGED cubin
  /\ UNCHANGED <<temps, lock, pc, locals, crashes>>

----------------------------------------------------------------------------
\* What a process does on its own once it has started, the compiler aside.
Proceed(p) == \/ ReadMeta(p) \/ ReadCubin(p) \/ Acquire(p) \/ TimeOut(p)
              \/ RemoveCubin(p) \/ RemoveMeta(p) \/ WriteCubin(p) \/ RenameCubin(p)
              \/ WriteMeta(p) \/ RenameMeta(p) \/ Fails(p) \/ Use(p)

Next == \/ \E p \in Proc : Open(p) \/ Compile(p) \/ Proceed(p) \/ Crash(p)
        \/ Damage

Spec == Init /\ [][Next]_vars

\* Started calls proceed, but a compiler may hang for ever.
FairSpec == Spec /\ \A p \in Proc : WF_vars(pc[p] # "compile" /\ Proceed(p))

----------------------------------------------------------------------------
TypeOK ==
  /\ cubin \in Content \cup {None, Bad} /\ meta \in Content \cup {None, Bad}
  /\ temps \subseteq Temps
  /\ lock \in Proc \cup {Nobody}
  /\ pc \in [Proc -> Labels] /\ phase \in [Proc -> Phases]
  /\ seen \in [Proc -> Content \cup {None}]
  /\ bytes \in [Proc -> Content \cup {None}]
  /\ got \in [Proc -> Content \cup {None}]
  /\ crashes \in 0..CrashCap /\ faults \in 0..FaultCap

\* A reader would find the artifact: meta and cubin are there and agree.
Valid == cubin \in Content /\ meta = cubin

\* Nobody deletes or recompiles an artifact that is good: whatever another
\* process did between the unlocked look and the lock, the look under the lock
\* sees it (build_once, "he who waited finds it built"; tests/concurrent.rs
\* counts one compilation for two processes).
CompileJustified ==
  \A p \in Proc : pc[p] \in {"rmCubin", "rmMeta", "compile", "writeCubin"} => ~Valid

\* The path a caller was given still leads to the bytes that were checked when
\* the caller reads it, without the lock: nobody replaces or removes a good
\* artifact while the disk does not fail (jit_provider.rs reads the path again).
PathStaysGood ==
  \A p \in Proc : pc[p] = "use" /\ faults = 0 => Valid /\ cubin = got[p]

\* A process that waits for the lock gets it or gives up, even if the holder's
\* compiler never returns (lock.rs: the timeout is the way out).
WaitersEscape == \A p \in Proc : pc[p] = "lock" ~> pc[p] # "lock"

Registry == INSTANCE ArtifactRegistry WITH
              artifact <- IF Valid THEN cubin ELSE None, served <- got, faults <- faults

\* The files, the flock and the order of the renames amount to a registry that
\* publishes whole artifacts only where there is none, whoever dies when.
ImplementsRegistry == Registry!Spec
=============================================================================
