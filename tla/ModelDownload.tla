----------------------------- MODULE ModelDownload -----------------------------
(***************************************************************************)
(* Fetching one model file (models/src/download.rs, hf.rs, resolver.rs):   *)
(* processes that list, download, resume, verify and rename the same file  *)
(* of a repository, or ask the resolver for it, while requests fail,       *)
(* processes die and the server publishes a new version.  A file's bytes   *)
(* are blocks <<version, index>>.  Paths lead to inodes: a process that    *)
(* has opened the part file keeps its inode when another one renames or    *)
(* unlinks the path, and the flock is on the inode.                        *)
(***************************************************************************)
EXTENDS Naturals, Sequences, FiniteSetsExt, Functions

CONSTANTS Proc,
          Size,       \* Size[v]: blocks of version v of the server's file
          Modes,      \* REINFER_MODEL_SOURCE: "modelscope", "huggingface", "auto"
          Asks,       \* how callers name the file: "download", "file", "quant"
          Shared,     \* bound: the versions that several processes fetch at a time
          CrashCap,   \* bound: processes that die in the middle of a call
          FaultCap    \* bound: requests and responses that fail

ASSUME SizesPositive == Size \in Seq(Nat \ {0}) /\ Size # <<>> /\ Shared \subseteq DOMAIN Size

VARIABLES mode,         \* the source every process uses
          ver,          \* the version on the server
          part, final,  \* inode of `.<name>.reinfer-part` and of `<name>`, 0 for none
          data,         \* the bytes of each inode
          pc,
          src,          \* the source of the current download
          tries,        \* which of its two attempts
          entry,        \* the version the process was told of: size and sha256, or etag
          fd,           \* the inode of its open part file
          resp, next,   \* the version its response streams, the next block of it
          view,         \* the bytes it has hashed
          path,         \* what it was told is the model
          crashes, faults

disk == <<part, final, data>>
fetch == <<src, tries, entry, fd, resp, next, view>>
world == <<mode, ver, crashes, faults>>
vars == <<disk, pc, fetch, path, world>>

Version == DOMAIN Size
Whole(v) == [i \in 1..Size[v] |-> <<v, i>>]
Inode == 1..(3 + Cardinality(Proc))
Unused == {i \in Inode : i # part /\ i # final /\ \A p \in Proc : i # fd[p]}

Init == /\ mode \in Modes /\ ver = 1
        /\ part = 0 /\ final = 0 /\ data = [i \in Inode |-> <<>>]
        /\ pc = [p \in Proc |-> "idle"] /\ src = [p \in Proc |-> "none"]
        /\ tries = [p \in Proc |-> 0] /\ entry = [p \in Proc |-> 0]
        /\ fd = [p \in Proc |-> 0] /\ resp = [p \in Proc |-> 0]
        /\ next = [p \in Proc |-> 0] /\ view = [p \in Proc |-> <<>>]
        /\ path = [p \in Proc |-> "none"]
        /\ crashes = 0 /\ faults = 0

----------------------------------------------------------------------------
Goto(p, l) == pc' = [pc EXCEPT ![p] = l]

\* The response and the open file, with its flock, end with the attempt.
Close(p) == /\ fd' = [fd EXCEPT ![p] = 0]
            /\ resp' = [resp EXCEPT ![p] = 0]
            /\ next' = [next EXCEPT ![p] = 0]
            /\ view' = [view EXCEPT ![p] = <<>>]

\* The call is over; what it was told counts only while it is used.
Leave(p) == /\ Goto(p, "idle")
            /\ Close(p)
            /\ src' = [src EXCEPT ![p] = "none"]
            /\ tries' = [tries EXCEPT ![p] = 0]
            /\ entry' = [entry EXCEPT ![p] = 0]
            /\ path' = [path EXCEPT ![p] = "none"]

Succeed(p, which) == /\ Goto(p, "ok")
                     /\ Close(p)
                     /\ path' = [path EXCEPT ![p] = which]
                     /\ UNCHANGED <<src, tries, entry>>

\* ModelScope lists size and sha256; a HEAD request to HuggingFace tells size and etag.
Strict(p) == src[p] = "ms"

StartFetch(p, from) ==
  /\ src' = [src EXCEPT ![p] = from]
  /\ tries' = [tries EXCEPT ![p] = 1]
  /\ entry' = [entry EXCEPT ![p] = ver]
  /\ Goto(p, "open")
  /\ Close(p)
  /\ UNCHANGED path

\* With source auto, HuggingFace is asked after ModelScope has failed.
FallBack(p) == /\ Goto(p, "fallback")
               /\ Close(p)
               /\ src' = [src EXCEPT ![p] = "none"]
               /\ tries' = [tries EXCEPT ![p] = 0]
               /\ entry' = [entry EXCEPT ![p] = 0]
               /\ UNCHANGED path

\* download_with_url tries twice.
AttemptFails(p) ==
  \/ /\ tries[p] = 1
     /\ tries' = [tries EXCEPT ![p] = 2]
     /\ Goto(p, "open")
     /\ Close(p)
     /\ UNCHANGED <<src, entry, path>>
  \/ tries[p] = 2 /\ src[p] = "ms" /\ mode = "auto" /\ FallBack(p)
  \/ tries[p] = 2 /\ ~(src[p] = "ms" /\ mode = "auto") /\ Leave(p)

----------------------------------------------------------------------------
\* Any file of that name is a hit (mutant).
LocalHitByName(v) == final # 0

\* local_hit with sha256: only the listed version is a hit.
LocalHit(v) == final # 0 /\ data[final] = Whole(v)

\* Whether another call may begin beside those under way (bound: with source
\* HuggingFace it may not).
Busy == {p \in Proc : pc[p] # "idle"}
MayOverlap == (ver \in Shared /\ mode # "huggingface") \/ Busy = {}
FirstSource == IF mode = "huggingface" THEN "hf" ELSE "ms"

\* download_file of a listed entry, and hf_download_file, which has no local hit.
Download(p) ==
  /\ "download" \in Asks /\ pc[p] = "idle" /\ MayOverlap
  /\ \/ /\ FirstSource = "ms" /\ LocalHit(ver)
        /\ Goto(p, "ok")
        /\ entry' = [entry EXCEPT ![p] = ver]
        /\ UNCHANGED <<src, tries, fd, resp, next, view>>
     \/ ~(FirstSource = "ms" /\ LocalHit(ver)) /\ StartFetch(p, FirstSource)
  /\ UNCHANGED <<path, disk, world>>

\* The names of the directory that a caller's may stand for: a quantization is
\* looked for as `-{quant}.` in every name, and the part file's has it too.
Named(ask) == IF ask = "file" THEN {"final"}
              ELSE {w \in {"final", "part"} : (IF w = "final" THEN final ELSE part) # 0}
Found(w) == LET i == IF w = "final" THEN final ELSE part IN i # 0 /\ data[i] # <<>>

\* ensure_in: several names are an error, a file that is there and not empty is
\* returned, anything else is fetched; no server has a part file.
Ensure(p) ==
  /\ pc[p] = "idle" /\ MayOverlap
  /\ \E ask \in Asks \ {"download"} :
       \/ /\ Cardinality(Named(ask)) = 1
          /\ \E w \in Named(ask) : Found(w) /\ Succeed(p, w)
       \/ /\ Named(ask) \subseteq {"final"} /\ ~Found("final")
          /\ StartFetch(p, FirstSource)
  /\ UNCHANGED <<disk, world>>

\* The list of ModelScope cannot be had: with source auto HuggingFace is asked,
\* else the call ends where it began.  (Bound: a call that asks HuggingFace first
\* begins while no other is under way, as in MayOverlap.)
ListFails(p) ==
  /\ pc[p] = "idle" /\ Busy = {} /\ mode = "auto" /\ faults < FaultCap
  /\ faults' = faults + 1
  /\ FallBack(p)
  /\ UNCHANGED <<disk, mode, ver, crashes>>

\* HuggingFace's list and HEAD tell the file's size, or the call ends.
AskHuggingFace(p) ==
  /\ pc[p] = "fallback"
  /\ StartFetch(p, "hf")
  /\ UNCHANGED <<disk, world>>

HeadFails(p) ==
  /\ pc[p] = "fallback" /\ faults < FaultCap
  /\ faults' = faults + 1
  /\ Leave(p)
  /\ UNCHANGED <<disk, mode, ver, crashes>>

\* The model is loaded; the next call may come.
Return(p) == pc[p] = "ok" /\ Leave(p) /\ UNCHANGED <<disk, world>>

----------------------------------------------------------------------------
\* fetch_to_temp opens the part file without truncating it ...
Open(p) ==
  /\ pc[p] = "open"
  /\ part' = IF part = 0 THEN Min(Unused) ELSE part
  /\ data' = IF part = 0 THEN [data EXCEPT ![part'] = <<>>] ELSE data
  /\ fd' = [fd EXCEPT ![p] = part']
  /\ Goto(p, "flock")
  /\ UNCHANGED <<final, src, tries, entry, resp, next, view, path, world>>

\* The part file is taken without asking for the lock (mutant).
FlockNothing(p) == pc[p] = "flock" /\ Goto(p, "get") /\ UNCHANGED <<disk, fetch, path, world>>

\* ... and then tries to lock it, once.  The lock lasts until the file is dropped.
Holds(q, i) == fd[q] = i /\ pc[q] \in {"get", "recv", "check"}
Flock(p) ==
  /\ pc[p] = "flock"
  /\ \/ (\E q \in Proc : Holds(q, fd[p])) /\ AttemptFails(p)
     \/ /\ ~\E q \in Proc : Holds(q, fd[p])
        /\ Goto(p, "get")
        /\ UNCHANGED <<fetch, path>>
  /\ UNCHANGED <<disk, world>>

Have(p) == Len(data[fd[p]])

Complete(p) == Have(p) > 0 /\ Have(p) = Size[entry[p]]

\* A part of the expected size needs no request: verify_and_rename hashes it,
\* with the file open and locked.
VerifyPart(p) ==
  /\ pc[p] = "get" /\ Complete(p)
  /\ view' = [view EXCEPT ![p] = data[fd[p]]]
  /\ Goto(p, "check")
  /\ UNCHANGED <<disk, src, tries, entry, fd, resp, next, path, world>>

\* What HuggingFace answers is accepted with the etag of the HEAD, or with none.
\* (Bound: none and another version than the HEAD's only if that is the shorter
\* one.  The beginning of a longer one can pass for the whole of the HEAD's.)
Accepts(p) == Strict(p) \/ entry[p] = ver \/ Size[ver] < Size[entry[p]]

\* The response streams the server's version from a block on.
Receive(p, from) ==
  /\ Accepts(p)
  /\ resp' = [resp EXCEPT ![p] = ver]
  /\ next' = [next EXCEPT ![p] = from]
  /\ Goto(p, "recv")
  /\ UNCHANGED <<part, final, src, tries, entry, fd, view, path>>

\* 206: the server honours `Range: bytes=have-`.
GetResumed(p) ==
  /\ pc[p] = "get" /\ ~Complete(p) /\ Have(p) < Size[ver]
  /\ Receive(p, Have(p) + 1)
  /\ UNCHANGED <<data, world>>

\* 200: the server does not honour the Range; the part is truncated.
GetWhole(p) ==
  /\ pc[p] = "get" /\ ~Complete(p) /\ Have(p) > 0
  /\ data' = [data EXCEPT ![fd[p]] = <<>>]
  /\ Receive(p, 1)
  /\ UNCHANGED world

\* 206 with no Content-Range, or one that starts elsewhere: the part is
\* truncated, but the body, which is the rest, is read all the same.  (Bound: not
\* for a shared version, and only where a sha256 will tell, now and later.)
GetOdd(p) ==
  /\ pc[p] = "get" /\ ~Complete(p) /\ Have(p) \in 1..(Size[ver] - 1)
  /\ mode = "modelscope" /\ ver \notin Shared /\ faults < FaultCap
  /\ faults' = faults + 1
  /\ data' = [data EXCEPT ![fd[p]] = <<>>]
  /\ Receive(p, Have(p) + 1)
  /\ UNCHANGED <<mode, ver, crashes>>

\* 416 when the part is not shorter than the server's file, which leaves the part
\* as it is; or a response that carries another etag than the HEAD's.
GetRefused(p) ==
  /\ pc[p] = "get" /\ ~Complete(p)
  /\ Have(p) >= Size[ver] \/ (~Strict(p) /\ entry[p] # ver)
  /\ AttemptFails(p)
  /\ UNCHANGED <<disk, world>>

\* One read of the body, appended to the part.
ReadBlock(p) ==
  /\ pc[p] = "recv" /\ next[p] <= Size[resp[p]]
  /\ data' = [data EXCEPT ![fd[p]] = Append(@, <<resp[p], next[p]>>)]
  /\ next' = [next EXCEPT ![p] = @ + 1]
  /\ UNCHANGED <<part, final, pc, src, tries, entry, fd, resp, view, path, world>>

\* The end of the body: the file is dropped, and its flock with it, before the
\* checks and the rename; what they check is what was hashed while reading.
EndOfBody(p) ==
  /\ pc[p] = "recv" /\ next[p] > Size[resp[p]]
  /\ view' = [view EXCEPT ![p] = data[fd[p]]]
  /\ fd' = [fd EXCEPT ![p] = 0]
  /\ Goto(p, "check")
  /\ UNCHANGED <<disk, src, tries, entry, resp, next, path, world>>

\* The length and, from ModelScope, the sha256 of the listed version.
Passes(p) == /\ Len(view[p]) = Size[entry[p]]
             /\ Strict(p) => view[p] = Whole(entry[p])

\* A part that failed its check is kept (mutant).
FinishKeepsBad(p) ==
  /\ pc[p] = "check"
  /\ \/ Passes(p) /\ part # 0 /\ final' = part /\ part' = 0 /\ Succeed(p, "final")
     \/ ~(Passes(p) /\ part # 0) /\ AttemptFails(p) /\ UNCHANGED <<part, final>>
  /\ UNCHANGED <<data, world>>

\* What is renamed or deleted is whatever the part path leads to by now; no
\* part file there is an error.
Finish(p) ==
  /\ pc[p] = "check"
  /\ \/ /\ Passes(p) /\ part # 0
        /\ final' = part
        /\ Succeed(p, "final")
     \/ ~(Passes(p) /\ part # 0) /\ AttemptFails(p) /\ UNCHANGED final
  /\ part' = 0
  /\ UNCHANGED <<data, world>>

\* A request or a read of the body fails: what has arrived stays in the part.
NetworkFails(p) ==
  /\ pc[p] \in {"get", "recv"} /\ ~(pc[p] = "get" /\ Complete(p)) /\ faults < FaultCap
  /\ faults' = faults + 1
  /\ AttemptFails(p)
  /\ UNCHANGED <<disk, mode, ver, crashes>>

Crash(p) ==
  /\ pc[p] # "idle" /\ crashes < CrashCap
  /\ crashes' = crashes + 1
  /\ Leave(p)
  /\ UNCHANGED <<disk, mode, ver, faults>>

\* A new version is published.  HuggingFace's is modelled only while no part
\* is about: from there nothing but the size of the whole is checked.
Publish ==
  /\ ver < Len(Size)
  /\ ver + 1 \in Shared \/ Cardinality(Busy) < 2
  /\ mode = "modelscope" \/ part = 0
  /\ ver' = ver + 1
  /\ UNCHANGED <<disk, pc, fetch, path, mode, crashes, faults>>

----------------------------------------------------------------------------
Proceed(p) == \/ AskHuggingFace(p) \/ Open(p) \/ Flock(p) \/ VerifyPart(p)
              \/ GetResumed(p) \/ GetWhole(p) \/ GetOdd(p) \/ GetRefused(p)
              \/ ReadBlock(p) \/ EndOfBody(p) \/ Finish(p)

Next == \/ \E p \in Proc : \/ Download(p) \/ Ensure(p) \/ Return(p)
                           \/ Proceed(p) \/ Crash(p)
                           \/ NetworkFails(p) \/ ListFails(p) \/ HeadFails(p)
        \/ Publish

Spec == Init /\ [][Next]_vars

\* A process that runs goes on, and callers ask for downloads again and again.
FairSpec == Spec /\ \A p \in Proc : /\ WF_vars(Proceed(p) \/ Return(p))
                                    /\ SF_vars(Download(p))

----------------------------------------------------------------------------
\* What the model's name leads to is always one whole version of the file: no
\* unfinished, mixed or damaged bytes, whatever was interrupted before.
FinalIsWhole == final # 0 => \E v \in Version : data[final] = Whole(v)

\* A download that succeeds leaves the version it was told of under the name.  (From
\* HuggingFace without an etag only the size tells versions apart.)
ServedAsListed ==
  \A p \in Proc : (pc[p] = "ok" /\ entry[p] # 0) => final # 0 /\ data[final] = Whole(entry[p])

\* The part of a file that shrank on the server, longer than all of what is there.
TooLong == part # 0 /\ Len(data[part]) > Size[ver]

\* No left-over part, crash or failure keeps later calls from getting the version
\* on the server in the end, with one exception: a part longer than the server's
\* file gets 416 each time and stays (download.rs:267-270), although 224-226
\* promise that a shrunken size and a 416 truncate the part and start again.
EventuallyFetched == <>[]TooLong \/ []<>(final # 0 /\ data[final] = Whole(ver))
=============================================================================
