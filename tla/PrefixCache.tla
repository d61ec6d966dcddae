----------------------------- MODULE PrefixCache -----------------------------
(***************************************************************************)
(* The prefix cache (crates/scheduler/src/radix.rs) under any sequence of  *)
(* its public operations.  A key names the run of pages it is inserted     *)
(* with: the caller inserts run `r` under key `k` with the pages of a free *)
(* run number, and gets the number back when the entry is evicted.         *)
(***************************************************************************)
EXTENDS RadixOps

CONSTANTS Prompts,    \* token sequences the callers use
          Runs        \* numbers of page runs (first pages) callers own

ASSUME PromptAssumption == Prompts \subseteq Seq(Nat)

VARIABLES cache,      \* see RadixOps
          lent,       \* run -> the key it was inserted with, Root when returned
          panicked    \* an insert ran into one of its `expect`s

vars == <<cache, lent, panicked>>

Init == cache = EmptyCache /\ lent = [r \in Runs |-> Root] /\ panicked = FALSE

AlignedKey(ids, pages) == SubSeq(ids, 1, pages * Block)

\* insert: `r` is a run the caller has not lent; an eviction gives runs back.
\* A refresh keeps the old run, the new one stays with the caller.
DoInsert(ids, pages, r) ==
  LET key == AlignedKey(ids, pages) IN
  /\ ~panicked
  /\ lent[r] = Root
  /\ Admissible(ids, pages)
  /\ IF ~IsRefresh(cache, key) /\ PathGone(cache, key)
     THEN panicked' = TRUE /\ UNCHANGED <<cache, lent>>
     ELSE /\ cache' = Insert(cache, key, r)
          /\ lent' = IF IsRefresh(cache, key) THEN lent
                     ELSE [s \in Runs |->
                             IF s = r THEN key
                             ELSE IF lent[s] \in Range(EvictedKeys(cache, pages)) THEN Root
                             ELSE lent[s]]
          /\ UNCHANGED panicked

DoTouch(ids) ==
  /\ ~panicked
  /\ cache' = Touch(cache, ids)
  /\ UNCHANGED <<lent, panicked>>

DoClear ==
  /\ ~panicked
  /\ cache' = EmptyCache
  /\ lent' = [r \in Runs |-> Root]
  /\ UNCHANGED panicked

Next == \/ \E ids \in Prompts, pages \in 1 .. CachePages, r \in Runs : DoInsert(ids, pages, r)
        \/ \E ids \in Prompts : DoTouch(ids)
        \/ DoClear

Spec == Init /\ [][Next]_vars

----------------------------------------------------------------------------
TypeOK ==
  /\ Root \notin cache.nodes /\ Keys(cache) \subseteq cache.nodes
  /\ cache.sub \in [cache.nodes \union {Root} -> Nat]
  /\ cache.entry \in [Keys(cache) -> Runs]
  /\ Range(cache.lru) = Keys(cache) /\ Len(cache.lru) = Cardinality(Keys(cache))
  /\ panicked \in BOOLEAN

\* assert_consistent, with the subtree counter of every node and not only the
\* root's: whatever was trimmed, cleared in place or evicted while another
\* insert was half done, each node counts the entries below it, a leaf carries
\* an entry (so memory is bounded by the entries), and the running counter
\* `cached_pages` is the pages of the entries, within the budget.
TreeConsistent ==
  /\ TypeOK
  /\ \A p \in DOMAIN cache.sub : cache.sub[p] = Cardinality(Under(Keys(cache), p))
  /\ \A p \in cache.nodes : Children(cache, p) = {} => p \in Keys(cache)
  /\ cache.cached = PagesIn(cache.lru)
  /\ cache.cached <= CachePages

\* A hit is sound and longest: the run it names was inserted under a key that
\* agrees with the prompt on the tokens the hit covers, and no cached key
\* agrees with the prompt on a longer aligned prefix.
HitsSoundAndLongest ==
  \A ids \in Prompts :
    LET agreed(k) == PagesOf(LongestCommonPrefix({k, ids})) * Block IN
    /\ HitLen(cache, ids) = Max({agreed(k) : k \in Keys(cache)} \union {0})
    /\ Hits(cache, ids) <=> HitLen(cache, ids) > 0
    /\ Hits(cache, ids) =>
         LET hit == Lookup(cache, ids)
         IN  IsPrefix(SubSeq(ids, 1, hit.keyLen), lent[hit.base])

\* The tree is consistent, and every run given to the cache is owned by exactly
\* one entry until the cache returns it, and a returned run is in no entry: the caller, who unrefs what
\* it gets back, neither leaks a run nor frees one that can still be hit.
RunsAccounted ==
  /\ TreeConsistent
  /\ \A k \in Keys(cache) : lent[cache.entry[k]] = k
  /\ \A r \in Runs : lent[r] # Root => lent[r] \in Keys(cache) /\ cache.entry[lent[r]] = r

\* A caller that looks its key up before it inserts, as the scheduler loop does
\* (sched_loop.rs:1095), never makes insert lose the path it created, whatever
\* the eviction trims.
GuardedInsertSafe ==
  \A ids \in Prompts :
    LET key == AlignedPrefix(ids) IN
    key # Root /\ PagesOf(key) <= CachePages /\ HitLen(cache, key) < Len(key) => ~PathGone(cache, key)
=============================================================================
