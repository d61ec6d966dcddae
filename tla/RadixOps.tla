------------------------------ MODULE RadixOps ------------------------------
(***************************************************************************)
(* The operations of the prefix cache (crates/scheduler/src/radix.rs) as   *)
(* functions from a cache to a cache.  A cache is a record                 *)
(*   nodes  : the trie, as the set of its paths (the root excluded)        *)
(*   sub    : path -> number of entries in the subtree, the root included  *)
(*   entry  : key -> first page of the run it owns (its length is the key) *)
(*   lru    : the keys, oldest stamp first (stamps are unique)             *)
(*   cached : pages owned by entries.                                      *)
(* A path is a sequence of tokens; entries sit at block-aligned depths.    *)
(***************************************************************************)
EXTENDS Integers, Sequences, SequencesExt, FiniteSets

CONSTANTS Block,        \* tokens per page
          CachePages    \* page budget of the cache, 0 = off

ASSUME RadixAssumption == Block \in Nat \ {0} /\ CachePages \in Nat

Root == <<>>
EmptyCache == [nodes |-> {}, sub |-> [p \in {Root} |-> 0], entry |-> [k \in {} |-> 0],
               lru |-> <<>>, cached |-> 0]

Keys(c) == DOMAIN c.entry
PagesOf(key) == Len(key) \div Block
AlignedPrefix(ids) == SubSeq(ids, 1, PagesOf(ids) * Block)
Under(S, p) == {q \in S : IsPrefix(p, q)}
Children(c, p) == {q \in Under(c.nodes, p) : Len(q) = Len(p) + 1}

\* A list without the members of a set, and the pages of a list of keys.
Without(seq, ids) ==
  FoldLeft(LAMBDA kept, x : IF x \in ids THEN kept ELSE Append(kept, x), <<>>, seq)
PagesIn(keys) == FoldLeft(LAMBDA sum, k : sum + PagesOf(k), 0, keys)

----------------------------------------------------------------------------
\* Lookup (deepest_hit_path): the deepest aligned node along the prompt whose
\* subtree still counts an entry; of the entries below it the deepest serves,
\* the smallest key first.

\* A walk that takes any depth with entries below it (mutant).
HitDepthsUnaligned(c, ids) ==
  {d \in 1 .. Len(ids) : /\ SubSeq(ids, 1, d) \in c.nodes
                         /\ c.sub[SubSeq(ids, 1, d)] > 0}

HitDepths(c, ids) ==
  {d \in 1 .. Len(ids) : /\ d % Block = 0
                         /\ SubSeq(ids, 1, d) \in c.nodes
                         /\ c.sub[SubSeq(ids, 1, d)] > 0}
HitLen(c, ids) == Max(HitDepths(c, ids) \union {0})

Before(p, q) ==
  \/ Len(p) > Len(q)
  \/ /\ Len(p) = Len(q)
     /\ \E i \in 1 .. Len(p) : p[i] < q[i] /\ SubSeq(p, 1, i - 1) = SubSeq(q, 1, i - 1)

Servers(c, ids) == IF HitLen(c, ids) = 0 THEN {}
                   ELSE Under(Keys(c), SubSeq(ids, 1, HitLen(c, ids)))
Serving(c, ids) == CHOOSE k \in Servers(c, ids) :
                     \A other \in Servers(c, ids) \ {k} : Before(k, other)
Hits(c, ids) == Servers(c, ids) # {}
Lookup(c, ids) == [base |-> c.entry[Serving(c, ids)], pages |-> HitLen(c, ids) \div Block,
                   keyLen |-> HitLen(c, ids)]

Youngest(lru, key) == Append(Without(lru, {key}), key)
Touch(c, ids) ==
  IF Hits(c, ids) THEN [c EXCEPT !.lru = Youngest(@, Serving(c, ids))] ELSE c

----------------------------------------------------------------------------
\* Removal: drop the chain that carried this entry alone, else clear the entry
\* in place; the surviving nodes of the path count one entry less.

\* A trim that goes by the entry counts, which a path created for an insert
\* does not have yet (mutant).
TrimFromByCount(c, key) ==
  Min({j \in 1 .. Len(key) : c.sub[SubSeq(key, 1, j)] = 1} \union {Len(key) + 1})

\* Depth of the topmost node whose subtree is this entry alone; one more than
\* the key when the entry has nodes below it.
TrimFrom(c, key) ==
  LET lone(j) == IF j = Len(key) THEN Children(c, key) = {}
                 ELSE /\ SubSeq(key, 1, j) \notin Keys(c)
                      /\ Cardinality(Children(c, SubSeq(key, 1, j))) = 1
  IN  Min({j \in 1 .. Len(key) : \A i \in j .. Len(key) : lone(i)} \union {Len(key) + 1})

RemoveEntry(c, key) ==
  LET dropped == Under(c.nodes, SubSeq(key, 1, TrimFrom(c, key))) IN
  LET nodes == IF TrimFrom(c, key) > Len(key) THEN c.nodes ELSE c.nodes \ dropped
  IN  [nodes  |-> nodes,
       sub    |-> [p \in nodes \union {Root} |-> IF IsPrefix(p, key) THEN c.sub[p] - 1
                                                 ELSE c.sub[p]],
       entry  |-> Restrict(c.entry, Keys(c) \ {key}),
       lru    |-> Without(c.lru, {key}),
       cached |-> c.cached - PagesOf(key)]

----------------------------------------------------------------------------
\* Insertion: create the path, refresh an entry that is there already, else
\* evict the oldest until the budget fits, walk the path again and admit.

WithPath(c, key) ==
  LET nodes == c.nodes \union (Prefixes(key) \ {Root})
  IN  [c EXCEPT !.nodes = nodes,
                !.sub = [p \in nodes \union {Root} |-> IF p \in DOMAIN @ THEN @[p] ELSE 0]]

\* The oldest keys that have to go for `need` more pages.
EvictedKeys(c, need) ==
  LET enough == {n \in 0 .. Len(c.lru) :
                   c.cached + need - PagesIn(SubSeq(c.lru, 1, n)) <= CachePages}
  IN  SubSeq(c.lru, 1, Min(enough \union {Len(c.lru)}))

Admissible(key, pages) ==
  pages > 0 /\ pages * Block <= Len(key) /\ pages <= CachePages

\* An insert that forgets single entry per aligned prefix (mutant).
NeverRefresh(c, key) == FALSE
IsRefresh(c, key) == key \in Keys(c)

\* The three stages of insert for an aligned key that is not cached yet.
Evict(c, key) == FoldLeft(RemoveEntry, WithPath(c, key), EvictedKeys(c, PagesOf(key)))
\* An eviction may have trimmed the path created before it.
PathGone(c, key) == key \notin Evict(c, key).nodes

\* Accounting that stops above the entry's own node (mutant).
AdmitAboveOnly(c, key, base) ==
  [c EXCEPT !.sub = [p \in DOMAIN @ |-> IF IsStrictPrefix(p, key) THEN @[p] + 1 ELSE @[p]],
            !.entry = [k \in Keys(c) \union {key} |-> IF k = key THEN base ELSE @[k]],
            !.lru = Append(@, key),
            !.cached = @ + PagesOf(key)]

Admit(c, key, base) ==
  [c EXCEPT !.sub = [p \in DOMAIN @ |-> IF IsPrefix(p, key) THEN @[p] + 1 ELSE @[p]],
            !.entry = [k \in Keys(c) \union {key} |-> IF k = key THEN base ELSE @[k]],
            !.lru = Append(@, key),
            !.cached = @ + PagesOf(key)]

Insert(c, key, base) ==
  IF IsRefresh(c, key) THEN [c EXCEPT !.lru = Youngest(@, key)]
  ELSE Admit(Evict(c, key), key, base)
=============================================================================
