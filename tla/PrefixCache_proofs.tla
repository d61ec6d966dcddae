------------------------- MODULE PrefixCache_proofs -------------------------
(***************************************************************************)
(* The prefix cache keeps its books, for any budget, any prompts and any   *)
(* number of runs.  The invariant says of the trie what every operation    *)
(* relies on - prefix-closed nodes, right counts on each of them, leaves   *)
(* that are keys, a list of distinct keys with their pages - and of the    *)
(* runs that lending and owning are inverse to each other.                 *)
(***************************************************************************)
EXTENDS PrefixCache, CacheOps_proofs

Lending ==
  /\ lent \in [Runs -> Seq(Nat)]
  /\ \A k \in Keys(cache) : cache.entry[k] \in Runs /\ lent[cache.entry[k]] = k
  /\ \A r \in Runs : lent[r] # Root => lent[r] \in Keys(cache) /\ cache.entry[lent[r]] = r

CacheInv == Kept(cache, Nat) /\ Lending /\ panicked \in BOOLEAN

\* What an insert works with.
LEMMA KeyFacts ==
  ASSUME NEW ids \in Seq(Nat), NEW pages \in 1..CachePages, pages * Block <= Len(ids), NEW key,
         key = SubSeq(ids, 1, pages * Block)
  PROVE  key \in Seq(Nat) /\ Len(key) = PagesOf(key) * Block /\ PagesOf(key) = pages
<1>1. pages \in Nat /\ Block \in Nat \ {0} BY RadixAssumption
<1>2. PICK m \in Nat : m = pages * Block BY <1>1
<1>3. m \in 0..Len(ids) BY <1>2
<1>4. key \in Seq(Nat) /\ Len(key) = m BY <1>2, <1>3, CutFacts
<1>5. (pages * Block) \div Block = pages BY <1>1, PagesExact
<1> QED BY <1>2, <1>4, <1>5 DEF PagesOf

LEMMA CacheInit == ASSUME Init PROVE CacheInv
<1>1. Kept(cache, Nat) /\ Keys(cache) = {} BY RadixAssumption, EmptyKept DEF Init
<1>2. lent \in [Runs -> Seq(Nat)] /\ \A r \in Runs : lent[r] = Root BY DEF Init, Root
<1> QED BY <1>1, <1>2 DEF Init, CacheInv, Lending

LEMMA RefreshKeeps ==
  ASSUME CacheInv, NEW key \in Keys(cache), cache' = [cache EXCEPT !.lru = Youngest(@, key)],
         UNCHANGED <<lent, panicked>>
  PROVE  CacheInv'
<1>1. PICK c : c = cache OBVIOUS
<1>2. PICK d : d = cache' OBVIOUS
<1>3. d = [c EXCEPT !.lru = Youngest(@, key)] BY <1>1, <1>2
<1>4. Kept(c, Nat) BY <1>1 DEF CacheInv
<1>5. Kept(d, Nat) /\ Keys(d) = Keys(c) /\ d.entry = c.entry
  BY <1>1, <1>3, <1>4, RadixAssumption, YoungestKept
<1>6. Kept(cache', Nat) /\ Keys(cache') = Keys(cache) /\ cache'.entry = cache.entry BY <1>1, <1>2, <1>5
<1> QED BY <1>6 DEF CacheInv, Lending

LEMMA DoInsertKeeps ==
  ASSUME CacheInv, NEW ids \in Prompts, NEW pages \in 1..CachePages, NEW r \in Runs, DoInsert(ids, pages, r)
  PROVE  CacheInv'
<1>1. PICK c : c = cache OBVIOUS
<1>2. PICK key : key = AlignedKey(ids, pages) OBVIOUS
<1>3. /\ key \in Seq(Nat) /\ Len(key) = PagesOf(key) * Block /\ PagesOf(key) = pages
  <2>1. ids \in Seq(Nat) BY PromptAssumption
  <2>2. pages * Block <= Len(ids) BY DEF DoInsert, Admissible
  <2> QED BY <1>2, <2>1, <2>2, KeyFacts DEF AlignedKey
<1>4. lent[r] = Root /\ ~panicked BY DEF DoInsert
<1>5. Kept(c, Nat) /\ lent \in [Runs -> Seq(Nat)] BY <1>1 DEF CacheInv, Lending
<1>6. CASE key \in Keys(c)
  <2>1. cache' = Insert(cache, key, r) /\ UNCHANGED <<lent, panicked>>
    BY <1>1, <1>2, <1>6 DEF DoInsert, IsRefresh
  <2>2. cache' = [cache EXCEPT !.lru = Youngest(@, key)] BY <1>1, <1>6, <2>1 DEF Insert, IsRefresh
  <2> QED BY <1>1, <1>6, <2>1, <2>2, RefreshKeeps
<1>7. CASE key \notin Keys(c) /\ PathGone(c, key)
  <2>1. panicked' = TRUE /\ UNCHANGED <<cache, lent>> BY <1>1, <1>2, <1>7 DEF DoInsert, IsRefresh
  <2> QED BY <2>1 DEF CacheInv, Lending
<1>8. CASE key \notin Keys(c) /\ ~PathGone(c, key)
  <2>1. PICK d : d = cache' OBVIOUS
  <2>2. PICK out : out = Among(Evicted(c, key)) OBVIOUS
  <2>3. NewKey(c, Nat, key) BY <1>3, <1>8 DEF NewKey
  <2>4. d = Insert(c, key, r) BY <1>1, <1>2, <1>8, <2>1 DEF DoInsert, IsRefresh
  <2>5. Inserts(c, Nat, key, r, d) BY <1>5, <1>8, <2>3, <2>4, RadixAssumption, InsertKept
  <2>6. /\ Kept(d, Nat) /\ Keys(d) = (Keys(c) \ out) \union {key}
        /\ d.entry = [k \in Keys(d) |-> IF k = key THEN r ELSE c.entry[k]]
        /\ Evicted(c, key) \in Seq(Keys(c))
    BY <2>2, <2>5, Zenon DEF Inserts
  <2>7. Range(EvictedKeys(c, pages)) = out /\ out \subseteq Keys(c)
    <3>1. EvictedKeys(c, pages) = Evicted(c, key) BY <1>3 DEF Evicted
    <3>2. Range(Evicted(c, key)) = Among(Evicted(c, key)) BY <2>6, SeqFacts
    <3> QED BY <2>2, <2>6, <3>1, <3>2 DEF Among
  <2>8. lent' = [s \in Runs |-> IF s = r THEN key ELSE IF lent[s] \in out THEN Root ELSE lent[s]]
        /\ UNCHANGED panicked
    BY <1>1, <1>2, <1>8, <2>7 DEF DoInsert, IsRefresh
  <2>9. lent' \in [Runs -> Seq(Nat)]
    <3>1. Root \in Seq(Nat) BY DEF Root
    <3> QED BY <1>3, <1>5, <2>8, <3>1
  <2>10. Root \notin Keys(c) BY <1>5 DEF Kept, Sound, Tree
  <2>11. key # Root
    <3>1. PICK n \in Nat \ {0} : n = pages OBVIOUS
    <3>2. n * Block # 0 BY RadixAssumption
    <3>3. Len(key) # 0 BY <1>3, <3>1, <3>2
    <3> QED BY <3>3 DEF Root
  <2>12. /\ \A k \in Keys(c) : c.entry[k] \in Runs /\ lent[c.entry[k]] = k
         /\ \A s \in Runs : lent[s] # Root => lent[s] \in Keys(c) /\ c.entry[lent[s]] = s
    BY <1>1 DEF CacheInv, Lending
  <2>13. \A k \in Keys(d) : d.entry[k] \in Runs /\ lent'[d.entry[k]] = k
    <3> TAKE k \in Keys(d)
    <3>1. CASE k = key BY <2>6, <2>8, <3>1
    <3>2. CASE k # key
      <4>1. k \in Keys(c) /\ k \notin out /\ d.entry[k] = c.entry[k] BY <2>6, <3>2
      <4>2. c.entry[k] \in Runs /\ lent[c.entry[k]] = k /\ c.entry[k] # r BY <1>4, <2>10, <2>12, <4>1
      <4> QED BY <2>8, <4>1, <4>2
    <3> QED BY <3>1, <3>2
  <2>14. \A s \in Runs : lent'[s] # Root => lent'[s] \in Keys(d) /\ d.entry[lent'[s]] = s
    <3> TAKE s \in Runs
    <3>1. CASE s = r BY <2>6, <2>8, <3>1
    <3>2. CASE s # r /\ lent[s] \in out BY <2>8, <3>2
    <3>3. CASE s # r /\ lent[s] \notin out
      <4>1. lent'[s] = lent[s] BY <2>8, <3>3
      <4>2. SUFFICES ASSUME lent[s] # Root PROVE lent[s] \in Keys(d) /\ d.entry[lent[s]] = s BY <4>1
      <4>3. lent[s] \in Keys(c) /\ c.entry[lent[s]] = s BY <2>12, <4>2
      <4>4. lent[s] # key BY <1>8, <4>3
      <4> QED BY <2>6, <3>3, <4>3, <4>4
    <3> QED BY <3>1, <3>2, <3>3
  <2> QED BY <2>1, <2>6, <2>8, <2>9, <2>13, <2>14 DEF CacheInv, Lending
<1> QED BY <1>6, <1>7, <1>8

LEMMA TouchKeeps == ASSUME CacheInv, NEW ids \in Prompts, DoTouch(ids) PROVE CacheInv'
<1>1. ids \in Seq(Nat) BY PromptAssumption
<1>2. UNCHANGED <<lent, panicked>> BY DEF DoTouch
<1>3. CASE Hits(cache, ids)
  <2>1. Serving(cache, ids) \in Keys(cache)
    <3>1. Sound(cache, Nat, {}) BY DEF CacheInv, Kept
    <3> QED BY <1>1, <1>3, <3>1, RadixAssumption, ServingIs
  <2>2. cache' = [cache EXCEPT !.lru = Youngest(@, Serving(cache, ids))] BY <1>3 DEF DoTouch, Touch
  <2> QED BY <1>2, <2>1, <2>2, RefreshKeeps
<1>4. CASE ~Hits(cache, ids)
  <2>1. cache' = cache BY <1>4 DEF DoTouch, Touch
  <2> QED BY <1>2, <2>1 DEF CacheInv, Lending
<1> QED BY <1>3, <1>4

LEMMA ClearKeeps == ASSUME CacheInv, DoClear PROVE CacheInv'
<1>1. cache' = EmptyCache /\ lent' = [r \in Runs |-> Root] /\ UNCHANGED panicked BY DEF DoClear
<1>2. Kept(cache', Nat) /\ Keys(cache') = {} BY <1>1, RadixAssumption, EmptyKept
<1>3. lent' \in [Runs -> Seq(Nat)] /\ \A r \in Runs : lent'[r] = Root BY <1>1 DEF Root
<1> QED BY <1>1, <1>2, <1>3 DEF CacheInv, Lending

\* The invariant of the cache and of the runs its callers lend it holds in
\* every state, whatever is inserted, touched and cleared in which order.
THEOREM CacheInvariant == Spec => []CacheInv
<1>1. ASSUME CacheInv, [Next]_vars PROVE CacheInv'
  <2>1. CASE UNCHANGED vars BY <1>1, <2>1 DEF vars, CacheInv, Lending
  <2>2. ASSUME NEW ids \in Prompts, NEW pages \in 1..CachePages, NEW r \in Runs, DoInsert(ids, pages, r)
        PROVE  CacheInv'
    BY <1>1, <2>2, DoInsertKeeps
  <2>3. ASSUME NEW ids \in Prompts, DoTouch(ids) PROVE CacheInv' BY <1>1, <2>3, TouchKeeps
  <2>4. CASE DoClear BY <1>1, <2>4, ClearKeeps
  <2> QED BY <1>1, <2>1, <2>2, <2>3, <2>4 DEF Next
<1> QED BY <1>1, CacheInit, PTL DEF Spec

-----------------------------------------------------------------------------
(* What it says *)

LEMMA InvTree == ASSUME CacheInv PROVE TreeConsistent
<1>1. PICK c : c = cache OBVIOUS
<1>2. /\ Sound(c, Nat, {}) /\ c.cached <= CachePages /\ Tree(c, Nat)
      /\ c.sub = [p \in c.nodes \union {Root} |-> Cardinality(Under(Keys(c), p))]
      /\ c.lru \in Seq(Keys(c)) /\ Distinct(c.lru) /\ Among(c.lru) = Keys(c) /\ c.cached = PagesIn(c.lru)
      /\ \A p \in c.nodes : Children(c, p) = {} => p \in Keys(c)
  BY <1>1 DEF CacheInv, Kept, Sound, Counts, Listed, Grown
<1>3. Root \notin c.nodes /\ Keys(c) \subseteq c.nodes BY <1>2 DEF Tree
<1>4. c.sub \in [c.nodes \union {Root} -> Nat]
  <2>1. \A p \in c.nodes \union {Root} : Cardinality(Under(Keys(c), p)) \in Nat
    BY <1>2, TreeFinite, FS_CardinalityType
  <2> QED BY <1>2, <2>1
<1>5. c.entry \in [Keys(c) -> Runs]
  <2>1. c.entry = [k \in Keys(c) |-> c.entry[k]] BY <1>2 DEF Sound, IsCache
  <2>2. \A k \in Keys(c) : c.entry[k] \in Runs BY <1>1 DEF CacheInv, Lending
  <2> QED BY <2>1, <2>2
<1>6. Range(c.lru) = Keys(c) /\ Len(c.lru) = Cardinality(Keys(c)) BY <1>2, SeqFacts, DistinctLength
<1>7. panicked \in BOOLEAN BY DEF CacheInv
<1>8. TypeOK BY <1>1, <1>3, <1>4, <1>5, <1>6, <1>7 DEF TypeOK
<1>9. \A p \in DOMAIN c.sub : c.sub[p] = Cardinality(Under(Keys(c), p)) BY <1>2
<1> QED BY <1>1, <1>2, <1>8, <1>9 DEF TreeConsistent

\* RunsAccounted: the tree agrees with itself, and every run lent to the cache
\* is owned by exactly one entry until the cache gives it back.
THEOREM RunsAreAccounted == Spec => []RunsAccounted
<1>1. ASSUME CacheInv PROVE RunsAccounted
  <2>1. TreeConsistent BY <1>1, InvTree
  <2>2. /\ \A k \in Keys(cache) : lent[cache.entry[k]] = k
        /\ \A r \in Runs : lent[r] # Root => lent[r] \in Keys(cache) /\ cache.entry[lent[r]] = r
    BY <1>1 DEF CacheInv, Lending
  <2> QED BY <2>1, <2>2 DEF RunsAccounted
<1> QED BY <1>1, CacheInvariant, PTL

\* GuardedInsertSafe: after a lookup that does not find the whole key, no
\* eviction trims the path the insert has just made.
THEOREM GuardedInsertsAreSafe == Spec => []GuardedInsertSafe
<1>1. ASSUME CacheInv PROVE GuardedInsertSafe
  <2> SUFFICES ASSUME NEW ids \in Prompts, NEW key, key = AlignedPrefix(ids),
                      key # Root, PagesOf(key) <= CachePages, HitLen(cache, key) < Len(key)
               PROVE  ~PathGone(cache, key)
    BY DEF GuardedInsertSafe
  <2>1. ids \in Seq(Nat) BY PromptAssumption
  <2>2. PICK n \in Nat : n = Len(ids) BY <2>1
  <2>3. Block \in Nat \ {0} /\ CachePages \in Nat BY RadixAssumption
  <2>4. PICK m \in Nat : m = PagesOf(ids) /\ m * Block <= n BY <2>2, <2>3, DivMod DEF PagesOf
  <2>5. m * Block \in 0..Len(ids) BY <2>2, <2>3, <2>4
  <2>6. key \in Seq(Nat) /\ Len(key) = m * Block BY <2>1, <2>4, <2>5, CutFacts DEF AlignedPrefix
  <2>7. PagesOf(key) = m BY <2>3, <2>6, PagesExact DEF PagesOf
  <2>8. m # 0
    <3> SUFFICES ASSUME m = 0 PROVE FALSE OBVIOUS
    <3>1. Len(key) = 0 BY <2>3, <2>6
    <3> QED BY <2>6, <3>1, EmptySeq DEF Root
  <2>9. PagesOf(key) \in 1..CachePages BY <2>3, <2>4, <2>7, <2>8
  <2>10. Kept(cache, Nat) BY <1>1 DEF CacheInv
  <2> QED BY <2>6, <2>7, <2>9, <2>10, RadixAssumption, MissIsSafe
<1> QED BY <1>1, CacheInvariant, PTL

-----------------------------------------------------------------------------
(* Hits *)

\* The longest common prefix is as long as it can be.
LEMMA LongestIs ==
  ASSUME NEW T, NEW k \in Seq(T), NEW ids \in Seq(T)
  PROVE  /\ Len(LongestCommonPrefix({k, ids})) \in 0..Len(ids)
         /\ \A d \in 0..Len(ids) : IsPrefix(Stem(ids, d), k) <=> d <= Len(LongestCommonPrefix({k, ids}))
<1>1. PICK n \in Nat : n = Len(ids) OBVIOUS
<1> DEFINE C == CommonPrefixes({k, ids})
           D == {d \in 0..n : IsPrefix(Stem(ids, d), k)}
<1>2. \A d \in 0..n : Stem(ids, d) \in Seq(T) /\ Len(Stem(ids, d)) = d /\ IsPrefix(Stem(ids, d), ids) BY <1>1, CutPrefix
<1>3. \A p \in C : \E d \in D : p = Stem(ids, d)
  <2> TAKE p \in C
  <2>1. IsPrefix(p, k) /\ IsPrefix(p, ids) /\ p \in Prefixes(k) \union Prefixes(ids)
    <3>1. p \in UNION {Prefixes(seq) : seq \in {k, ids}} /\ \A t \in {k, ids} : IsPrefix(p, t)
      BY DEF CommonPrefixes
    <3> QED BY <3>1
  <2>2. p \in Seq(T)
    <3>1. \A s \in Seq(T) : \A q \in Prefixes(s) : q \in Seq(T)
      <4> TAKE s \in Seq(T)
      <4> TAKE q \in Prefixes(s)
      <4>1. PICK l \in 0..Len(s) : q = SubSeq(s, 1, l) BY DEF Prefixes
      <4> QED BY <4>1, CutFacts
    <3> QED BY <2>1, <3>1
  <2>3. PICK d \in Nat : d = Len(p) BY <2>2
  <2>4. d \in 0..n BY <1>1, <2>1, <2>2, <2>3, PrefixOrder
  <2>5. p = Stem(ids, d) BY <1>1, <2>1, <2>2, <2>3, <2>4, CutPrefix
  <2> QED BY <2>1, <2>4, <2>5
<1>4. \A d \in D : Stem(ids, d) \in C
  <2> TAKE d \in D
  <2>1. Stem(ids, d) \in Prefixes(ids) BY <1>1 DEF Prefixes, Stem
  <2>2. IsPrefix(Stem(ids, d), k) /\ IsPrefix(Stem(ids, d), ids) BY <1>2
  <2> QED BY <2>1, <2>2 DEF CommonPrefixes
<1>5. 0 \in D
  <2>1. Stem(ids, 0) = Root BY DEF Stem, Root
  <2>2. IsPrefix(Root, k) BY PrefixOrder
  <2> QED BY <1>1, <2>1, <2>2
<1>6. PICK m \in D : \A d \in D : d <= m
  <2>1. D \in SUBSET (0..n) OBVIOUS
  <2> HIDE DEF D
  <2> QED BY <1>1, <1>5, <2>1, MaxUpTo
<1>7. \A p \in C : Len(p) \in D BY <1>2, <1>3
<1>8. Stem(ids, m) \in C /\ \A q \in C : Len(q) <= Len(Stem(ids, m))
  <2>1. m \in 0..n OBVIOUS
  <2> HIDE DEF C, D
  <2> QED BY <1>2, <1>4, <1>6, <1>7, <2>1
<1>9. PICK l : l = LongestCommonPrefix({k, ids}) OBVIOUS
<1>10. l \in C /\ \A q \in C : Len(q) <= Len(l)
  <2>1. l = CHOOSE p \in C : \A q \in C : Len(q) <= Len(p) BY <1>9, Zenon DEF LongestCommonPrefix
  <2> HIDE DEF C
  <2> QED BY <1>8, <2>1
<1>11. Len(l) = m
  <2>1. Len(l) \in D BY <1>7, <1>10
  <2>2. Len(Stem(ids, m)) <= Len(l) /\ Len(Stem(ids, m)) = m BY <1>2, <1>8, <1>10
  <2>3. Len(l) <= m BY <1>6, <2>1
  <2>4. Len(l) \in 0..n /\ m \in 0..n BY <2>1
  <2> QED BY <2>2, <2>3, <2>4
<1>12. ASSUME NEW d \in 0..n PROVE IsPrefix(Stem(ids, d), k) <=> d <= m
  <2>1. IsPrefix(Stem(ids, d), k) => d <= m BY <1>6
  <2>2. ASSUME d <= m PROVE IsPrefix(Stem(ids, d), k)
    <3>1. m \in 0..n /\ IsPrefix(Stem(ids, m), k) OBVIOUS
    <3>2. d \in 0..m BY <2>2
    <3>3. Stem(Stem(ids, m), d) = Stem(ids, d) BY <1>1, <3>1, <3>2, CutPrefix
    <3>4. IsPrefix(Stem(ids, d), Stem(ids, m)) BY <1>2, <3>1, <3>2, <3>3, CutPrefix
    <3> QED BY <1>2, <3>1, <3>4, PrefixOrder
  <2> QED BY <2>1, <2>2
<1>13. m \in 0..n OBVIOUS
<1> QED BY <1>1, <1>9, <1>11, <1>12, <1>13

\* HitsSoundAndLongest: a hit covers as many whole pages as any cached key
\* agrees with the prompt on, and names the run that was lent under such a key.
THEOREM HitsAreSoundAndLongest == Spec => []HitsSoundAndLongest
<1>1. ASSUME CacheInv, NEW ids \in Prompts
      PROVE  LET agreed(k) == PagesOf(LongestCommonPrefix({k, ids})) * Block
             IN  /\ HitLen(cache, ids) = Max({agreed(k) : k \in Keys(cache)} \union {0})
                 /\ Hits(cache, ids) <=> HitLen(cache, ids) > 0
                 /\ Hits(cache, ids) =>
                      LET hit == Lookup(cache, ids) IN IsPrefix(SubSeq(ids, 1, hit.keyLen), lent[hit.base])
  <2>1. ids \in Seq(Nat) /\ Block \in Nat \ {0} /\ Sound(cache, Nat, {})
    BY <1>1, PromptAssumption, RadixAssumption DEF CacheInv, Kept
  <2>2. PICK n \in Nat : n = Len(ids) BY <2>1
  <2>3. PICK h : h = HitLen(cache, ids) OBVIOUS
  <2>4. /\ h \in 0..n /\ h % Block = 0
        /\ h > 0 => \E k \in Keys(cache) : IsPrefix(Stem(ids, h), k)
        /\ \A k \in Keys(cache), d \in 1..n : d % Block = 0 /\ IsPrefix(Stem(ids, d), k) => d <= h
        /\ Servers(cache, ids) # {} <=> h > 0
        /\ h > 0 => \A k \in Servers(cache, ids) : IsPrefix(Stem(ids, h), k)
    BY <2>1, <2>2, <2>3, HitFacts
  <2>5. Hits(cache, ids) <=> h > 0 BY <2>4 DEF Hits
  <2> DEFINE len(k) == Len(LongestCommonPrefix({k, ids}))
             agreed(k) == PagesOf(LongestCommonPrefix({k, ids})) * Block
             A == {agreed(k) : k \in Keys(cache)} \union {0}
  <2>6. Keys(cache) \subseteq Seq(Nat) BY <2>1 DEF Sound, Tree
  <2>7. \A k \in Keys(cache) : /\ len(k) \in 0..n
                               /\ \A d \in 0..n : IsPrefix(Stem(ids, d), k) <=> d <= len(k)
    BY <2>1, <2>2, <2>6, LongestIs
  <2>8. ASSUME NEW k \in Keys(cache)
        PROVE  /\ agreed(k) \in 0..n /\ agreed(k) % Block = 0 /\ agreed(k) <= len(k)
               /\ \A d \in 0..n : d % Block = 0 /\ d <= len(k) => d <= agreed(k)
    <3>1. PICK l \in 0..n : l = len(k) BY <2>7
    <3>0. l \in Nat /\ Block \in Nat \ {0} BY <2>1, <2>2
    <3>2. PICK q \in Nat : q = l \div Block
      <4>1. l \div Block \in Nat BY <3>0, DivMod
      <4> QED BY <4>1
    <3>3. agreed(k) = q * Block BY <3>1, <3>2 DEF PagesOf
    <3>4. q * Block <= l BY <2>1, <3>1, <3>2, DivMod
    <3>5. q * Block \in Nat /\ (q * Block) \div Block = q BY <2>1, PagesExact
    <3>6. (q * Block) % Block = 0 BY <2>1, <3>5, DivMod
    <3>7. ASSUME NEW d \in 0..n, d % Block = 0, d <= l PROVE d <= q * Block
      <4>1. PICK e \in Nat : d = e * Block
        <5>1. d \in Nat /\ Block \in Nat \ {0} BY <2>1, <2>2
        <5>2. d \div Block \in Nat /\ d = (d \div Block) * Block BY <3>7, <5>1, DivMod
        <5> QED BY <5>2
      <4>2. l = q * Block + (l % Block) /\ l % Block \in 0..(Block - 1) BY <2>1, <3>1, <3>2, DivMod
      <4>3. e <= q
        <5> SUFFICES ASSUME e >= q + 1 PROVE FALSE BY <4>1
        <5>1. e * Block >= (q + 1) * Block BY <2>1, <4>1
        <5>2. (q + 1) * Block = q * Block + Block BY <2>1
        <5>3. PICK x \in Nat : x = q * Block BY <3>5
        <5>4. l < x + Block BY <3>0, <4>2, <5>3
        <5>5. d >= x + Block BY <4>1, <5>1, <5>2, <5>3
        <5> QED BY <3>0, <3>7, <5>3, <5>4, <5>5
      <4>4. e * Block <= q * Block BY <2>1, <4>1, <4>3
      <4> QED BY <4>1, <4>4
    <3> HIDE DEF agreed, len
    <3> QED BY <3>1, <3>3, <3>4, <3>5, <3>6, <3>7
  <2> HIDE DEF agreed, len
  <2>9. \A k \in Keys(cache) : agreed(k) <= h
    <3> TAKE k \in Keys(cache)
    <3>1. CASE agreed(k) = 0 BY <2>4, <3>1
    <3>2. CASE agreed(k) # 0
      <4>1. agreed(k) \in 1..n /\ agreed(k) \in 0..n BY <2>8, <3>2
      <4>2. IsPrefix(Stem(ids, agreed(k)), k) BY <2>7, <2>8, <4>1
      <4> QED BY <2>4, <2>8, <4>1, <4>2
    <3> QED BY <3>1, <3>2
  <2>10. h \in A
    <3>1. CASE h = 0 BY <3>1
    <3>2. CASE h # 0
      <4>1. PICK k \in Keys(cache) : IsPrefix(Stem(ids, h), k) BY <2>4, <3>2
      <4>2. h <= len(k) BY <2>4, <2>7, <4>1
      <4>3. h <= agreed(k) BY <2>4, <2>8, <4>2
      <4>4. agreed(k) \in 0..n /\ agreed(k) <= h BY <2>8, <2>9
      <4>5. h = agreed(k) BY <2>4, <4>3, <4>4
      <4> QED BY <4>5
    <3> QED BY <3>1, <3>2
  <2>11. A \in SUBSET (0..n) /\ \A y \in A : y <= h BY <2>4, <2>8, <2>9
  <2>12. h = Max(A)
    <3> HIDE DEF A
    <3>1. Max(A) \in A /\ \A y \in A : y <= Max(A) BY <2>10, <2>11, MaxUpTo
    <3>2. Max(A) <= h /\ h <= Max(A) /\ Max(A) \in 0..n BY <2>10, <2>11, <3>1
    <3> QED BY <2>4, <3>2
  <2>13. ASSUME Hits(cache, ids)
         PROVE  IsPrefix(SubSeq(ids, 1, Lookup(cache, ids).keyLen), lent[Lookup(cache, ids).base])
    <3>1. PICK s \in Keys(cache) : s = Serving(cache, ids) /\ s \in Servers(cache, ids)
      BY <2>1, <2>13, ServingIs
    <3>2. Lookup(cache, ids).keyLen = h /\ Lookup(cache, ids).base = cache.entry[s] BY <2>3, <3>1 DEF Lookup
    <3>3. IsPrefix(Stem(ids, h), s) BY <2>4, <2>5, <2>13, <3>1
    <3>4. lent[cache.entry[s]] = s BY <1>1 DEF CacheInv, Lending
    <3> QED BY <3>2, <3>3, <3>4 DEF Stem
  <2> QED BY <2>3, <2>5, <2>12, <2>13 DEF agreed
<1>2. ASSUME CacheInv PROVE HitsSoundAndLongest BY <1>1, <1>2, Zenon DEF HitsSoundAndLongest
<1> QED BY <1>2, CacheInvariant, PTL
=============================================================================
