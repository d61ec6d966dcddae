--------------------------- MODULE CacheOps_proofs ---------------------------
(***************************************************************************)
(* Lemmas about the operators that several components are built from:      *)
(* those of the KV segment pool, for pools of any size, of the prefix      *)
(* cache, for caches of any budget, of the executor of batches             *)
(* (KvExecutor) and of a request's record (ReqOps).                        *)
(*                                                                         *)
(* The pool: a list of free runs that covers exactly the unreferenced      *)
(* pages, with a gap between any two runs, keeps doing so through a cut    *)
(* and through the coalescing insertions of a release. The cache: the trie *)
(* stays closed under prefixes, counts right and ends in keys through a    *)
(* removal, an eviction and an insertion. The executor: what an operation  *)
(* does to who owns which pages (Holding), and which slots of the memory   *)
(* it writes. The folds of the operations are first turned into functions  *)
(* on the prefixes of a sequence, over which one can reason by induction.  *)
(***************************************************************************)
EXTENDS KvExecutor, ReqOps, FiniteSetTheorems, SequenceTheorems, WellFoundedInduction, TLAPS

-----------------------------------------------------------------------------
(* Naturals *)

\* A non-empty set of naturals has a least element.
LEMMA LeastNatural ==
  ASSUME NEW T, T \subseteq Nat, T # {}
  PROVE  \E x \in T : \A y \in T : x <= y
<1> DEFINE R == OpToRel(<, Nat)
<1>1. IsWellFoundedOn(R, Nat) BY NatLessThanWellFounded
<1>2. PICK x \in T : \A y \in T : <<y, x>> \notin R
  <2> HIDE DEF R
  <2> QED BY <1>1, WFMin
<1>3. \A y \in T : <<y, x>> \in R <=> y < x
  BY <1>2 DEF OpToRel
<1> HIDE DEF R
<1>4. ASSUME NEW y \in T PROVE x <= y
  <2>1. ~(y < x) BY <1>2, <1>3, <1>4
  <2>2. x \in Nat /\ y \in Nat BY <1>2, <1>4
  <2> QED BY <2>1, <2>2
<1> QED BY <1>2, <1>4

\* What holds of the empty prefix, and of a prefix if of the one before, holds of all.
LEMMA PrefixInduction ==
  ASSUME NEW n \in Nat, NEW P, 0 \in P, \A k \in 1..n : k - 1 \in P => k \in P
  PROVE  \A k \in 0..n : k \in P
<1> DEFINE T == {k \in 0..n : k \notin P}
<1>1. SUFFICES ASSUME T # {} PROVE FALSE OBVIOUS
<1>2. PICK x \in T : \A y \in T : x <= y
  <2>1. T \subseteq Nat OBVIOUS
  <2> HIDE DEF T
  <2> QED BY <1>1, <2>1, LeastNatural
<1>3. x \in 1..n BY <1>2
<1>4. x - 1 \in 0..n /\ ~(x <= x - 1) BY <1>3
<1>5. x - 1 \in P BY <1>2, <1>4
<1> QED BY <1>2, <1>3, <1>5

LEMMA MaxOfPrefix ==
  ASSUME NEW k \in Nat, NEW T \in SUBSET (1..(k + 1)), k + 1 \in T
  PROVE  Max(T) = k + 1
<1>1. \A y \in T : k + 1 >= y OBVIOUS
<1>2. \A x \in T : (\A y \in T : x >= y) => x = k + 1
  <2> SUFFICES ASSUME NEW x \in T, \A y \in T : x >= y PROVE x = k + 1 OBVIOUS
  <2>1. x >= k + 1 /\ x \in 1..(k + 1) OBVIOUS
  <2> QED BY <2>1
<1> QED BY <1>1, <1>2 DEF Max

-----------------------------------------------------------------------------
(* Folds *)

\* A recursion over the subsets of 1..n that removes the largest element ...
Solves(f, n, A, base, step) ==
  /\ f \in [SUBSET (1..n) -> A]
  /\ \A T \in SUBSET (1..n) :
       f[T] = IF T = {} THEN base ELSE step[Max(T)][f[T \ {Max(T)}]]

\* ... has a solution.
LEMMA FoldExists ==
  ASSUME NEW n \in Nat, NEW A, NEW base \in A, NEW step \in [1..n -> [A -> A]]
  PROVE  \E f : Solves(f, n, A, base, step)
<1> DEFINE Good(k, f) == /\ f \in [SUBSET (1..k) -> A]
                         /\ \A T \in SUBSET (1..k) :
                              f[T] = IF T = {} THEN base ELSE step[Max(T)][f[T \ {Max(T)}]]
           P == {k \in 0..n : \E f : Good(k, f)}
<1>1. 0 \in P
  <2> DEFINE f == [T \in SUBSET (1..0) |-> base]
  <2>1. \A T \in SUBSET (1..0) : T = {} OBVIOUS
  <2>2. Good(0, f) BY <2>1
  <2>3. \E h : Good(0, h) BY <2>2
  <2> HIDE DEF Good
  <2> QED BY <2>3
<1>2. ASSUME NEW k \in 1..n, k - 1 \in P PROVE k \in P
  <2> DEFINE j == k - 1
  <2>0. j \in Nat /\ j + 1 = k /\ k \in Nat OBVIOUS
  <2>1. PICK f : Good(j, f) BY <1>2
  <2> DEFINE g == [T \in SUBSET (1..k) |-> IF k \in T THEN step[k][f[T \ {k}]] ELSE f[T]]
  <2>2. ASSUME NEW T \in SUBSET (1..k), k \in T
        PROVE  /\ T \ {k} \in SUBSET (1..j) /\ Max(T) = k /\ T # {}
    <3>1. 1..k = 1..(j + 1) BY <2>0
    <3>2. Max(T) = j + 1 BY <2>0, <2>2, <3>1, MaxOfPrefix
    <3>3. \A x \in 1..k : x # k => x \in 1..j BY <2>0
    <3> QED BY <2>0, <2>2, <3>2, <3>3
  <2>3. ASSUME NEW T \in SUBSET (1..k), k \notin T PROVE T \in SUBSET (1..j)
    <3>1. \A x \in 1..k : x # k => x \in 1..j BY <2>0
    <3> QED BY <2>3, <3>1
  <2> HIDE DEF j
  <2>4. g \in [SUBSET (1..k) -> A]
    <3>1. ASSUME NEW T \in SUBSET (1..k), k \in T PROVE step[k][f[T \ {k}]] \in A
      <4>1. f[T \ {k}] \in A BY <2>1, <2>2, <3>1
      <4> QED BY <4>1
    <3>2. ASSUME NEW T \in SUBSET (1..k), k \notin T PROVE f[T] \in A
      BY <2>1, <2>3, <3>2
    <3> QED BY <3>1, <3>2
  <2>5. ASSUME NEW T \in SUBSET (1..k)
        PROVE  g[T] = IF T = {} THEN base ELSE step[Max(T)][g[T \ {Max(T)}]]
    <3>1. CASE k \in T
      <4>1. T \ {k} \in SUBSET (1..k) /\ k \notin T \ {k} OBVIOUS
      <4>2. g[T \ {k}] = f[T \ {k}] BY <4>1
      <4>3. g[T] = step[k][f[T \ {k}]] BY <3>1
      <4> HIDE DEF g
      <4> QED BY <2>2, <3>1, <4>2, <4>3
    <3>2. CASE k \notin T
      <4>1. g[T] = f[T] /\ T \in SUBSET (1..j) BY <2>3, <3>2
      <4>2. \A x \in T : g[T \ {x}] = f[T \ {x}]
        BY <3>2
      <4>3. CASE T = {} BY <2>1, <4>1, <4>3
      <4>4. CASE T # {}
        <5>1. f[T] = step[Max(T)][f[T \ {Max(T)}]] BY <2>1, <4>1, <4>4
        <5>2. T \ {Max(T)} \in SUBSET (1..k) /\ k \notin T \ {Max(T)} BY <3>2
        <5>3. g[T \ {Max(T)}] = f[T \ {Max(T)}] BY <5>2
        <5> HIDE DEF g
        <5> QED BY <4>1, <4>4, <5>1, <5>3
      <4> QED BY <4>3, <4>4
    <3> QED BY <3>1, <3>2
  <2>6. Good(k, g)
    <3> HIDE DEF g
    <3> QED BY <2>4, <2>5
  <2>7. k \in 0..n OBVIOUS
  <2> HIDE DEF Good
  <2> QED BY <2>6, <2>7
<1>3. n \in P
  <2> HIDE DEF P
  <2>1. \A k \in 0..n : k \in P BY <1>1, <1>2, PrefixInduction
  <2> QED BY <2>1
<1>4. PICK f : Good(n, f) BY <1>3
<1> QED BY <1>4 DEF Solves

\* A fold is reached along the prefixes of its sequence.  `pre` is what it has
\* made of each; the lemmas below say so for the operators this code folds.
Along(pre, n, A, base) == pre \in [0..n -> A] /\ pre[0] = base
Follows(pre, n, A, base, step) ==
  Along(pre, n, A, base) /\ \A k \in 1..n : pre[k] = step[k][pre[k - 1]]

\* Enough to be given of the function a fold is defined by.
Unwinds(f, n, A, base, step) ==
  /\ f[{}] = base
  /\ \A T \in SUBSET (1..n) :
       T # {} /\ f[T \ {Max(T)}] \in A => f[T] = step[Max(T)][f[T \ {Max(T)}]]

LEMMA PrefixFacts ==
  ASSUME NEW n \in Nat, NEW k \in 1..n
  PROVE  /\ 1..k \in SUBSET (1..n) /\ 1..k # {} /\ Max(1..k) = k
         /\ (1..k) \ {k} = 1..(k - 1) /\ k - 1 \in 0..n /\ k \in 0..n
<1>1. 1..k \in SUBSET (1..n) /\ 1..k # {} /\ k - 1 \in Nat /\ k - 1 + 1 = k /\ k \in 1..k OBVIOUS
<1>2. Max(1..k) = k BY <1>1, MaxOfPrefix
<1>3. (1..k) \ {k} = 1..(k - 1) OBVIOUS
<1> QED BY <1>1, <1>2, <1>3

\* A set of numbers up to n has a largest one.
LEMMA MaxUpTo ==
  ASSUME NEW n \in Nat, NEW T \in SUBSET (0..n), T # {}
  PROVE  Max(T) \in T /\ \A y \in T : y <= Max(T)
<1> DEFINE D == {n - t : t \in T}
<1>1. D \subseteq Nat /\ D # {}
  <2>1. \A t \in T : n - t \in Nat OBVIOUS
  <2> QED BY <2>1
<1>2. PICK d \in D : \A e \in D : d <= e
  <2> HIDE DEF D
  <2> QED BY <1>1, LeastNatural
<1>3. PICK x \in T : d = n - x BY <1>2
<1>4. \A y \in T : x >= y
  <2> TAKE y \in T
  <2>1. n - y \in D OBVIOUS
  <2>2. d <= n - y BY <1>2, <2>1
  <2>3. x \in 0..n /\ y \in 0..n OBVIOUS
  <2> HIDE DEF D
  <2> QED BY <1>3, <2>2, <2>3
<1>5. Max(T) \in T /\ \A y \in T : Max(T) >= y BY <1>4 DEF Max
<1>6. \A y \in T : y \in Int OBVIOUS
<1> QED BY <1>5, <1>6

LEMMA MaxIsIn ==
  ASSUME NEW n \in Nat, NEW T \in SUBSET (1..n), T # {}
  PROVE  Max(T) \in T /\ \A y \in T : y <= Max(T)
<1>1. T \in SUBSET (0..n) OBVIOUS
<1> QED BY <1>1, MaxUpTo

LEMMA PrefixesOf ==
  ASSUME NEW n \in Nat, NEW A, NEW base \in A, NEW step \in [1..n -> [A -> A]], NEW f,
         Unwinds(f, n, A, base, step)
  PROVE  \E pre : Follows(pre, n, A, base, step) /\ f[1..n] = pre[n]
<1> DEFINE pre == [k \in 0..n |-> f[1..k]]
<1>1. /\ \A k \in 0..n : pre[k] = f[1..k]
      /\ \A k \in 1..n : k \in 0..n /\ k - 1 \in 0..n
      /\ 0 \in 0..n /\ n \in 0..n /\ DOMAIN pre = 0..n
      /\ pre = [k \in 0..n |-> pre[k]]
  OBVIOUS
<1> HIDE DEF pre
<1>2. pre[0] = base
  <2>1. 1..0 = {} OBVIOUS
  <2> QED BY <1>1, <2>1 DEF Unwinds
<1>3. \A k \in 1..n : pre[k - 1] \in A => pre[k] = step[k][pre[k - 1]]
  <2> TAKE k \in 1..n
  <2>1. /\ 1..k \in SUBSET (1..n) /\ 1..k # {} /\ Max(1..k) = k
        /\ (1..k) \ {k} = 1..(k - 1)
    BY PrefixFacts
  <2>2. f[1..(k - 1)] \in A => f[1..k] = step[k][f[1..(k - 1)]] BY <2>1 DEF Unwinds
  <2> QED BY <1>1, <2>2
<1>4. \A k \in 0..n : pre[k] \in A
  <2> DEFINE P == {k \in 0..n : pre[k] \in A}
  <2>1. 0 \in P BY <1>1, <1>2
  <2>2. ASSUME NEW k \in 1..n, k - 1 \in P PROVE k \in P
    <3>1. pre[k - 1] \in A /\ k \in 0..n BY <1>1, <2>2
    <3>2. step[k] \in [A -> A] OBVIOUS
    <3> QED BY <1>3, <3>1, <3>2
  <2>3. \A k \in 0..n : k \in P
    <3> HIDE DEF P
    <3> QED BY <2>1, <2>2, PrefixInduction
  <2> QED BY <2>3
<1>5. pre \in [0..n -> A] BY <1>1, <1>4
<1>6. Along(pre, n, A, base) BY <1>2, <1>5 DEF Along
<1>7. f[1..n] = pre[n] BY <1>1
<1>8. \A k \in 1..n : pre[k] = step[k][pre[k - 1]] BY <1>1, <1>3, <1>4
<1>9. Follows(pre, n, A, base, step) BY <1>6, <1>8 DEF Follows
<1> QED BY <1>7, <1>9

\* The folds of the operations, under a name each.
Inserted(free, runs) == FoldLeft(InsertRun, free, runs)
Scanned(acc, free) == FoldLeft(Absorb, acc, free)
Counted(zero, free) == FoldLeft(LAMBDA n, r : n + r.len, zero, free)
Extended(refs, none, pages) == FoldLeft(LAMBDA runs, p : Extend(refs, runs, p), none, pages)

\* The insertions of a release, one zeroed run after the other.
LEMMA InsertFold ==
  ASSUME NEW A, NEW free \in A, NEW S, NEW runs \in Seq(S),
         \A a \in A, i \in 1..Len(runs) : InsertRun(a, runs[i]) \in A
  PROVE  \E pre : /\ Along(pre, Len(runs), A, free)
                  /\ Inserted(free, runs) = pre[Len(runs)]
                  /\ \A k \in 1..Len(runs) :
                       pre[k] = InsertRun(pre[k - 1], runs[k])
<1> DEFINE n == Len(runs)
           step == [i \in 1..n |-> [a \in A |-> InsertRun(a, runs[i])]]
           Fix(f) == f = [T \in SUBSET (1..n) |->
                            IF T = {} THEN free
                            ELSE InsertRun(f[T \ {Max(T)}], runs[Max(T)])]
           iter == CHOOSE f : Fix(f)
<1>1. n \in Nat /\ DOMAIN runs = 1..n OBVIOUS
<1>2. step \in [1..n -> [A -> A]] /\ \A i \in 1..n, a \in A : step[i][a] = InsertRun(a, runs[i])
  OBVIOUS
<1>3. Inserted(free, runs) = iter[1..n]
  BY <1>1, Zenon DEF FoldLeft, MapThenFoldSet, Inserted
<1> HIDE DEF n, step
<1>4. PICK f : Solves(f, n, A, free, step) BY <1>1, <1>2, FoldExists
<1>5. /\ f \in [SUBSET (1..n) -> A]
      /\ \A T \in SUBSET (1..n) : f[T] = IF T = {} THEN free ELSE step[Max(T)][f[T \ {Max(T)}]]
  BY <1>4 DEF Solves
<1>6. \A T \in SUBSET (1..n) : T # {} => Max(T) \in 1..n /\ T \ {Max(T)} \in SUBSET (1..n)
  BY <1>1, MaxIsIn
<1>7. Fix(iter)
  <2>1. ASSUME NEW T \in SUBSET (1..n)
        PROVE  f[T] = IF T = {} THEN free ELSE InsertRun(f[T \ {Max(T)}], runs[Max(T)])
    <3>1. T # {} => f[T \ {Max(T)}] \in A BY <1>5, <1>6
    <3> QED BY <1>2, <1>5, <1>6, <3>1
  <2>2. Fix(f) BY <1>5, <2>1
  <2> QED BY <2>2
<1> HIDE DEF iter
<1>8. \A T \in SUBSET (1..n) :
        iter[T] = IF T = {} THEN free ELSE InsertRun(iter[T \ {Max(T)}], runs[Max(T)])
  BY <1>7
<1> HIDE DEF Fix
<1>9. iter[{}] = free BY <1>8
<1>10. Unwinds(iter, n, A, free, step)
  <2>1. ASSUME NEW T \in SUBSET (1..n), T # {}, iter[T \ {Max(T)}] \in A
        PROVE  iter[T] = step[Max(T)][iter[T \ {Max(T)}]]
    BY <1>2, <1>6, <1>8, <2>1
  <2> QED BY <1>9, <2>1 DEF Unwinds
<1>11. PICK pre : Follows(pre, n, A, free, step) /\ iter[1..n] = pre[n]
  BY <1>1, <1>2, <1>10, PrefixesOf
<1>12. /\ Along(pre, n, A, free) /\ iter[1..n] = pre[n]
       /\ \A k \in 1..n : pre[k] = step[k][pre[k - 1]]
  BY <1>11 DEF Follows
<1>13. \A k \in 1..n : pre[k] = InsertRun(pre[k - 1], runs[k])
  <2> TAKE k \in 1..n
  <2>1. pre[k - 1] \in A BY <1>1, <1>12, PrefixFacts DEF Along
  <2> QED BY <1>2, <1>12, <2>1
<1> QED BY <1>3, <1>12, <1>13 DEF n

\* The scan of one insertion over the free list.
LEMMA AbsorbFold ==
  ASSUME NEW A, NEW acc \in A, NEW S, NEW free \in Seq(S),
         \A a \in A, i \in 1..Len(free) : Absorb(a, free[i]) \in A
  PROVE  \E pre : /\ Along(pre, Len(free), A, acc)
                  /\ Scanned(acc, free) = pre[Len(free)]
                  /\ \A k \in 1..Len(free) :
                       pre[k] = Absorb(pre[k - 1], free[k])
<1> DEFINE n == Len(free)
           step == [i \in 1..n |-> [a \in A |-> Absorb(a, free[i])]]
           Fix(f) == f = [T \in SUBSET (1..n) |->
                            IF T = {} THEN acc
                            ELSE Absorb(f[T \ {Max(T)}], free[Max(T)])]
           iter == CHOOSE f : Fix(f)
<1>1. n \in Nat /\ DOMAIN free = 1..n OBVIOUS
<1>2. step \in [1..n -> [A -> A]] /\ \A i \in 1..n, a \in A : step[i][a] = Absorb(a, free[i])
  OBVIOUS
<1>3. Scanned(acc, free) = iter[1..n]
  BY <1>1, Zenon DEF FoldLeft, MapThenFoldSet, Scanned
<1> HIDE DEF n, step
<1>4. PICK f : Solves(f, n, A, acc, step) BY <1>1, <1>2, FoldExists
<1>5. /\ f \in [SUBSET (1..n) -> A]
      /\ \A T \in SUBSET (1..n) : f[T] = IF T = {} THEN acc ELSE step[Max(T)][f[T \ {Max(T)}]]
  BY <1>4 DEF Solves
<1>6. \A T \in SUBSET (1..n) : T # {} => Max(T) \in 1..n /\ T \ {Max(T)} \in SUBSET (1..n)
  BY <1>1, MaxIsIn
<1>7. Fix(iter)
  <2>1. ASSUME NEW T \in SUBSET (1..n)
        PROVE  f[T] = IF T = {} THEN acc ELSE Absorb(f[T \ {Max(T)}], free[Max(T)])
    <3>1. T # {} => f[T \ {Max(T)}] \in A BY <1>5, <1>6
    <3> QED BY <1>2, <1>5, <1>6, <3>1
  <2>2. Fix(f) BY <1>5, <2>1
  <2> QED BY <2>2
<1> HIDE DEF iter
<1>8. \A T \in SUBSET (1..n) :
        iter[T] = IF T = {} THEN acc ELSE Absorb(iter[T \ {Max(T)}], free[Max(T)])
  BY <1>7
<1> HIDE DEF Fix
<1>9. iter[{}] = acc BY <1>8
<1>10. Unwinds(iter, n, A, acc, step)
  <2>1. ASSUME NEW T \in SUBSET (1..n), T # {}, iter[T \ {Max(T)}] \in A
        PROVE  iter[T] = step[Max(T)][iter[T \ {Max(T)}]]
    BY <1>2, <1>6, <1>8, <2>1
  <2> QED BY <1>9, <2>1 DEF Unwinds
<1>11. PICK pre : Follows(pre, n, A, acc, step) /\ iter[1..n] = pre[n]
  BY <1>1, <1>2, <1>10, PrefixesOf
<1>12. /\ Along(pre, n, A, acc) /\ iter[1..n] = pre[n]
       /\ \A k \in 1..n : pre[k] = step[k][pre[k - 1]]
  BY <1>11 DEF Follows
<1>13. \A k \in 1..n : pre[k] = Absorb(pre[k - 1], free[k])
  <2> TAKE k \in 1..n
  <2>1. pre[k - 1] \in A BY <1>1, <1>12, PrefixFacts DEF Along
  <2> QED BY <1>2, <1>12, <2>1
<1> QED BY <1>3, <1>12, <1>13 DEF n

\* The count of the free pages, run by run.
CountsTo(pre, zero, free, A) ==
  /\ Along(pre, Len(free), A, zero)
  /\ Counted(zero, free) = pre[Len(free)]
  /\ \A k \in 1..Len(free) : pre[k] = pre[k - 1] + free[k].len

LEMMA CountFold ==
  ASSUME NEW A, NEW zero \in A, NEW S, NEW free \in Seq(S),
         \A a \in A, i \in 1..Len(free) : a + free[i].len \in A
  PROVE  \E pre : CountsTo(pre, zero, free, A)
<1> DEFINE n == Len(free)
           step == [i \in 1..n |-> [a \in A |-> a + free[i].len]]
           Fix(f) == f = [T \in SUBSET (1..n) |->
                            IF T = {} THEN zero
                            ELSE f[T \ {Max(T)}] + free[Max(T)].len]
           iter == CHOOSE f : Fix(f)
<1>1. n \in Nat /\ DOMAIN free = 1..n OBVIOUS
<1>2. step \in [1..n -> [A -> A]] /\ \A i \in 1..n, a \in A : step[i][a] = a + free[i].len
  OBVIOUS
<1>3. Counted(zero, free) = iter[1..n]
  BY <1>1, Zenon DEF FoldLeft, MapThenFoldSet, Counted
<1> HIDE DEF n, step
<1>4. PICK f : Solves(f, n, A, zero, step) BY <1>1, <1>2, FoldExists
<1>5. /\ f \in [SUBSET (1..n) -> A]
      /\ \A T \in SUBSET (1..n) : f[T] = IF T = {} THEN zero ELSE step[Max(T)][f[T \ {Max(T)}]]
  BY <1>4 DEF Solves
<1>6. \A T \in SUBSET (1..n) : T # {} => Max(T) \in 1..n /\ T \ {Max(T)} \in SUBSET (1..n)
  BY <1>1, MaxIsIn
<1>7. Fix(iter)
  <2>1. ASSUME NEW T \in SUBSET (1..n)
        PROVE  f[T] = IF T = {} THEN zero ELSE f[T \ {Max(T)}] + free[Max(T)].len
    <3>1. T # {} => f[T \ {Max(T)}] \in A BY <1>5, <1>6
    <3> QED BY <1>2, <1>5, <1>6, <3>1
  <2>2. Fix(f) BY <1>5, <2>1
  <2> QED BY <2>2
<1> HIDE DEF iter
<1>8. \A T \in SUBSET (1..n) :
        iter[T] = IF T = {} THEN zero ELSE iter[T \ {Max(T)}] + free[Max(T)].len
  BY <1>7
<1> HIDE DEF Fix
<1>9. iter[{}] = zero BY <1>8
<1>10. Unwinds(iter, n, A, zero, step)
  <2>1. ASSUME NEW T \in SUBSET (1..n), T # {}, iter[T \ {Max(T)}] \in A
        PROVE  iter[T] = step[Max(T)][iter[T \ {Max(T)}]]
    BY <1>2, <1>6, <1>8, <2>1
  <2> QED BY <1>9, <2>1 DEF Unwinds
<1>11. PICK pre : Follows(pre, n, A, zero, step) /\ iter[1..n] = pre[n]
  BY <1>1, <1>2, <1>10, PrefixesOf
<1>12. /\ Along(pre, n, A, zero) /\ iter[1..n] = pre[n]
       /\ \A k \in 1..n : pre[k] = step[k][pre[k - 1]]
  BY <1>11 DEF Follows
<1>13. \A k \in 1..n : pre[k] = pre[k - 1] + free[k].len
  <2> TAKE k \in 1..n
  <2>1. pre[k - 1] \in A BY <1>1, <1>12, PrefixFacts DEF Along
  <2> QED BY <1>2, <1>12, <2>1
<1> QED BY <1>3, <1>12, <1>13 DEF n, CountsTo

\* The scan of a dropped segment for the pages that reach zero.
ExtendsTo(pre, refs, none, pages, A) ==
  /\ Along(pre, Len(pages), A, none)
  /\ Extended(refs, none, pages) = pre[Len(pages)]
  /\ \A k \in 1..Len(pages) : pre[k] = Extend(refs, pre[k - 1], pages[k])

LEMMA ExtendFold ==
  ASSUME NEW A, NEW refs, NEW none \in A, NEW S, NEW pages \in Seq(S),
         \A a \in A, i \in 1..Len(pages) : Extend(refs, a, pages[i]) \in A
  PROVE  \E pre : ExtendsTo(pre, refs, none, pages, A)
<1> DEFINE n == Len(pages)
           step == [i \in 1..n |-> [a \in A |-> Extend(refs, a, pages[i])]]
           Fix(f) == f = [T \in SUBSET (1..n) |->
                            IF T = {} THEN none
                            ELSE Extend(refs, f[T \ {Max(T)}], pages[Max(T)])]
           iter == CHOOSE f : Fix(f)
<1>1. n \in Nat /\ DOMAIN pages = 1..n OBVIOUS
<1>2. step \in [1..n -> [A -> A]] /\ \A i \in 1..n, a \in A : step[i][a] = Extend(refs, a, pages[i])
  OBVIOUS
<1>3. Extended(refs, none, pages) = iter[1..n]
  BY <1>1, Zenon DEF FoldLeft, MapThenFoldSet, Extended
<1> HIDE DEF n, step
<1>4. PICK f : Solves(f, n, A, none, step) BY <1>1, <1>2, FoldExists
<1>5. /\ f \in [SUBSET (1..n) -> A]
      /\ \A T \in SUBSET (1..n) : f[T] = IF T = {} THEN none ELSE step[Max(T)][f[T \ {Max(T)}]]
  BY <1>4 DEF Solves
<1>6. \A T \in SUBSET (1..n) : T # {} => Max(T) \in 1..n /\ T \ {Max(T)} \in SUBSET (1..n)
  BY <1>1, MaxIsIn
<1>7. Fix(iter)
  <2>1. ASSUME NEW T \in SUBSET (1..n)
        PROVE  f[T] = IF T = {} THEN none ELSE Extend(refs, f[T \ {Max(T)}], pages[Max(T)])
    <3>1. T # {} => f[T \ {Max(T)}] \in A BY <1>5, <1>6
    <3> QED BY <1>2, <1>5, <1>6, <3>1
  <2>2. Fix(f) BY <1>5, <2>1
  <2> QED BY <2>2
<1> HIDE DEF iter
<1>8. \A T \in SUBSET (1..n) :
        iter[T] = IF T = {} THEN none ELSE Extend(refs, iter[T \ {Max(T)}], pages[Max(T)])
  BY <1>7
<1> HIDE DEF Fix
<1>9. iter[{}] = none BY <1>8
<1>10. Unwinds(iter, n, A, none, step)
  <2>1. ASSUME NEW T \in SUBSET (1..n), T # {}, iter[T \ {Max(T)}] \in A
        PROVE  iter[T] = step[Max(T)][iter[T \ {Max(T)}]]
    BY <1>2, <1>6, <1>8, <2>1
  <2> QED BY <1>9, <2>1 DEF Unwinds
<1>11. PICK pre : Follows(pre, n, A, none, step) /\ iter[1..n] = pre[n]
  BY <1>1, <1>2, <1>10, PrefixesOf
<1>12. /\ Along(pre, n, A, none) /\ iter[1..n] = pre[n]
       /\ \A k \in 1..n : pre[k] = step[k][pre[k - 1]]
  BY <1>11 DEF Follows
<1>13. \A k \in 1..n : pre[k] = Extend(refs, pre[k - 1], pages[k])
  <2> TAKE k \in 1..n
  <2>1. pre[k - 1] \in A BY <1>1, <1>12, PrefixFacts DEF Along
  <2> QED BY <1>2, <1>12, <2>1
<1> QED BY <1>3, <1>12, <1>13 DEF n, ExtendsTo

-----------------------------------------------------------------------------
(* Lists of runs *)

Run == [base : Nat, len : Nat \ {0}]

\* A page lies between the two; and the weaker, they share no page.
Apart(r, s) == SegEnd(r) < s.base \/ SegEnd(s) < r.base
Disjoint(r, s) == SegEnd(r) <= s.base \/ SegEnd(s) <= r.base

AllApart(runs) == \A i, j \in 1..Len(runs) : i # j => Apart(runs[i], runs[j])
Covered(runs) == UNION {SegPages(runs[i]) : i \in 1..Len(runs)}

\* The runs are the maximal stretches of the set of pages S.
Stretches(runs, S) == runs \in Seq(Run) /\ AllApart(runs) /\ Covered(runs) = S

LEMMA RunFacts ==
  ASSUME NEW r \in Run
  PROVE  /\ r.base \in Nat /\ r.len \in Nat /\ r.len > 0 /\ SegEnd(r) \in Nat
         /\ SegEnd(r) = r.base + r.len /\ r.base < SegEnd(r)
         /\ \A p : p \in SegPages(r) <=> p \in Nat /\ r.base <= p /\ p < SegEnd(r)
         /\ r.base \in SegPages(r)
<1>1. r.base \in Nat /\ r.len \in Nat /\ r.len > 0 BY DEF Run
<1> QED BY <1>1 DEF SegEnd, SegPages

LEMMA SegIsRun ==
  ASSUME NEW b \in Nat, NEW n \in Nat, n > 0
  PROVE  Seg(b, n) \in Run /\ Seg(b, n).base = b /\ Seg(b, n).len = n /\ SegEnd(Seg(b, n)) = b + n
BY DEF Seg, Run, SegEnd

LEMMA CoveredBy ==
  ASSUME NEW runs, NEW p
  PROVE  p \in Covered(runs) <=> \E i \in 1..Len(runs) : p \in SegPages(runs[i])
BY DEF Covered

LEMMA ApartIsDisjoint ==
  ASSUME NEW r \in Run, NEW s \in Run, Apart(r, s)
  PROVE  Disjoint(r, s) /\ Apart(s, r) /\ Disjoint(s, r)
BY RunFacts DEF Apart, Disjoint

\* Intervals without a common page lie one after the other.
LEMMA NoCommonPage ==
  ASSUME NEW r \in Run, NEW s \in Run
  PROVE  Disjoint(r, s) <=> SegPages(r) \intersect SegPages(s) = {}
<1> DEFINE rb == r.base  sb == s.base  re == SegEnd(r)  se == SegEnd(s)
<1>1. /\ rb \in Nat /\ re \in Nat /\ rb < re /\ sb \in Nat /\ se \in Nat /\ sb < se
      /\ \A p : p \in SegPages(r) <=> p \in Nat /\ rb <= p /\ p < re
      /\ \A p : p \in SegPages(s) <=> p \in Nat /\ sb <= p /\ p < se
  BY RunFacts
<1>2. Disjoint(r, s) <=> re <= sb \/ se <= rb BY DEF Disjoint
<1> HIDE DEF rb, sb, re, se
<1>3. ASSUME re <= sb \/ se <= rb PROVE SegPages(r) \intersect SegPages(s) = {}
  <2> SUFFICES ASSUME NEW p \in SegPages(r), p \in SegPages(s) PROVE FALSE OBVIOUS
  <2>1. p \in Nat /\ rb <= p /\ p < re /\ sb <= p /\ p < se BY <1>1
  <2> QED BY <1>1, <1>3, <2>1
<1>4. ASSUME SegPages(r) \intersect SegPages(s) = {} PROVE re <= sb \/ se <= rb
  <2>1. rb \in SegPages(r) /\ sb \in SegPages(s) BY <1>1
  <2>2. rb \notin SegPages(s) /\ sb \notin SegPages(r) BY <1>4, <2>1
  <2> QED BY <1>1, <2>2
<1> QED BY <1>2, <1>3, <1>4

\* Two adjacent runs are one.
LEMMA Joined ==
  ASSUME NEW r \in Run, NEW s \in Run, SegEnd(r) = s.base
  PROVE  /\ Seg(r.base, r.len + s.len) \in Run
         /\ Seg(r.base, r.len + s.len).base = r.base
         /\ SegEnd(Seg(r.base, r.len + s.len)) = SegEnd(s)
         /\ SegPages(Seg(r.base, r.len + s.len)) = SegPages(r) \union SegPages(s)
<1> DEFINE t == Seg(r.base, r.len + s.len)
<1>1. /\ r.base \in Nat /\ r.len \in Nat /\ r.len > 0 /\ SegEnd(r) = r.base + r.len
      /\ s.base \in Nat /\ s.len \in Nat /\ s.len > 0 /\ SegEnd(s) = s.base + s.len
      /\ SegEnd(r) \in Nat /\ SegEnd(s) \in Nat /\ r.base < SegEnd(r) /\ s.base < SegEnd(s)
      /\ SegEnd(r) = s.base
  BY RunFacts
<1>2. r.len + s.len \in Nat /\ r.len + s.len > 0 BY <1>1
<1>3. t \in Run /\ t.base = r.base /\ SegEnd(t) = r.base + (r.len + s.len) BY <1>1, <1>2, SegIsRun
<1> HIDE DEF t
<1>4. SegEnd(t) = SegEnd(s)
  <2>1. r.base + (r.len + s.len) = (r.base + r.len) + s.len BY <1>1
  <2>2. (r.base + r.len) + s.len = s.base + s.len BY <1>1
  <2> QED BY <1>1, <1>3, <2>1, <2>2
<1>5. \A p : p \in SegPages(t) <=> p \in SegPages(r) \/ p \in SegPages(s)
  <2> TAKE p
  <2>1. p \in SegPages(t) <=> p \in Nat /\ r.base <= p /\ p < SegEnd(s) BY <1>3, <1>4, RunFacts
  <2>2. p \in SegPages(r) <=> p \in Nat /\ r.base <= p /\ p < SegEnd(r) BY RunFacts
  <2>3. p \in SegPages(s) <=> p \in Nat /\ s.base <= p /\ p < SegEnd(s) BY RunFacts
  <2> QED BY <1>1, <2>1, <2>2, <2>3
<1> QED BY <1>3, <1>4, <1>5 DEF t

-----------------------------------------------------------------------------
(* insert_run *)

\* The state of the scan after k of the free runs: those kept lie apart from
\* each other, from the growing run and from the runs ahead, the growing run
\* shares no page with the runs ahead, and no page is lost or gained.
Accs == [run : Run, kept : Seq(Run)]
Scanning(acc, free, run, k) ==
  /\ acc \in Accs
  /\ AllApart(acc.kept)
  /\ \A i \in 1..Len(acc.kept) : Apart(acc.kept[i], acc.run)
  /\ \A j \in (k + 1)..Len(free) :
       /\ Disjoint(acc.run, free[j])
       /\ \A i \in 1..Len(acc.kept) : Apart(acc.kept[i], free[j])
  /\ SegPages(acc.run) \union Covered(acc.kept)
       = SegPages(run) \union UNION {SegPages(free[j]) : j \in 1..k}

LEMMA AbsorbType ==
  ASSUME NEW acc \in Accs, NEW o \in Run
  PROVE  Absorb(acc, o) \in Accs
<1>1. acc.run \in Run /\ acc.kept \in Seq(Run) /\ acc = [run |-> acc.run, kept |-> acc.kept] BY DEF Accs
<1>2. \A r \in Run : [acc EXCEPT !.run = r] \in Accs BY <1>1 DEF Accs
<1>3. \A ks \in Seq(Run) : [acc EXCEPT !.kept = ks] \in Accs BY <1>1 DEF Accs
<1>4. acc.run.len \in Nat /\ o.len \in Nat /\ acc.run.base \in Nat /\ o.base \in Nat
      /\ acc.run.len + o.len \in Nat /\ acc.run.len + o.len > 0
  BY <1>1, RunFacts
<1>5. Seg(o.base, acc.run.len + o.len) \in Run /\ Seg(acc.run.base, acc.run.len + o.len) \in Run
  BY <1>4, SegIsRun
<1>6. Append(acc.kept, o) \in Seq(Run) BY <1>1
<1> QED BY <1>2, <1>3, <1>5, <1>6 DEF Absorb

\* A run apart from two adjacent ones is apart from the two made one.
LEMMA ApartFromJoined ==
  ASSUME NEW r \in Run, NEW s \in Run, NEW u \in Run, NEW t \in Run,
         SegEnd(r) = s.base, t.base = r.base, SegEnd(t) = SegEnd(s)
  PROVE  /\ (Apart(u, r) /\ Apart(u, s) => Apart(u, t))
         /\ (Disjoint(r, u) /\ Disjoint(s, u) => Disjoint(t, u))
<1>1. /\ r.base \in Nat /\ SegEnd(r) \in Nat /\ r.base < SegEnd(r)
      /\ s.base \in Nat /\ SegEnd(s) \in Nat /\ s.base < SegEnd(s)
      /\ u.base \in Nat /\ SegEnd(u) \in Nat /\ u.base < SegEnd(u)
  BY RunFacts
<1> QED BY <1>1 DEF Apart, Disjoint

LEMMA PagesUpTo ==
  ASSUME NEW free \in Seq(Run), NEW k \in 1..Len(free)
  PROVE  UNION {SegPages(free[j]) : j \in 1..k}
           = (UNION {SegPages(free[j]) : j \in 1..(k - 1)}) \union SegPages(free[k])
<1>1. \A j : j \in 1..k <=> j \in 1..(k - 1) \/ j = k OBVIOUS
<1> QED BY <1>1

LEMMA AbsorbStep ==
  ASSUME NEW free \in Seq(Run), AllApart(free), NEW run, NEW k \in 1..Len(free), NEW acc,
         Scanning(acc, free, run, k - 1)
  PROVE  Scanning(Absorb(acc, free[k]), free, run, k)
<1> DEFINE o == free[k]
           ks == acc.kept
           r  == acc.run
<1>1. /\ o \in Run /\ acc \in Accs /\ r \in Run /\ ks \in Seq(Run) /\ Len(ks) \in Nat
      /\ \A i \in 1..Len(ks) : ks[i] \in Run
      /\ \A j \in 1..Len(free) : free[j] \in Run
      /\ acc = [run |-> r, kept |-> ks]
  BY DEF Scanning, Accs
<1>2. k \in (k - 1 + 1)..Len(free) /\ \A j \in (k + 1)..Len(free) : j \in (k - 1 + 1)..Len(free) /\ j # k
      /\ j \in 1..Len(free)
  OBVIOUS
<1>3. /\ \A i \in 1..Len(ks) : Apart(ks[i], r) /\ Apart(ks[i], o)
      /\ Disjoint(r, o)
      /\ \A j \in (k + 1)..Len(free) :
           /\ Disjoint(r, free[j]) /\ Apart(o, free[j]) /\ Disjoint(o, free[j])
           /\ \A i \in 1..Len(ks) : Apart(ks[i], free[j])
  <2>1. \A j \in (k + 1)..Len(free) : Apart(o, free[j]) BY <1>2 DEF AllApart
  <2>2. \A j \in (k + 1)..Len(free) : Disjoint(o, free[j]) BY <1>1, <1>2, <2>1, ApartIsDisjoint
  <2> QED BY <1>2, <2>1, <2>2 DEF Scanning
<1>4. SegPages(r) \union Covered(ks) \union SegPages(o)
        = SegPages(run) \union UNION {SegPages(free[j]) : j \in 1..k}
  BY PagesUpTo DEF Scanning
<1>5. AllApart(ks) BY DEF Scanning
<1>6. Absorb(acc, o) \in Accs BY <1>1, AbsorbType
<1>7. ASSUME NEW t \in Run, Absorb(acc, o) = [acc EXCEPT !.run = t],
             \A u \in Run : Apart(u, r) /\ Apart(u, o) => Apart(u, t),
             \A u \in Run : Disjoint(r, u) /\ Disjoint(o, u) => Disjoint(t, u),
             SegPages(t) = SegPages(r) \union SegPages(o)
      PROVE  Scanning(Absorb(acc, o), free, run, k)
  <2>1. Absorb(acc, o).run = t /\ Absorb(acc, o).kept = ks BY <1>1, <1>7
  <2>2. \A i \in 1..Len(ks) : Apart(ks[i], t) BY <1>1, <1>3, <1>7
  <2>3. \A j \in (k + 1)..Len(free) : Disjoint(t, free[j]) BY <1>1, <1>2, <1>3, <1>7
  <2>4. SegPages(t) \union Covered(ks) = SegPages(run) \union UNION {SegPages(free[j]) : j \in 1..k}
    BY <1>4, <1>7
  <2> HIDE DEF o, ks, r
  <2> QED BY <1>3, <1>5, <1>6, <2>1, <2>2, <2>3, <2>4 DEF Scanning
<1>8. CASE SegEnd(o) = r.base
  <2> DEFINE t == Seg(o.base, r.len + o.len)
  <2>1. t = Seg(o.base, o.len + r.len) BY <1>1, RunFacts
  <2>2. t \in Run /\ t.base = o.base /\ SegEnd(t) = SegEnd(r) /\ SegPages(t) = SegPages(r) \union SegPages(o)
    BY <1>1, <1>8, <2>1, Joined
  <2>3. Absorb(acc, o) = [acc EXCEPT !.run = t] BY <1>8 DEF Absorb
  <2> HIDE DEF t, o, r
  <2>4. \A u \in Run : /\ (Apart(u, r) /\ Apart(u, o) => Apart(u, t))
                       /\ (Disjoint(r, u) /\ Disjoint(o, u) => Disjoint(t, u))
    BY <1>1, <1>8, <2>2, ApartFromJoined
  <2> QED BY <1>7, <2>2, <2>3, <2>4 DEF o
<1>9. CASE SegEnd(o) # r.base /\ SegEnd(r) = o.base
  <2> DEFINE t == Seg(r.base, r.len + o.len)
  <2>2. t \in Run /\ t.base = r.base /\ SegEnd(t) = SegEnd(o) /\ SegPages(t) = SegPages(r) \union SegPages(o)
    BY <1>1, <1>9, Joined
  <2>3. Absorb(acc, o) = [acc EXCEPT !.run = t] BY <1>9 DEF Absorb
  <2> HIDE DEF t, o, r
  <2>4. \A u \in Run : /\ (Apart(u, r) /\ Apart(u, o) => Apart(u, t))
                       /\ (Disjoint(r, u) /\ Disjoint(o, u) => Disjoint(t, u))
    BY <1>1, <1>9, <2>2, ApartFromJoined
  <2> QED BY <1>7, <2>2, <2>3, <2>4 DEF o
<1>10. CASE SegEnd(o) # r.base /\ SegEnd(r) # o.base
  <2> DEFINE new == Append(ks, o)
  <2>1. Absorb(acc, o) = [acc EXCEPT !.kept = new] BY <1>10 DEF Absorb
  <2>2. Absorb(acc, o).run = r /\ Absorb(acc, o).kept = new BY <1>1, <2>1
  <2>3. Apart(o, r)
    <3>1. SegEnd(o) \in Nat /\ SegEnd(r) \in Nat /\ o.base \in Nat /\ r.base \in Nat BY <1>1, RunFacts
    <3>2. SegEnd(r) <= o.base \/ SegEnd(o) <= r.base BY <1>3 DEF Disjoint
    <3> HIDE DEF o, r
    <3> QED BY <1>10, <3>1, <3>2 DEF Apart
  <2>4. Len(new) = Len(ks) + 1 /\ (\A i \in 1..Len(ks) : new[i] = ks[i]) /\ new[Len(ks) + 1] = o
    <3> HIDE DEF o, ks
    <3> QED BY <1>1
  <2>5. \A i : i \in 1..Len(new) <=> i \in 1..Len(ks) \/ i = Len(ks) + 1
    <3> HIDE DEF new, ks
    <3> QED BY <1>1, <2>4
  <2> HIDE DEF new
  <2>6. \A i \in 1..Len(new) : (i \in 1..Len(ks) /\ new[i] = ks[i]) \/ (i = Len(ks) + 1 /\ new[i] = o)
    BY <2>4, <2>5
  <2>7. \A i \in 1..Len(ks) : Apart(o, ks[i]) BY <1>1, <1>3, ApartIsDisjoint
  <2> HIDE DEF o, ks, r
  <2>8. AllApart(new)
    <3>1. SUFFICES ASSUME NEW i \in 1..Len(new), NEW j \in 1..Len(new), i # j
                   PROVE  Apart(new[i], new[j])
      BY DEF AllApart
    <3>2. CASE i \in 1..Len(ks) /\ j \in 1..Len(ks)
      <4>1. Apart(ks[i], ks[j]) BY <1>5, <3>1, <3>2 DEF AllApart
      <4> QED BY <2>4, <3>2, <4>1
    <3>3. CASE i = Len(ks) + 1 /\ j \in 1..Len(ks) BY <2>4, <2>7, <3>3
    <3>4. CASE i \in 1..Len(ks) /\ j = Len(ks) + 1 BY <1>3, <2>4, <3>4
    <3> QED BY <2>6, <3>1, <3>2, <3>3, <3>4
  <2>9. \A i \in 1..Len(new) : Apart(new[i], r) BY <1>3, <2>3, <2>6
  <2>10. \A j \in (k + 1)..Len(free) :
           Disjoint(r, free[j]) /\ \A i \in 1..Len(new) : Apart(new[i], free[j])
    BY <1>3, <2>6
  <2>11. Covered(new) = Covered(ks) \union SegPages(o)
    <3>1. \A p : p \in Covered(new) <=> p \in Covered(ks) \/ p \in SegPages(o)
      <4> TAKE p
      <4>1. p \in Covered(new) <=> \E i \in 1..Len(new) : p \in SegPages(new[i]) BY CoveredBy
      <4>2. p \in Covered(ks) <=> \E i \in 1..Len(ks) : p \in SegPages(ks[i]) BY CoveredBy
      <4>3. (\E i \in 1..Len(new) : p \in SegPages(new[i]))
              <=> (\E i \in 1..Len(ks) : p \in SegPages(ks[i])) \/ p \in SegPages(o)
        BY <2>4, <2>5
      <4> QED BY <4>1, <4>2, <4>3
    <3> QED BY <3>1
  <2>12. SegPages(r) \union Covered(new) = SegPages(run) \union UNION {SegPages(free[j]) : j \in 1..k}
    BY <1>4, <2>11
  <2> QED BY <1>6, <2>2, <2>8, <2>9, <2>10, <2>12 DEF Scanning, o
<1> QED BY <1>8, <1>9, <1>10

LEMMA InsertType ==
  ASSUME NEW free \in Seq(Run), NEW run \in Run
  PROVE  InsertRun(free, run) \in Seq(Run)
<1> DEFINE start == [run |-> run, kept |-> <<>>]
<1>1. start \in Accs /\ Len(free) \in Nat /\ \A i \in 1..Len(free) : free[i] \in Run BY DEF Accs
<1>2. \A a \in Accs, i \in 1..Len(free) : Absorb(a, free[i]) \in Accs BY <1>1, AbsorbType
<1> HIDE DEF start
<1>3. PICK pre : /\ Along(pre, Len(free), Accs, start)
                 /\ Scanned(start, free) = pre[Len(free)]
  BY <1>1, <1>2, AbsorbFold
<1>4. Scanned(start, free) \in Accs BY <1>1, <1>3 DEF Along
<1>5. \A a \in Accs : <<a.run>> \o a.kept \in Seq(Run) BY DEF Accs
<1> QED BY <1>4, <1>5 DEF InsertRun, Scanned, start

\* A run apart from all the others can be put at the front of the list.
LEMMA PrependKeeps ==
  ASSUME NEW rest, NEW S, Stretches(rest, S), NEW t \in Run,
         \A i \in 1..Len(rest) : Apart(rest[i], t)
  PROVE  Stretches(<<t>> \o rest, S \union SegPages(t))
<1> DEFINE new == <<t>> \o rest
<1>10. /\ rest \in Seq(Run) /\ Len(rest) \in Nat /\ AllApart(rest) /\ Covered(rest) = S
       /\ \A i \in 1..Len(rest) : rest[i] \in Run
  BY DEF Stretches
<1>11. /\ new \in Seq(Run) /\ Len(new) = Len(rest) + 1 /\ new[1] = t
       /\ \A i \in 1..Len(rest) : new[i + 1] = rest[i]
  BY <1>10
<1> HIDE DEF new
<1>12. \A i : i \in 1..Len(new) <=> i = 1 \/ (i \in 2..(Len(rest) + 1))
  BY <1>10, <1>11
<1>13. \A i \in 1..Len(new) : i # 1 => /\ i - 1 \in 1..Len(rest) /\ new[i] = rest[i - 1]
  <2> SUFFICES ASSUME NEW i \in 1..Len(new), i # 1
               PROVE  /\ i - 1 \in 1..Len(rest) /\ new[i] = rest[i - 1]
    OBVIOUS
  <2>1. i - 1 \in 1..Len(rest) /\ (i - 1) + 1 = i BY <1>10, <1>11
  <2> QED BY <1>11, <2>1
<1>14. AllApart(new)
  <2>1. SUFFICES ASSUME NEW i \in 1..Len(new), NEW j \in 1..Len(new), i # j
                 PROVE  Apart(new[i], new[j])
    BY DEF AllApart
  <2>2. CASE i = 1
    <3>1. Apart(rest[j - 1], t) /\ rest[j - 1] \in Run /\ new[j] = rest[j - 1]
      BY <1>10, <1>13, <2>1, <2>2
    <3> QED BY <1>10, <1>11, <2>2, <3>1, ApartIsDisjoint
  <2>3. CASE j = 1 BY <1>10, <1>11, <1>13, <2>1, <2>3
  <2>4. CASE i # 1 /\ j # 1
    <3>1. /\ i - 1 \in 1..Len(rest) /\ j - 1 \in 1..Len(rest) /\ i - 1 # j - 1
          /\ new[i] = rest[i - 1] /\ new[j] = rest[j - 1]
      BY <1>13, <2>1, <2>4
    <3> QED BY <1>10, <3>1 DEF AllApart
  <2> QED BY <2>2, <2>3, <2>4
<1>15. Covered(new) = SegPages(t) \union Covered(rest)
  <2>1. \A p : p \in Covered(new) <=> p \in SegPages(t) \/ p \in Covered(rest)
    <3> TAKE p
    <3>1. (\E i \in 1..Len(new) : p \in SegPages(new[i]))
            <=> p \in SegPages(t) \/ \E i \in 1..Len(rest) : p \in SegPages(rest[i])
      <4>1. ASSUME NEW i \in 1..Len(rest) PROVE i + 1 \in 1..Len(new) /\ new[i + 1] = rest[i]
        BY <1>10, <1>11
      <4>2. 1 \in 1..Len(new) BY <1>12
      <4> QED BY <1>11, <1>13, <4>1, <4>2
    <3> QED BY <3>1, CoveredBy
  <2> QED BY <2>1
<1> QED BY <1>10, <1>11, <1>14, <1>15 DEF Stretches, new

\* Inserting a run that shares no page with the free ones keeps the list exact:
\* it covers the run's pages besides, and its runs lie apart (coalescing).
LEMMA InsertKeeps ==
  ASSUME NEW free, NEW S, Stretches(free, S), NEW run \in Run,
         SegPages(run) \intersect S = {}
  PROVE  Stretches(InsertRun(free, run), S \union SegPages(run))
<1> DEFINE start == [run |-> run, kept |-> <<>>]
           n == Len(free)
<1>1. /\ free \in Seq(Run) /\ AllApart(free) /\ Covered(free) = S /\ n \in Nat
      /\ \A i \in 1..n : free[i] \in Run
  BY DEF Stretches
<1>2. start \in Accs BY DEF Accs
<1>3. \A a \in Accs, i \in 1..Len(free) : Absorb(a, free[i]) \in Accs BY <1>1, AbsorbType
<1>4. \A j \in 1..n : Disjoint(run, free[j])
  <2> TAKE j \in 1..n
  <2>1. SegPages(free[j]) \subseteq S BY <1>1, CoveredBy
  <2> QED BY <1>1, <2>1, NoCommonPage
<1>5. Scanning(start, free, run, 0)
  <2>1. start.run = run /\ start.kept = <<>> /\ Len(<<>>) = 0 OBVIOUS
  <2>2. AllApart(<<>>) /\ Covered(<<>>) = {} BY DEF AllApart, Covered
  <2>3. UNION {SegPages(free[j]) : j \in 1..0} = {} OBVIOUS
  <2>4. \A j \in (0 + 1)..Len(free) : j \in 1..n OBVIOUS
  <2> HIDE DEF start, n
  <2> QED BY <1>2, <1>4, <2>1, <2>2, <2>3, <2>4 DEF Scanning
<1> HIDE DEF start
<1>6. PICK pre : /\ Along(pre, Len(free), Accs, start)
                 /\ Scanned(start, free) = pre[Len(free)]
                 /\ \A k \in 1..Len(free) : pre[k] = Absorb(pre[k - 1], free[k])
  BY <1>1, <1>2, <1>3, AbsorbFold
<1>7. \A k \in 0..n : Scanning(pre[k], free, run, k)
  <2> DEFINE P == {k \in 0..n : Scanning(pre[k], free, run, k)}
  <2>1. 0 \in P BY <1>1, <1>5, <1>6 DEF Along
  <2>2. ASSUME NEW k \in 1..n, k - 1 \in P PROVE k \in P
    <3>1. Scanning(Absorb(pre[k - 1], free[k]), free, run, k) BY <1>1, <2>2, AbsorbStep
    <3> QED BY <1>6, <3>1
  <2>3. \A k \in 0..n : k \in P
    <3> HIDE DEF P
    <3> QED BY <1>1, <2>1, <2>2, PrefixInduction
  <2> QED BY <2>3
<1>8. PICK done : /\ done = Scanned(start, free) /\ Scanning(done, free, run, n)
  BY <1>1, <1>6, <1>7
<1> DEFINE new == <<done.run>> \o done.kept
<1>9. InsertRun(free, run) = new BY <1>8 DEF InsertRun, Scanned, start
<1>10. /\ done.run \in Run /\ done.kept \in Seq(Run) /\ Len(done.kept) \in Nat
       /\ AllApart(done.kept)
       /\ \A i \in 1..Len(done.kept) : Apart(done.kept[i], done.run) /\ done.kept[i] \in Run
       /\ SegPages(done.run) \union Covered(done.kept)
            = SegPages(run) \union UNION {SegPages(free[j]) : j \in 1..n}
  BY <1>8 DEF Scanning, Accs
<1>11. Stretches(done.kept, Covered(done.kept)) BY <1>10 DEF Stretches
<1>12. Stretches(new, Covered(done.kept) \union SegPages(done.run)) BY <1>10, <1>11, PrependKeeps
<1>13. UNION {SegPages(free[j]) : j \in 1..n} = S BY <1>1 DEF Covered
<1>14. Covered(done.kept) \union SegPages(done.run) = S \union SegPages(run) BY <1>10, <1>13
<1> HIDE DEF new, n
<1> QED BY <1>9, <1>12, <1>14

-----------------------------------------------------------------------------
(* drop_refs *)

\* The runs found in the first k pages from b on, in ascending order with a
\* page between any two.
Found(runs, refs, b, k) ==
  /\ runs \in Seq(Run)
  /\ \A i, j \in 1..Len(runs) : i < j => SegEnd(runs[i]) < runs[j].base
  /\ \A i \in 1..Len(runs) : SegEnd(runs[i]) <= b + k
  /\ Covered(runs) = {p \in b..(b + k - 1) : refs[p] = 1}

LEMMA ExtendType ==
  ASSUME NEW refs, NEW runs \in Seq(Run), NEW p \in Nat
  PROVE  Extend(refs, runs, p) \in Seq(Run)
<1>1. Seg(p, 1) \in Run BY SegIsRun
<1>2. CASE refs[p] = 1 /\ runs # <<>> /\ SegEnd(Last(runs)) = p
  <2>1. Len(runs) \in 1..Len(runs) /\ Last(runs) = runs[Len(runs)] BY <1>2 DEF Last
  <2>2. Last(runs) \in Run BY <2>1
  <2>3. Last(runs).base \in Nat /\ Last(runs).len + 1 \in Nat /\ Last(runs).len + 1 > 0
    BY <2>2, RunFacts
  <2>4. Seg(Last(runs).base, Last(runs).len + 1) \in Run BY <2>3, SegIsRun
  <2>5. \A r \in Run : [runs EXCEPT ![Len(runs)] = r] \in Seq(Run) BY <2>1
  <2> QED BY <1>2, <2>4, <2>5 DEF Extend
<1> QED BY <1>1, <1>2 DEF Extend

LEMMA ExtendStep ==
  ASSUME NEW refs, NEW b \in Nat, NEW k \in Nat, k > 0, NEW runs,
         Found(runs, refs, b, k - 1)
  PROVE  Found(Extend(refs, runs, b + k - 1), refs, b, k)
<1> DEFINE p == b + k - 1
           n == Len(runs)
           new == Extend(refs, runs, p)
<1>1. /\ p \in Nat /\ p = b + (k - 1) /\ b + k = p + 1 /\ runs \in Seq(Run) /\ n \in Nat
      /\ \A i \in 1..n : runs[i] \in Run /\ SegEnd(runs[i]) \in Nat /\ runs[i].base \in Nat
                         /\ runs[i].base < SegEnd(runs[i])
  BY RunFacts DEF Found
<1>2. /\ \A i, j \in 1..n : i < j => SegEnd(runs[i]) < runs[j].base
      /\ \A i \in 1..n : SegEnd(runs[i]) <= p
  BY <1>1 DEF Found
<1>3. Covered(runs) = {q \in b..(p - 1) : refs[q] = 1} BY <1>1 DEF Found
<1>4. \A q : q \in b..p <=> q \in b..(p - 1) \/ q = p
  <2>1. b <= p BY <1>1
  <2> HIDE DEF p
  <2> QED BY <1>1, <2>1
<1>5. new \in Seq(Run) BY <1>1, ExtendType
<1>6. Seg(p, 1) \in Run /\ SegPages(Seg(p, 1)) = {p} /\ Seg(p, 1).base = p /\ SegEnd(Seg(p, 1)) = p + 1
  <2>1. Seg(p, 1) \in Run /\ Seg(p, 1).base = p /\ SegEnd(Seg(p, 1)) = p + 1
    <3>1. 1 \in Nat /\ 1 > 0 OBVIOUS
    <3> HIDE DEF p
    <3> QED BY <1>1, <3>1, SegIsRun
  <2> HIDE DEF p
  <2>2. \A q : q \in SegPages(Seg(p, 1)) <=> q = p BY <1>1, <2>1, RunFacts
  <2> QED BY <2>1, <2>2
<1>7. ASSUME \A i, j \in 1..Len(new) : i < j => SegEnd(new[i]) < new[j].base,
             \A i \in 1..Len(new) : SegEnd(new[i]) <= p + 1,
             Covered(new) = {q \in b..p : refs[q] = 1}
      PROVE  Found(new, refs, b, k)
  <2> HIDE DEF p, new
  <2>1. b + k - 1 = p BY DEF p
  <2> QED BY <1>1, <1>5, <1>7, <2>1 DEF Found
<1>8. CASE refs[p] # 1
  <2>1. new = runs BY <1>8 DEF Extend
  <2> HIDE DEF new, p
  <2>2. Covered(new) = {q \in b..p : refs[q] = 1} BY <1>3, <1>4, <1>8, <2>1
  <2>3. \A i \in 1..Len(new) : SegEnd(new[i]) <= p + 1 BY <1>1, <1>2, <2>1
  <2> QED BY <1>2, <1>7, <2>1, <2>2, <2>3 DEF new, p
<1>9. CASE refs[p] = 1 /\ runs # <<>> /\ SegEnd(Last(runs)) = p
  <2> DEFINE last == runs[n]
             t == Seg(last.base, last.len + 1)
  <2>1. n \in 1..n /\ Last(runs) = last BY <1>1, <1>9 DEF Last
  <2>2. last \in Run /\ SegEnd(last) = p BY <1>1, <1>9, <2>1
  <2>3. new = [runs EXCEPT ![n] = t] BY <1>9, <2>1 DEF Extend
  <2>4. Seg(p, 1).len = 1 BY DEF Seg
  <2>5. t \in Run /\ t.base = last.base /\ SegEnd(t) = p + 1 /\ SegPages(t) = SegPages(last) \union {p}
    <3> HIDE DEF last, p
    <3> QED BY <1>6, <2>2, <2>4, Joined
  <2> HIDE DEF t, new
  <2>6. Len(new) = n /\ new[n] = t /\ \A i \in 1..n : i # n => new[i] = runs[i]
    BY <1>1, <2>1, <2>3
  <2> HIDE DEF last, p, n
  <2>7. \A i, j \in 1..Len(new) : i < j => SegEnd(new[i]) < new[j].base
    <3> SUFFICES ASSUME NEW i \in 1..n, NEW j \in 1..n, i < j PROVE SegEnd(new[i]) < new[j].base
      BY <2>6
    <3>1. i # n /\ new[i] = runs[i] /\ SegEnd(runs[i]) < runs[j].base BY <1>1, <1>2, <2>6
    <3>2. new[j].base = runs[j].base BY <2>5, <2>6 DEF last
    <3> QED BY <3>1, <3>2
  <2>8. \A i \in 1..Len(new) : SegEnd(new[i]) <= p + 1
    <3> TAKE i \in 1..Len(new)
    <3>1. CASE i = n BY <1>1, <2>5, <2>6, <3>1
    <3>2. CASE i # n
      <4>1. new[i] = runs[i] /\ SegEnd(runs[i]) <= p /\ SegEnd(runs[i]) \in Nat BY <1>1, <1>2, <2>6, <3>2
      <4> QED BY <1>1, <4>1
    <3> QED BY <3>1, <3>2
  <2>9. Covered(new) = Covered(runs) \union {p}
    <3>1. \A q : q \in Covered(new) <=> q \in Covered(runs) \/ q = p
      <4> TAKE q
      <4>1. \A i \in 1..n : q \in SegPages(new[i]) <=> q \in SegPages(runs[i]) \/ (i = n /\ q = p)
        BY <2>5, <2>6 DEF last
      <4>2. q \in Covered(new) <=> \E i \in 1..n : q \in SegPages(new[i]) BY <2>6, CoveredBy
      <4>3. q \in Covered(runs) <=> \E i \in 1..n : q \in SegPages(runs[i]) BY CoveredBy DEF n
      <4> QED BY <2>1, <4>1, <4>2, <4>3
    <3> QED BY <3>1
  <2>10. Covered(new) = {q \in b..p : refs[q] = 1} BY <1>3, <1>4, <1>9, <2>9
  <2> QED BY <1>7, <2>7, <2>8, <2>10 DEF new, p
<1>10. CASE refs[p] = 1 /\ ~(runs # <<>> /\ SegEnd(Last(runs)) = p)
  <2> DEFINE t == Seg(p, 1)
  <2>1. new = Append(runs, t) BY <1>10 DEF Extend
  <2>2. \A i \in 1..n : SegEnd(runs[i]) < p
    <3> TAKE i \in 1..n
    <3>1. n \in 1..n /\ runs # <<>> /\ Last(runs) = runs[n] BY <1>1 DEF Last
    <3>2. SegEnd(runs[n]) < p
      <4>1. SegEnd(runs[n]) # p /\ SegEnd(runs[n]) <= p /\ SegEnd(runs[n]) \in Nat
        BY <1>1, <1>2, <1>10, <3>1
      <4> HIDE DEF p, n
      <4> QED BY <1>1, <4>1, SMTT(30)
    <3> HIDE DEF p, n
    <3>3. CASE i = n BY <3>2, <3>3
    <3>4. CASE i # n
      <4>1. i < n BY <1>1, <3>4
      <4>2. SegEnd(runs[i]) < runs[n].base /\ runs[n].base < SegEnd(runs[n]) BY <1>1, <1>2, <3>1, <4>1
      <4> QED BY <1>1, <3>1, <3>2, <4>2, SMTT(30)
    <3> QED BY <3>3, <3>4
  <2> HIDE DEF t, new, p
  <2>3. Len(new) = n + 1 /\ new[n + 1] = t /\ \A i \in 1..n : new[i] = runs[i] BY <1>1, <2>1
  <2> HIDE DEF n
  <2>4. /\ \A i : i \in 1..Len(new) <=> i \in 1..n \/ i = n + 1
        /\ \A i, j \in 1..Len(new) : i < j => i \in 1..n
    BY <1>1, <2>3
  <2>5. t.base = p /\ SegEnd(t) = p + 1 /\ SegPages(t) = {p} BY <1>6 DEF t
  <2>6. \A i, j \in 1..Len(new) : i < j => SegEnd(new[i]) < new[j].base
    <3> SUFFICES ASSUME NEW i \in 1..Len(new), NEW j \in 1..Len(new), i < j
                 PROVE  SegEnd(new[i]) < new[j].base
      OBVIOUS
    <3>1. i \in 1..n /\ new[i] = runs[i] BY <2>3, <2>4
    <3>2. CASE j = n + 1 BY <2>2, <2>3, <2>5, <3>1, <3>2
    <3>3. CASE j \in 1..n BY <1>2, <2>3, <3>1, <3>3
    <3> QED BY <2>4, <3>2, <3>3
  <2>7. \A i \in 1..Len(new) : SegEnd(new[i]) <= p + 1
    <3> TAKE i \in 1..Len(new)
    <3>1. CASE i = n + 1 BY <1>1, <2>3, <2>5, <3>1
    <3>2. CASE i \in 1..n
      <4>1. new[i] = runs[i] /\ SegEnd(runs[i]) <= p /\ SegEnd(runs[i]) \in Nat BY <1>1, <1>2, <2>3, <3>2
      <4> QED BY <1>1, <4>1
    <3> QED BY <2>4, <3>1, <3>2
  <2>8. Covered(new) = Covered(runs) \union {p}
    <3>1. \A q : q \in Covered(new) <=> q \in Covered(runs) \/ q = p
      <4> TAKE q
      <4>1. q \in Covered(new) <=> \E i \in 1..Len(new) : q \in SegPages(new[i]) BY CoveredBy
      <4>2. q \in Covered(runs) <=> \E i \in 1..n : q \in SegPages(runs[i]) BY CoveredBy DEF n
      <4> QED BY <2>3, <2>4, <2>5, <4>1, <4>2
    <3> QED BY <3>1
  <2>9. Covered(new) = {q \in b..p : refs[q] = 1} BY <1>3, <1>4, <1>10, <2>8
  <2> QED BY <1>7, <2>6, <2>7, <2>9 DEF new, p
<1> QED BY <1>8, <1>9, <1>10 DEF new, p

\* What a drop finds: the maximal stretches of the pages it zeroes.
LEMMA ZeroedStretches ==
  ASSUME NEW refs, NEW seg \in Run
  PROVE  Stretches(ZeroedRuns(refs, seg), {p \in SegPages(seg) : refs[p] = 1})
<1> DEFINE b == seg.base
           pages == [i \in 1..seg.len |-> b + i - 1]
           A == Seq(Run)
           none == <<>>
<1>1. b \in Nat /\ seg.len \in Nat BY RunFacts
<1>2. pages \in Seq(Nat) /\ Len(pages) = seg.len /\ \A i \in 1..Len(pages) : pages[i] = b + i - 1
  <2> HIDE DEF b
  <2> QED BY <1>1
<1>3. none \in A OBVIOUS
<1>4. Found(none, refs, b, 0)
  <2>1. Covered(<<>>) = {} /\ Len(<<>>) = 0 BY DEF Covered
  <2>2. b..(b + 0 - 1) = {} /\ 1..0 = {} BY <1>1
  <2> HIDE DEF b
  <2> QED BY <2>1, <2>2 DEF Found
<1> HIDE DEF pages, b, none
<1>5. \A a \in A, i \in 1..Len(pages) : Extend(refs, a, pages[i]) \in A
  <2> TAKE a \in A, i \in 1..Len(pages)
  <2>1. pages[i] \in Nat BY <1>2
  <2> QED BY <2>1, ExtendType
<1>6. PICK pre : ExtendsTo(pre, refs, none, pages, A)
  <2>1. pages \in Seq(Nat) BY <1>2
  <2> HIDE DEF A
  <2> QED BY <1>3, <1>5, <2>1, ExtendFold
<1> DEFINE n == Len(pages)
<1>7. \A k \in 0..n : Found(pre[k], refs, b, k)
  <2> DEFINE P == {k \in 0..n : Found(pre[k], refs, b, k)}
  <2>1. 0 \in P BY <1>1, <1>2, <1>4, <1>6 DEF ExtendsTo, Along
  <2>2. ASSUME NEW k \in 1..n, k - 1 \in P PROVE k \in P
    <3>1. Found(Extend(refs, pre[k - 1], b + k - 1), refs, b, k) BY <1>1, <2>2, ExtendStep
    <3> QED BY <1>2, <1>6, <3>1 DEF ExtendsTo
  <2>3. \A k \in 0..n : k \in P
    <3>1. n \in Nat BY <1>1, <1>2
    <3> HIDE DEF P, n
    <3> QED BY <2>1, <2>2, <3>1, PrefixInduction
  <2> QED BY <2>3
<1>8. ZeroedRuns(refs, seg) = Extended(refs, none, pages) BY Zenon DEF ZeroedRuns, Extended, none, pages, b
<1>9. PICK zs : zs = ZeroedRuns(refs, seg) /\ Found(zs, refs, b, seg.len)
  BY <1>1, <1>2, <1>6, <1>7, <1>8 DEF ExtendsTo
<1>10. b..(b + seg.len - 1) = SegPages(seg) BY <1>1 DEF SegPages, SegEnd, b
<1>11. AllApart(zs)
  <2>1. SUFFICES ASSUME NEW i \in 1..Len(zs), NEW j \in 1..Len(zs), i # j PROVE Apart(zs[i], zs[j])
    BY DEF AllApart
  <2>2. i < j \/ j < i BY <2>1
  <2> QED BY <1>9, <2>2 DEF Found, Apart
<1> QED BY <1>9, <1>10, <1>11 DEF Found, Stretches

LEMMA StretchPages ==
  ASSUME NEW free, NEW S, Stretches(free, S)
  PROVE  /\ free \in Seq(Run) /\ Len(free) \in Nat
         /\ \A i \in 1..Len(free) : free[i] \in Run /\ SegPages(free[i]) \subseteq S
         /\ \A p \in S : \E i \in 1..Len(free) : p \in SegPages(free[i])
         /\ \A i, j \in 1..Len(free) : i # j => SegPages(free[i]) \intersect SegPages(free[j]) = {}
<1>1. free \in Seq(Run) /\ Len(free) \in Nat /\ \A i \in 1..Len(free) : free[i] \in Run BY DEF Stretches
<1>2. \A p : p \in S <=> \E i \in 1..Len(free) : p \in SegPages(free[i]) BY CoveredBy DEF Stretches
<1>3. ASSUME NEW i \in 1..Len(free), NEW j \in 1..Len(free), i # j
      PROVE  SegPages(free[i]) \intersect SegPages(free[j]) = {}
  <2>1. Apart(free[i], free[j]) BY <1>3 DEF Stretches, AllApart
  <2>2. Disjoint(free[i], free[j]) BY <1>1, <2>1, ApartIsDisjoint
  <2> QED BY <1>1, <2>2, NoCommonPage
<1> QED BY <1>1, <1>2, <1>3

\* A release keeps the free list exact: its stretches are then those of the
\* pages that were free and of the pages it zeroed.
LEMMA UnrefKeeps ==
  ASSUME NEW free, NEW F, Stretches(free, F), NEW refs, NEW seg \in Run,
         \A p \in F : refs[p] = 0
  PROVE  Stretches(Inserted(free, ZeroedRuns(refs, seg)),
                   F \union {p \in SegPages(seg) : refs[p] = 1})
<1> DEFINE zs == ZeroedRuns(refs, seg)
           Z == {p \in SegPages(seg) : refs[p] = 1}
           n == Len(zs)
           A == Seq(Run)
           Upto(k) == UNION {SegPages(zs[j]) : j \in 1..k}
<1>1. Stretches(zs, Z) BY ZeroedStretches
<1> HIDE DEF zs
<1>2. /\ zs \in Seq(Run) /\ n \in Nat /\ \A i \in 1..n : zs[i] \in Run /\ SegPages(zs[i]) \subseteq Z
      /\ \A i, j \in 1..n : i # j => SegPages(zs[i]) \intersect SegPages(zs[j]) = {}
  <2> HIDE DEF Z
  <2> QED BY <1>1, StretchPages
<1>3. Upto(n) = Z BY <1>1 DEF Stretches, Covered
<1>4. F \intersect Z = {}
  <2> SUFFICES ASSUME NEW p \in F, p \in Z PROVE FALSE OBVIOUS
  <2>1. refs[p] = 0 /\ refs[p] = 1 OBVIOUS
  <2> QED BY <2>1
<1>5. free \in A BY DEF Stretches
<1>6. \A a \in A, i \in 1..Len(zs) : InsertRun(a, zs[i]) \in A BY <1>2, InsertType
<1>7. PICK pre : /\ Along(pre, Len(zs), A, free)
                 /\ Inserted(free, zs) = pre[Len(zs)]
                 /\ \A k \in 1..Len(zs) : pre[k] = InsertRun(pre[k - 1], zs[k])
  <2> HIDE DEF A
  <2> QED BY <1>2, <1>5, <1>6, InsertFold
<1> HIDE DEF Z
<1>8. \A k \in 0..n : Stretches(pre[k], F \union Upto(k))
  <2> DEFINE P == {k \in 0..n : Stretches(pre[k], F \union Upto(k))}
  <2>1. 0 \in P
    <3>1. F \union Upto(0) = F OBVIOUS
    <3>2. pre[0] = free BY <1>7 DEF Along
    <3>3. Stretches(pre[0], F \union Upto(0))
      <4> HIDE DEF Upto
      <4> QED BY <3>1, <3>2
    <3>4. 0 \in 0..n BY <1>2
    <3> QED BY <3>3, <3>4
  <2>2. ASSUME NEW k \in 1..n, k - 1 \in P PROVE k \in P
    <3>1. Stretches(pre[k - 1], F \union Upto(k - 1)) /\ zs[k] \in Run BY <1>2, <2>2
    <3>2. Upto(k) = Upto(k - 1) \union SegPages(zs[k])
      <4>1. \A j : j \in 1..k <=> j \in 1..(k - 1) \/ j = k OBVIOUS
      <4> QED BY <4>1
    <3>3. SegPages(zs[k]) \intersect (F \union Upto(k - 1)) = {}
      <4>1. SegPages(zs[k]) \intersect F = {} BY <1>2, <1>4
      <4>2. \A j \in 1..(k - 1) : SegPages(zs[k]) \intersect SegPages(zs[j]) = {}
        <5> TAKE j \in 1..(k - 1)
        <5>1. j \in 1..n /\ j # k OBVIOUS
        <5> QED BY <1>2, <5>1
      <4> QED BY <4>1, <4>2
    <3> HIDE DEF Upto, n
    <3>4. Stretches(InsertRun(pre[k - 1], zs[k]), (F \union Upto(k - 1)) \union SegPages(zs[k]))
      BY <3>1, <3>3, InsertKeeps
    <3>5. (F \union Upto(k - 1)) \union SegPages(zs[k]) = F \union Upto(k) BY <3>2
    <3>6. pre[k] = InsertRun(pre[k - 1], zs[k]) BY <1>7 DEF n
    <3>7. Stretches(pre[k], F \union Upto(k)) BY <3>4, <3>5, <3>6
    <3>8. k \in 0..n BY <1>2
    <3> QED BY <3>7, <3>8
  <2>3. \A k \in 0..n : k \in P
    <3> HIDE DEF P, n
    <3> QED BY <1>2, <2>1, <2>2, PrefixInduction
  <2> QED BY <2>3
<1>9. Stretches(Inserted(free, zs), F \union Z)
  <2>1. n \in 0..n BY <1>2
  <2>2. Stretches(pre[n], F \union Upto(n)) BY <1>8, <2>1
  <2> HIDE DEF Upto
  <2> QED BY <1>3, <1>7, <2>2
<1> QED BY <1>9 DEF zs, Z
-----------------------------------------------------------------------------
(* alloc and alloc_from_end *)

LEMMA RemoveAtFacts ==
  ASSUME NEW A, NEW s \in Seq(A), NEW i \in 1..Len(s)
  PROVE  /\ RemoveAt(s, i) \in Seq(A) /\ Len(RemoveAt(s, i)) = Len(s) - 1
         /\ \A j \in 1..(Len(s) - 1) : RemoveAt(s, i)[j] = s[IF j < i THEN j ELSE j + 1]
<1>1. SubSeq(s, 1, i - 1) \in Seq(A) /\ Len(SubSeq(s, 1, i - 1)) = i - 1
      /\ \A j \in 1..(i - 1) : SubSeq(s, 1, i - 1)[j] = s[j]
  OBVIOUS
<1>2. SubSeq(s, i + 1, Len(s)) \in Seq(A) /\ Len(SubSeq(s, i + 1, Len(s))) = Len(s) - i
      /\ \A j \in 1..(Len(s) - i) : SubSeq(s, i + 1, Len(s))[j] = s[i + j]
  OBVIOUS
<1> DEFINE a == SubSeq(s, 1, i - 1)
           b == SubSeq(s, i + 1, Len(s))
<1>0. /\ a \in Seq(A) /\ Len(a) = i - 1 /\ b \in Seq(A) /\ Len(b) = Len(s) - i
      /\ Len(s) \in Nat /\ i \in Nat
  BY <1>1, <1>2
<1> HIDE DEF a, b
<1>3. a \o b \in Seq(A) /\ Len(a \o b) = Len(s) - 1
      /\ \A j \in 1..(Len(s) - 1) : (a \o b)[j] = IF j < i THEN a[j] ELSE b[j - (i - 1)]
  <2>1. a \o b \in Seq(A) /\ Len(a \o b) = Len(a) + Len(b) BY <1>0
  <2>2. \A j \in 1..(Len(a) + Len(b)) : (a \o b)[j] = IF j <= Len(a) THEN a[j] ELSE b[j - Len(a)]
    BY <1>0
  <2>3. \A j \in 1..(Len(s) - 1) : j \in 1..(Len(a) + Len(b)) /\ (j <= Len(a) <=> j < i) BY <1>0
  <2> QED BY <1>0, <2>1, <2>2, <2>3
<1>4. ASSUME NEW j \in 1..(Len(s) - 1)
      PROVE  (a \o b)[j] = s[IF j < i THEN j ELSE j + 1]
  <2>1. CASE j < i
    <3>1. j \in 1..(i - 1) BY <2>1
    <3> QED BY <1>1, <1>3, <2>1, <3>1 DEF a
  <2>2. CASE ~(j < i)
    <3>1. j - (i - 1) \in 1..(Len(s) - i) /\ i + (j - (i - 1)) = j + 1 BY <2>2
    <3> QED BY <1>2, <1>3, <2>2, <3>1 DEF b
  <2> QED BY <2>1, <2>2
<1> QED BY <1>3, <1>4 DEF RemoveAt, a, b

\* The runs other than the i-th, for a run of the list taken out.
LEMMA RemoveAtRange ==
  ASSUME NEW A, NEW s \in Seq(A), NEW i \in 1..Len(s)
  PROVE  \E at \in [1..(Len(s) - 1) -> (1..Len(s)) \ {i}] :
           /\ \A j \in 1..(Len(s) - 1) : RemoveAt(s, i)[j] = s[at[j]]
           /\ \A j, k \in 1..(Len(s) - 1) : at[j] = at[k] => j = k
           /\ \A k \in (1..Len(s)) \ {i} : \E j \in 1..(Len(s) - 1) : at[j] = k
<1> DEFINE at == [j \in 1..(Len(s) - 1) |-> IF j < i THEN j ELSE j + 1]
<1>1. at \in [1..(Len(s) - 1) -> (1..Len(s)) \ {i}] OBVIOUS
<1>2. \A j \in 1..(Len(s) - 1) : RemoveAt(s, i)[j] = s[at[j]] BY RemoveAtFacts
<1>3. \A j, k \in 1..(Len(s) - 1) : at[j] = at[k] => j = k OBVIOUS
<1>4. ASSUME NEW k \in (1..Len(s)) \ {i} PROVE \E j \in 1..(Len(s) - 1) : at[j] = k
  <2>1. CASE k < i
    <3>1. k \in 1..(Len(s) - 1) /\ at[k] = k BY <2>1
    <3> QED BY <3>1
  <2>2. CASE ~(k < i)
    <3>1. k - 1 \in 1..(Len(s) - 1) /\ ~(k - 1 < i) /\ (k - 1) + 1 = k BY <2>2
    <3>2. at[k - 1] = k BY <3>1
    <3> QED BY <3>1, <3>2
  <2> QED BY <2>1, <2>2
<1> QED BY <1>1, <1>2, <1>3, <1>4

\* A segment is cut from the i-th run and what is left of the run, if anything,
\* is put at the front: the list stays exact for the pages that remain.
LEMMA CutKeeps ==
  ASSUME NEW free, NEW S, Stretches(free, S), NEW i \in 1..Len(free),
         NEW seg, NEW left,
         \/ left.len = 0 /\ SegPages(seg) = SegPages(free[i])
         \/ /\ left \in Run
            /\ SegPages(left) \union SegPages(seg) = SegPages(free[i])
            /\ SegPages(left) \intersect SegPages(seg) = {}
            /\ free[i].base <= left.base /\ SegEnd(left) <= SegEnd(free[i])
  PROVE  /\ SegPages(seg) \subseteq S
         /\ Stretches((IF left.len > 0 THEN <<left>> ELSE <<>>) \o RemoveAt(free, i),
                      S \ SegPages(seg))
<1> DEFINE rest == RemoveAt(free, i)
           m == Len(free) - 1
           r == free[i]
<1>1. /\ free \in Seq(Run) /\ Len(free) \in Nat /\ AllApart(free)
      /\ \A j \in 1..Len(free) : free[j] \in Run /\ SegPages(free[j]) \subseteq S
      /\ \A p \in S : \E j \in 1..Len(free) : p \in SegPages(free[j])
      /\ \A j, k \in 1..Len(free) : j # k => SegPages(free[j]) \intersect SegPages(free[k]) = {}
  BY StretchPages DEF Stretches
<1>2. rest \in Seq(Run) /\ Len(rest) = m BY <1>1, RemoveAtFacts
<1>3. PICK at \in [1..m -> (1..Len(free)) \ {i}] :
           /\ \A j \in 1..m : rest[j] = free[at[j]]
           /\ \A j, k \in 1..m : at[j] = at[k] => j = k
           /\ \A k \in (1..Len(free)) \ {i} : \E j \in 1..m : at[j] = k
  BY <1>1, RemoveAtRange
<1> HIDE DEF rest, m, r
<1>4. \A j \in 1..m : at[j] \in 1..Len(free) /\ at[j] # i /\ rest[j] = free[at[j]] BY <1>3
<1>5. AllApart(rest)
  <2>1. SUFFICES ASSUME NEW j \in 1..m, NEW k \in 1..m, j # k PROVE Apart(rest[j], rest[k])
    BY <1>2 DEF AllApart
  <2>2. at[j] # at[k] BY <1>3, <2>1
  <2> QED BY <1>1, <1>4, <2>2 DEF AllApart
<1>6. Covered(rest) = S \ SegPages(r)
  <2>1. \A p : p \in Covered(rest) <=> p \in S \ SegPages(r)
    <3> TAKE p
    <3>1. ASSUME NEW j \in 1..m, p \in SegPages(rest[j]) PROVE p \in S \ SegPages(r)
      BY <1>1, <1>4, <3>1 DEF r
    <3>2. ASSUME p \in S \ SegPages(r) PROVE \E j \in 1..m : p \in SegPages(rest[j])
      <4>1. PICK k \in 1..Len(free) : p \in SegPages(free[k]) BY <1>1, <3>2
      <4>2. k # i BY <3>2, <4>1 DEF r
      <4>3. PICK j \in 1..m : at[j] = k BY <1>3, <4>2
      <4> QED BY <1>4, <4>1, <4>3
    <3> QED BY <1>2, <3>1, <3>2, CoveredBy
  <2> QED BY <2>1
<1>7. Stretches(rest, S \ SegPages(r)) BY <1>2, <1>5, <1>6 DEF Stretches
<1>8. SegPages(r) \subseteq S /\ r \in Run BY <1>1 DEF r
<1>9. CASE left.len = 0 /\ SegPages(seg) = SegPages(free[i])
  <2>1. ~(left.len > 0) BY <1>9
  <2>2. <<>> \o rest = rest BY <1>2
  <2> QED BY <1>7, <1>8, <1>9, <2>1, <2>2 DEF r, rest
<1>10. CASE /\ left \in Run
            /\ SegPages(left) \union SegPages(seg) = SegPages(free[i])
            /\ SegPages(left) \intersect SegPages(seg) = {}
            /\ free[i].base <= left.base /\ SegEnd(left) <= SegEnd(free[i])
  <2>1. \A j \in 1..Len(rest) : Apart(rest[j], left)
    <3> TAKE j \in 1..Len(rest)
    <3>1. rest[j] = free[at[j]] /\ at[j] \in 1..Len(free) /\ at[j] # i BY <1>2, <1>4
    <3>2. Apart(rest[j], r) /\ rest[j] \in Run BY <1>1, <3>1 DEF AllApart, r
    <3>3. /\ rest[j].base \in Nat /\ SegEnd(rest[j]) \in Nat /\ r.base \in Nat /\ SegEnd(r) \in Nat
          /\ left.base \in Nat /\ SegEnd(left) \in Nat /\ r.base <= left.base /\ SegEnd(left) <= SegEnd(r)
      BY <1>8, <1>10, <3>2, RunFacts DEF r
    <3> QED BY <3>2, <3>3 DEF Apart
  <2>2. Stretches(<<left>> \o rest, (S \ SegPages(r)) \union SegPages(left))
    BY <1>7, <1>10, <2>1, PrependKeeps
  <2>3. (S \ SegPages(r)) \union SegPages(left) = S \ SegPages(seg) BY <1>8, <1>10 DEF r
  <2>4. left.len > 0 BY <1>10, RunFacts
  <2>5. SegPages(seg) \subseteq S BY <1>8, <1>10 DEF r
  <2> QED BY <2>2, <2>3, <2>4, <2>5 DEF rest
<1> QED BY <1>9, <1>10

\* The two ends of a run that is long enough.
LEMMA CutsOf ==
  ASSUME NEW r \in Run, NEW n \in Nat \ {0}, n <= r.len
  PROVE  /\ LET seg == Seg(r.base, n)  left == Seg(r.base + n, r.len - n) IN
              /\ seg \in Run
              /\ \/ left.len = 0 /\ SegPages(seg) = SegPages(r)
                 \/ /\ left \in Run
                    /\ SegPages(left) \union SegPages(seg) = SegPages(r)
                    /\ SegPages(left) \intersect SegPages(seg) = {}
                    /\ r.base <= left.base /\ SegEnd(left) <= SegEnd(r)
         /\ LET seg == Seg(SegEnd(r) - n, n)  left == Seg(r.base, r.len - n) IN
              /\ seg \in Run
              /\ \/ left.len = 0 /\ SegPages(seg) = SegPages(r)
                 \/ /\ left \in Run
                    /\ SegPages(left) \union SegPages(seg) = SegPages(r)
                    /\ SegPages(left) \intersect SegPages(seg) = {}
                    /\ r.base <= left.base /\ SegEnd(left) <= SegEnd(r)
<1>1. r.base \in Nat /\ r.len \in Nat BY RunFacts
<1> QED BY <1>1, SMTT(30) DEF Seg, SegEnd, SegPages, Run

\* Both searches return the index of a run that is long enough, or 0.
LEMMA FitFacts ==
  ASSUME NEW pool, pool.free \in Seq(Run), NEW n \in Nat
  PROVE  /\ FirstFit(pool, n) # 0 => /\ FirstFit(pool, n) \in 1..Len(pool.free)
                                     /\ pool.free[FirstFit(pool, n)].len >= n
         /\ LastFit(pool, n) # 0 => /\ LastFit(pool, n) \in 1..Len(pool.free)
                                    /\ pool.free[LastFit(pool, n)].len >= n
<1> DEFINE I == {i \in 1..Len(pool.free) : pool.free[i].len >= n}
<1>1. FirstFit(pool, n) = IF I # {} THEN Min(I) ELSE 0 BY Zenon DEF FirstFit, SelectInSeq
<1>2. LastFit(pool, n) = IF I # {} THEN Max(I) ELSE 0 BY Zenon DEF LastFit, SelectLastInSeq
<1>3. Len(pool.free) \in Nat OBVIOUS
<1>4. I # {} => Max(I) \in I
  <2>1. I \in SUBSET (1..Len(pool.free)) OBVIOUS
  <2> HIDE DEF I
  <2> QED BY <1>3, <2>1, MaxIsIn
<1>5. I # {} => Min(I) \in I
  <2>1. SUFFICES ASSUME I # {} PROVE Min(I) \in I OBVIOUS
  <2>2. I \subseteq Nat OBVIOUS
  <2> HIDE DEF I
  <2>3. \E x \in I : \A y \in I : x =< y BY <2>1, <2>2, LeastNatural
  <2> QED BY <2>3 DEF Min
<1> QED BY <1>1, <1>2, <1>4, <1>5

-----------------------------------------------------------------------------
(* free_pages *)

\* The lengths of the runs add up to the number of the pages they cover.
LEMMA CountedIsCovered ==
  ASSUME NEW free, NEW S, Stretches(free, S)
  PROVE  IsFiniteSet(S) /\ Counted(0, free) = Cardinality(S)
<1> DEFINE n == Len(free)
           Upto(k) == UNION {SegPages(free[j]) : j \in 1..k}
<1>1. /\ free \in Seq(Run) /\ n \in Nat
      /\ \A j \in 1..n : free[j] \in Run
      /\ \A j, k \in 1..n : j # k => SegPages(free[j]) \intersect SegPages(free[k]) = {}
  BY StretchPages
<1>2. Upto(n) = S BY DEF Stretches, Covered
<1>3. \A a \in Nat, j \in 1..Len(free) : a + free[j].len \in Nat BY <1>1, RunFacts
<1>4. PICK pre : CountsTo(pre, 0, free, Nat)
  <2>1. 0 \in Nat OBVIOUS
  <2> QED BY <1>1, <1>3, <2>1, CountFold
<1>5. \A k \in 0..n : IsFiniteSet(Upto(k)) /\ pre[k] = Cardinality(Upto(k))
  <2> DEFINE P == {k \in 0..n : IsFiniteSet(Upto(k)) /\ pre[k] = Cardinality(Upto(k))}
  <2>1. 0 \in P
    <3>1. Upto(0) = {} OBVIOUS
    <3>2. pre[0] = 0 /\ 0 \in 0..n BY <1>1, <1>4 DEF CountsTo, Along
    <3> HIDE DEF Upto, n
    <3> QED BY <3>1, <3>2, FS_EmptySet
  <2>2. ASSUME NEW k \in 1..n, k - 1 \in P PROVE k \in P
    <3> DEFINE B == Upto(k - 1)
               C == SegPages(free[k])
    <3>1. Upto(k) = B \union C
      <4>1. \A j : j \in 1..k <=> j \in 1..(k - 1) \/ j = k OBVIOUS
      <4> QED BY <4>1
    <3>2. B \intersect C = {}
      <4>1. \A j \in 1..(k - 1) : SegPages(free[j]) \intersect C = {}
        <5> TAKE j \in 1..(k - 1)
        <5>1. j \in 1..n /\ j # k OBVIOUS
        <5> QED BY <1>1, <5>1
      <4> QED BY <4>1
    <3>3. free[k].base \in Nat /\ free[k].len \in Nat /\ free[k].len > 0 BY <1>1, RunFacts
    <3>4. IsFiniteSet(C) /\ Cardinality(C) = free[k].len
      <4>1. free[k].base \in Int /\ (free[k].base + free[k].len) - 1 \in Int BY <3>3
      <4>2. C = free[k].base..((free[k].base + free[k].len) - 1) BY DEF SegPages, SegEnd
      <4> HIDE DEF C
      <4>3. /\ IsFiniteSet(C)
            /\ Cardinality(C) = IF free[k].base > (free[k].base + free[k].len) - 1 THEN 0
                                ELSE ((free[k].base + free[k].len) - 1) - free[k].base + 1
        BY <4>1, <4>2, FS_Interval
      <4> QED BY <3>3, <4>3
    <3>5. IsFiniteSet(B) /\ pre[k - 1] = Cardinality(B) BY <2>2
    <3>6. k \in 0..n /\ pre[k] = pre[k - 1] + free[k].len BY <1>1, <1>4 DEF CountsTo
    <3>7. Cardinality(B) \in Nat BY <3>5, FS_CardinalityType
    <3> HIDE DEF B, C, Upto, n
    <3>8. /\ IsFiniteSet(B \union C)
          /\ Cardinality(B \union C) = Cardinality(B) + Cardinality(C) - Cardinality({})
      BY <3>2, <3>4, <3>5, FS_Union
    <3>9. Cardinality({}) = 0 BY FS_EmptySet
    <3>10. pre[k] = Cardinality(Upto(k)) BY <3>1, <3>3, <3>4, <3>5, <3>6, <3>7, <3>8, <3>9
    <3> QED BY <3>1, <3>6, <3>8, <3>10
  <2>3. \A k \in 0..n : k \in P
    <3> HIDE DEF P, n
    <3> QED BY <1>1, <2>1, <2>2, PrefixInduction
  <2> QED BY <2>3
<1>6. n \in 0..n BY <1>1
<1> HIDE DEF Upto
<1> QED BY <1>2, <1>4, <1>5, <1>6 DEF CountsTo

-----------------------------------------------------------------------------
(* Pages and prefixes *)

LEMMA PagesExact ==
  ASSUME NEW n \in Nat, NEW b \in Nat \ {0}
  PROVE  (n * b) \div b = n
<1>1. n * b = b * n + 0 /\ n \in Int /\ 0 \in 0..(b - 1) OBVIOUS
<1> QED BY <1>1

LEMMA DivMod ==
  ASSUME NEW n \in Nat, NEW b \in Nat \ {0}
  PROVE  /\ n \div b \in Nat /\ n % b \in 0..(b - 1) /\ n = (n \div b) * b + (n % b) /\ (n \div b) * b <= n
         /\ n % b = 0 <=> n = (n \div b) * b
OBVIOUS

LEMMA CutFacts ==
  ASSUME NEW T, NEW p \in Seq(T), NEW j \in 0..Len(p)
  PROVE  /\ SubSeq(p, 1, j) \in Seq(T) /\ Len(SubSeq(p, 1, j)) = j
         /\ \A i \in 1..j : SubSeq(p, 1, j)[i] = p[i]
OBVIOUS

LEMMA SameSeq ==
  ASSUME NEW T, NEW p \in Seq(T), NEW q \in Seq(T), Len(p) = Len(q),
         \A i \in 1..Len(p) : p[i] = q[i]
  PROVE  p = q
BY SeqEqual

LEMMA PrefixIs ==
  ASSUME NEW T, NEW p \in Seq(T), NEW q \in Seq(T)
  PROVE  IsPrefix(p, q) <=> Len(p) <= Len(q) /\ \A i \in 1..Len(p) : p[i] = q[i]
<1>1. PICK m \in Nat : m = Len(p) OBVIOUS
<1>2. PICK n \in Nat : n = Len(q) OBVIOUS
<1>3. SubSeq(p, 1, m) = p BY <1>1, SubSeqFull
<1>4. CASE m <= n
  <2>1. m \in 0..Len(q) BY <1>1, <1>2, <1>4
  <2>2. SubSeq(q, 1, m) \in Seq(T) /\ Len(SubSeq(q, 1, m)) = m /\ \A i \in 1..m : SubSeq(q, 1, m)[i] = q[i]
    BY <2>1, CutFacts
  <2>3. SubSeq(q, 1, m) = p <=> \A i \in 1..m : p[i] = q[i]
    BY <1>1, <2>2, SameSeq
  <2> QED BY <1>1, <1>2, <1>3, <1>4, <2>3 DEF IsPrefix
<1>5. CASE ~(m <= n) BY <1>1, <1>2, <1>5 DEF IsPrefix
<1> QED BY <1>4, <1>5

LEMMA MinIsIn ==
  ASSUME NEW T, T \subseteq Nat, T # {}
  PROVE  Min(T) \in T /\ \A y \in T : Min(T) <= y
<1>1. PICK x \in T : \A y \in T : x <= y BY LeastNatural
<1> QED BY <1>1 DEF Min

LEMMA FewerLeft ==
  ASSUME NEW s, IsFiniteSet(s), NEW x \in s
  PROVE  /\ IsFiniteSet(s \ {x}) /\ Cardinality(s) \in Nat \ {0}
         /\ Cardinality(s \ {x}) = Cardinality(s) - 1
<1>1. IsFiniteSet(s \ {x}) /\ Cardinality(s \ {x}) = Cardinality(s) - 1 BY FS_RemoveElement
<1>2. Cardinality(s) \in Nat /\ Cardinality(s \ {x}) \in Nat BY <1>1, FS_CardinalityType
<1> QED BY <1>1, <1>2

LEMMA OneElement ==
  ASSUME NEW S, IsFiniteSet(S), NEW x \in S
  PROVE  Cardinality(S) = 1 <=> S = {x}
<1>1. IsFiniteSet(S \ {x}) /\ Cardinality(S \ {x}) = Cardinality(S) - 1 /\ Cardinality(S) \in Nat \ {0} BY FewerLeft
<1>2. Cardinality(S \ {x}) = 0 <=> S \ {x} = {} BY <1>1, FS_EmptySet
<1> QED BY <1>1, <1>2

-----------------------------------------------------------------------------
(* Lists *)

Retained(ids, base, seq) ==
  FoldLeft(LAMBDA kept, x : IF x \in ids THEN kept ELSE Append(kept, x), base, seq)
Summed(base, seq) == FoldLeft(LAMBDA sum, k : sum + PagesOf(k), base, seq)
SumsTo(pre, base, seq, A) ==
  /\ Along(pre, Len(seq), A, base) /\ Summed(base, seq) = pre[Len(seq)]
  /\ \A k \in 1..Len(seq) : pre[k] = (pre[k - 1] + PagesOf(seq[k]))
RetainsTo(pre, ids, base, seq, A) ==
  /\ Along(pre, Len(seq), A, base)
  /\ Retained(ids, base, seq) = pre[Len(seq)]
  /\ \A k \in 1..Len(seq) : pre[k] = IF seq[k] \in ids THEN pre[k - 1] ELSE Append(pre[k - 1], seq[k])

LEMMA RetainFold ==
  ASSUME NEW A, NEW ids, NEW base \in A, NEW S, NEW seq \in Seq(S),
         \A a \in A, i \in 1..Len(seq) : (IF seq[i] \in ids THEN a ELSE Append(a, seq[i])) \in A
  PROVE  \E pre : RetainsTo(pre, ids, base, seq, A)
<1> DEFINE n == Len(seq)
           step == [i \in 1..n |-> [a \in A |-> IF seq[i] \in ids THEN a ELSE Append(a, seq[i])]]
           Fix(f) == f = [T \in SUBSET (1..n) |->
                            IF T = {} THEN base
                            ELSE IF seq[Max(T)] \in ids THEN f[T \ {Max(T)}] ELSE Append(f[T \ {Max(T)}], seq[Max(T)])]
           iter == CHOOSE f : Fix(f)
<1>1. n \in Nat /\ DOMAIN seq = 1..n OBVIOUS
<1>2. step \in [1..n -> [A -> A]] /\ \A i \in 1..n, a \in A : step[i][a] = IF seq[i] \in ids THEN a ELSE Append(a, seq[i])
  OBVIOUS
<1>3. Retained(ids, base, seq) = iter[1..n]
  BY <1>1, Zenon DEF FoldLeft, MapThenFoldSet, Retained
<1> HIDE DEF n, step
<1>4. PICK f : Solves(f, n, A, base, step) BY <1>1, <1>2, FoldExists
<1>5. /\ f \in [SUBSET (1..n) -> A]
      /\ \A T \in SUBSET (1..n) : f[T] = IF T = {} THEN base ELSE step[Max(T)][f[T \ {Max(T)}]]
  BY <1>4 DEF Solves
<1>6. \A T \in SUBSET (1..n) : T # {} => Max(T) \in 1..n /\ T \ {Max(T)} \in SUBSET (1..n)
  BY <1>1, MaxIsIn
<1>7. Fix(iter)
  <2>1. ASSUME NEW T \in SUBSET (1..n)
        PROVE  f[T] = IF T = {} THEN base ELSE IF seq[Max(T)] \in ids THEN f[T \ {Max(T)}] ELSE Append(f[T \ {Max(T)}], seq[Max(T)])
    <3>1. T # {} => f[T \ {Max(T)}] \in A BY <1>5, <1>6
    <3> QED BY <1>2, <1>5, <1>6, <3>1
  <2>2. Fix(f) BY <1>5, <2>1
  <2> QED BY <2>2
<1> HIDE DEF iter
<1>8. \A T \in SUBSET (1..n) :
        iter[T] = IF T = {} THEN base ELSE IF seq[Max(T)] \in ids THEN iter[T \ {Max(T)}] ELSE Append(iter[T \ {Max(T)}], seq[Max(T)])
  BY <1>7
<1> HIDE DEF Fix
<1>9. iter[{}] = base BY <1>8
<1>10. Unwinds(iter, n, A, base, step)
  <2>1. ASSUME NEW T \in SUBSET (1..n), T # {}, iter[T \ {Max(T)}] \in A
        PROVE  iter[T] = step[Max(T)][iter[T \ {Max(T)}]]
    BY <1>2, <1>6, <1>8, <2>1
  <2> QED BY <1>9, <2>1 DEF Unwinds
<1>11. PICK pre : Follows(pre, n, A, base, step) /\ iter[1..n] = pre[n]
  BY <1>1, <1>2, <1>10, PrefixesOf
<1>12. /\ Along(pre, n, A, base) /\ iter[1..n] = pre[n]
       /\ \A k \in 1..n : pre[k] = step[k][pre[k - 1]]
  BY <1>11 DEF Follows
<1>13. \A k \in 1..n : pre[k] = IF seq[k] \in ids THEN pre[k - 1] ELSE Append(pre[k - 1], seq[k])
  <2> TAKE k \in 1..n
  <2>1. pre[k - 1] \in A BY <1>1, <1>12, PrefixFacts DEF Along
  <2> QED BY <1>2, <1>12, <2>1
<1> QED BY <1>3, <1>12, <1>13 DEF n, RetainsTo

LEMMA SumFold ==
  ASSUME NEW A, NEW base \in A, NEW S, NEW seq \in Seq(S),
         \A a \in A, i \in 1..Len(seq) : (a + PagesOf(seq[i])) \in A
  PROVE  \E pre : SumsTo(pre, base, seq, A)
<1> DEFINE n == Len(seq)
           step == [i \in 1..n |-> [a \in A |-> (a + PagesOf(seq[i]))]]
           Fix(f) == f = [T \in SUBSET (1..n) |->
                            IF T = {} THEN base
                            ELSE (f[T \ {Max(T)}] + PagesOf(seq[Max(T)]))]
           iter == CHOOSE f : Fix(f)
<1>1. n \in Nat /\ DOMAIN seq = 1..n OBVIOUS
<1>2. step \in [1..n -> [A -> A]] /\ \A i \in 1..n, a \in A : step[i][a] = (a + PagesOf(seq[i]))
  OBVIOUS
<1>3. Summed(base, seq) = iter[1..n]
  BY <1>1, Zenon DEF FoldLeft, MapThenFoldSet, Summed
<1> HIDE DEF n, step
<1>4. PICK f : Solves(f, n, A, base, step) BY <1>1, <1>2, FoldExists
<1>5. /\ f \in [SUBSET (1..n) -> A]
      /\ \A T \in SUBSET (1..n) : f[T] = IF T = {} THEN base ELSE step[Max(T)][f[T \ {Max(T)}]]
  BY <1>4 DEF Solves
<1>6. \A T \in SUBSET (1..n) : T # {} => Max(T) \in 1..n /\ T \ {Max(T)} \in SUBSET (1..n)
  BY <1>1, MaxIsIn
<1>7. Fix(iter)
  <2>1. ASSUME NEW T \in SUBSET (1..n)
        PROVE  f[T] = IF T = {} THEN base ELSE (f[T \ {Max(T)}] + PagesOf(seq[Max(T)]))
    <3>1. T # {} => f[T \ {Max(T)}] \in A BY <1>5, <1>6
    <3> QED BY <1>2, <1>5, <1>6, <3>1
  <2>2. Fix(f) BY <1>5, <2>1
  <2> QED BY <2>2
<1> HIDE DEF iter
<1>8. \A T \in SUBSET (1..n) :
        iter[T] = IF T = {} THEN base ELSE (iter[T \ {Max(T)}] + PagesOf(seq[Max(T)]))
  BY <1>7
<1> HIDE DEF Fix
<1>9. iter[{}] = base BY <1>8
<1>10. Unwinds(iter, n, A, base, step)
  <2>1. ASSUME NEW T \in SUBSET (1..n), T # {}, iter[T \ {Max(T)}] \in A
        PROVE  iter[T] = step[Max(T)][iter[T \ {Max(T)}]]
    BY <1>2, <1>6, <1>8, <2>1
  <2> QED BY <1>9, <2>1 DEF Unwinds
<1>11. PICK pre : Follows(pre, n, A, base, step) /\ iter[1..n] = pre[n]
  BY <1>1, <1>2, <1>10, PrefixesOf
<1>12. /\ Along(pre, n, A, base) /\ iter[1..n] = pre[n]
       /\ \A k \in 1..n : pre[k] = step[k][pre[k - 1]]
  BY <1>11 DEF Follows
<1>13. \A k \in 1..n : pre[k] = (pre[k - 1] + PagesOf(seq[k]))
  <2> TAKE k \in 1..n
  <2>1. pre[k - 1] \in A BY <1>1, <1>12, PrefixFacts DEF Along
  <2> QED BY <1>2, <1>12, <2>1
<1> QED BY <1>3, <1>12, <1>13 DEF n, SumsTo

Distinct(seq) == \A i, j \in 1..Len(seq) : seq[i] = seq[j] => i = j
Among(seq) == {seq[i] : i \in 1..Len(seq)}

LEMMA AppendFacts ==
  ASSUME NEW S, NEW seq \in Seq(S), NEW x \in S
  PROVE  /\ Append(seq, x) \in Seq(S) /\ Len(Append(seq, x)) = Len(seq) + 1
         /\ \A i \in 1..Len(seq) : Append(seq, x)[i] = seq[i]
         /\ Append(seq, x)[Len(seq) + 1] = x
         /\ Among(Append(seq, x)) = Among(seq) \union {x}
         /\ x \notin Among(seq) /\ Distinct(seq) => Distinct(Append(seq, x))
<1>1. /\ Append(seq, x) \in Seq(S) /\ Len(Append(seq, x)) = Len(seq) + 1
      /\ \A i \in 1..Len(seq) : Append(seq, x)[i] = seq[i]
      /\ Append(seq, x)[Len(seq) + 1] = x
  BY AppendProperties
<1>2. PICK t : t = Append(seq, x) OBVIOUS
<1>3. PICK n \in Nat : n = Len(seq) OBVIOUS
<1>4. \A i \in 1..(n + 1) : t[i] = IF i = n + 1 THEN x ELSE seq[i]
  <2> TAKE i \in 1..(n + 1)
  <2>1. CASE i = n + 1 BY <1>1, <1>2, <1>3, <2>1
  <2>2. CASE i # n + 1
    <3>1. i \in 1..n BY <1>3, <2>2
    <3> QED BY <1>1, <1>2, <1>3, <2>2, <3>1
  <2> QED BY <2>1, <2>2
<1>5. Among(t) = Among(seq) \union {x}
  <2>1. \A i \in 1..n : i \in 1..(n + 1) /\ i # n + 1 BY <1>3
  <2>2. \A i \in 1..(n + 1) : i # n + 1 => i \in 1..n BY <1>3
  <2>3. n + 1 \in 1..(n + 1) BY <1>3
  <2>4. Among(t) = {t[i] : i \in 1..(n + 1)} BY <1>1, <1>2, <1>3 DEF Among
  <2>5. Among(seq) = {seq[i] : i \in 1..n} BY <1>3 DEF Among
  <2>6. ASSUME NEW y \in Among(t) PROVE y \in Among(seq) \union {x}
    BY <1>4, <2>2, <2>4, <2>5, <2>6
  <2>7. Among(seq) \subseteq Among(t) BY <1>4, <2>1, <2>4, <2>5
  <2>8. x \in Among(t) BY <1>4, <2>3, <2>4
  <2> QED BY <2>6, <2>7, <2>8
<1>6. ASSUME x \notin Among(seq), Distinct(seq) PROVE Distinct(t)
  <2>1. \A i \in 1..(n + 1) : i # n + 1 => i \in 1..n /\ seq[i] # x
    <3>1. \A i \in 1..n : seq[i] # x BY <1>3, <1>6 DEF Among
    <3>2. \A i \in 1..(n + 1) : i # n + 1 => i \in 1..n BY <1>3
    <3> QED BY <3>1, <3>2
  <2>2. \A i, j \in 1..n : seq[i] = seq[j] => i = j BY <1>3, <1>6 DEF Distinct
  <2>3. \A i, j \in 1..(n + 1) : t[i] = t[j] => i = j BY <1>4, <2>1, <2>2
  <2> QED BY <1>1, <1>2, <1>3, <2>3 DEF Distinct
<1> QED BY <1>1, <1>2, <1>5, <1>6

\* Removing ids from a queue leaves the others, once each.
LEMMA WithoutKeeps ==
  ASSUME NEW S, NEW seq \in Seq(S), Distinct(seq), NEW ids, NEW out,
         out = Without(seq, ids)
  PROVE  out \in Seq(S) /\ Distinct(out) /\ Among(out) = Among(seq) \ ids
<1> DEFINE A == Seq(S)
           upto(k) == {seq[i] : i \in 1..k}
<1>1. PICK n \in Nat : n = Len(seq) OBVIOUS
<1>2. PICK pre : RetainsTo(pre, ids, <<>>, seq, A) /\ out = Retained(ids, <<>>, seq)
  <2>1. \A a \in A, i \in 1..Len(seq) : (IF seq[i] \in ids THEN a ELSE Append(a, seq[i])) \in A
    OBVIOUS
  <2>2. <<>> \in A OBVIOUS
  <2> HIDE DEF A
  <2>3. out = Retained(ids, <<>>, seq) BY Zenon DEF Without, Retained
  <2> QED BY <2>1, <2>2, <2>3, RetainFold DEF A
<1>3. /\ pre \in [0..n -> Seq(S)] /\ pre[0] = <<>> /\ out = pre[n]
      /\ \A k \in 1..n : pre[k] = IF seq[k] \in ids THEN pre[k - 1] ELSE Append(pre[k - 1], seq[k])
  BY <1>1, <1>2 DEF RetainsTo, Along
<1> DEFINE P == {k \in 0..n : Distinct(pre[k]) /\ Among(pre[k]) = upto(k) \ ids}
<1>4. 0 \in P
  <2>1. Distinct(<<>>) /\ Among(<<>>) = {} /\ upto(0) = {} BY DEF Distinct, Among
  <2> QED BY <1>1, <1>3, <2>1
<1>5. ASSUME NEW k \in 1..n, k - 1 \in P PROVE k \in P
  <2>1. k \in 0..n /\ k - 1 \in 0..n /\ k \in 1..Len(seq) BY <1>1
  <2>2. upto(k) = upto(k - 1) \union {seq[k]}
    <3>1. \A i \in 1..k : i = k \/ i \in 1..(k - 1) BY <1>1
    <3>2. \A i \in 1..(k - 1) : i \in 1..k BY <1>1
    <3>3. k \in 1..k BY <1>1
    <3> QED BY <3>1, <3>2, <3>3
  <2>3. seq[k] \notin upto(k - 1)
    <3>1. \A i \in 1..(k - 1) : i \in 1..Len(seq) /\ i # k BY <1>1
    <3> QED BY <2>1, <3>1 DEF Distinct
  <2>4. pre[k - 1] \in Seq(S) /\ seq[k] \in S BY <1>3, <2>1
  <2>5. Distinct(pre[k - 1]) /\ Among(pre[k - 1]) = upto(k - 1) \ ids BY <1>5
  <2> HIDE DEF upto
  <2>6. CASE seq[k] \in ids
    <3>1. pre[k] = pre[k - 1] BY <1>3, <2>6
    <3> QED BY <2>1, <2>2, <2>5, <2>6, <3>1
  <2>7. CASE seq[k] \notin ids
    <3>1. pre[k] = Append(pre[k - 1], seq[k]) BY <1>3, <2>7
    <3>2. Among(pre[k]) = Among(pre[k - 1]) \union {seq[k]} /\ Distinct(pre[k])
      BY <2>3, <2>4, <2>5, <3>1, AppendFacts
    <3> QED BY <2>1, <2>2, <2>5, <2>7, <3>2
  <2> QED BY <2>6, <2>7
<1>6. n \in P
  <2> HIDE DEF P
  <2>1. \A k \in 0..n : k \in P BY <1>4, <1>5, PrefixInduction
  <2> QED BY <2>1
<1>7. upto(n) = Among(seq) BY <1>1 DEF Among
<1>8. out \in Seq(S) BY <1>3
<1> HIDE DEF upto
<1> QED BY <1>3, <1>6, <1>7, <1>8

LEMMA SeqFacts ==
  ASSUME NEW S, NEW s \in Seq(S)
  PROVE  /\ Len(s) \in Nat /\ DOMAIN s = 1..Len(s) /\ Range(s) = Among(s)
         /\ \A i \in 1..Len(s) : s[i] \in S
BY DEF Range, Among

LEMMA SeqWider ==
  ASSUME NEW S, NEW T, S \subseteq T, NEW s \in Seq(S)
  PROVE  s \in Seq(T)
<1>1. PICK n \in Nat : n = Len(s) OBVIOUS
<1>2. s = [i \in 1..n |-> s[i]] /\ \A i \in 1..n : s[i] \in T BY <1>1
<1> QED BY <1>2

LEMMA DistinctLength ==
  ASSUME NEW S, NEW seq \in Seq(S), Distinct(seq), Among(seq) = S
  PROVE  Len(seq) = Cardinality(S)
<1>1. PICK n \in Nat : n = Len(seq) OBVIOUS
<1>2. IsFiniteSet(1..n) /\ Cardinality(1..n) = n
  <2>1. IsFiniteSet(1..n) /\ Cardinality(1..n) = IF 1 > n THEN 0 ELSE n - 1 + 1 BY FS_Interval
  <2> QED BY <1>1, <2>1
<1>3. PICK f : f = [i \in 1..n |-> seq[i]] OBVIOUS
<1>4. f \in [1..n -> S] /\ \A i \in 1..n : f[i] = seq[i] BY <1>1, <1>3
<1>5. \A i, j \in 1..n : f[i] = f[j] => i = j BY <1>1, <1>4 DEF Distinct
<1>6. \A x \in S : \E i \in 1..n : f[i] = x BY <1>1, <1>4 DEF Among
<1>7. f \in Surjection(1..n, S) BY <1>4, <1>6 DEF Surjection
<1>8. IsFiniteSet(S) /\ Cardinality(S) <= n BY <1>2, <1>7, FS_Surjection
<1>9. f \in Injection(1..n, S) BY <1>4, <1>5 DEF Injection, IsInjective
<1>10. n <= Cardinality(S) BY <1>2, <1>8, <1>9, FS_Injection
<1>11. Cardinality(S) \in Nat BY <1>8, FS_CardinalityType
<1> QED BY <1>1, <1>8, <1>10, <1>11

LEMMA SeqOver ==
  ASSUME NEW S, NEW s \in Seq(S), NEW R, Among(s) \subseteq R
  PROVE  s \in Seq(R)
<1>1. PICK n \in Nat : n = Len(s) OBVIOUS
<1>2. s = [i \in 1..n |-> s[i]] /\ \A i \in 1..n : s[i] \in R BY <1>1 DEF Among
<1> QED BY <1>2

StrictOrder(S, before) ==
  /\ \A v \in S : <<v, v>> \notin before
  /\ \A u, v, w \in S : <<u, v>> \in before /\ <<v, w>> \in before => <<u, w>> \in before
  /\ \A v, w \in S : v = w \/ <<v, w>> \in before \/ <<w, v>> \in before

\* The pages of a list of keys, key by key.
LEMMA PagesAlong ==
  ASSUME NEW T, NEW seq \in Seq(Seq(T)), Block \in Nat \ {0}
  PROVE  /\ \A k \in Seq(T) : PagesOf(k) \in Nat
         /\ \E pre : SumsTo(pre, 0, seq, Nat) /\ PagesIn(seq) = pre[Len(seq)]
<1>1. ASSUME NEW k \in Seq(T) PROVE PagesOf(k) \in Nat
  <2>1. PICK n \in Nat : n = Len(k) OBVIOUS
  <2> QED BY <2>1, DivMod DEF PagesOf
<1>2. \A a \in Nat, i \in 1..Len(seq) : (a + PagesOf(seq[i])) \in Nat
  <2> TAKE a \in Nat, i \in 1..Len(seq)
  <2>1. seq[i] \in Seq(T) OBVIOUS
  <2>2. PagesOf(seq[i]) \in Nat BY <1>1, <2>1
  <2> QED BY <2>2
<1>3. \E pre : SumsTo(pre, 0, seq, Nat)
  <2>1. 0 \in Nat OBVIOUS
  <2> QED BY <1>2, <2>1, SumFold
<1>4. PagesIn(seq) = Summed(0, seq) BY Zenon DEF PagesIn, Summed
<1> QED BY <1>1, <1>3, <1>4 DEF SumsTo

\* Two lists that agree up to k have the same pages up to k.
LEMMA SumsSame ==
  ASSUME NEW S, NEW s \in Seq(S), NEW t \in Seq(S), NEW m \in Nat,
         m <= Len(s), m <= Len(t), \A i \in 1..m : s[i] = t[i],
         NEW f, SumsTo(f, 0, s, Nat), NEW g, SumsTo(g, 0, t, Nat)
  PROVE  f[m] = g[m]
<1>1. PICK a \in Nat : a = Len(s) OBVIOUS
<1>2. PICK b \in Nat : b = Len(t) OBVIOUS
<1>3. \A k \in 1..m : f[k] = f[k - 1] + PagesOf(s[k])
  <2>1. \A k \in 1..m : k \in 1..a BY <1>1
  <2> QED BY <1>1, <2>1 DEF SumsTo
<1>4. \A k \in 1..m : g[k] = g[k - 1] + PagesOf(t[k])
  <2>1. \A k \in 1..m : k \in 1..b BY <1>2
  <2> QED BY <1>2, <2>1 DEF SumsTo
<1>5. f[0] = 0 /\ g[0] = 0 BY DEF SumsTo, Along
<1> DEFINE P == {k \in 0..m : f[k] = g[k]}
<1>6. 0 \in P BY <1>5
<1>7. ASSUME NEW k \in 1..m, k - 1 \in P PROVE k \in P
  <2>1. f[k - 1] = g[k - 1] /\ s[k] = t[k] BY <1>7
  <2>2. f[k] = g[k] BY <1>3, <1>4, <2>1
  <2>3. k \in 0..m OBVIOUS
  <2> QED BY <2>2, <2>3
<1>8. m \in P
  <2> HIDE DEF P
  <2>1. \A k \in 0..m : k \in P BY <1>6, <1>7, PrefixInduction
  <2> QED BY <2>1
<1> QED BY <1>8

LEMMA PagesAppend ==
  ASSUME NEW T, NEW s \in Seq(Seq(T)), NEW x \in Seq(T), Block \in Nat \ {0}
  PROVE  /\ PagesIn(s) \in Nat /\ PagesIn(Append(s, x)) = PagesIn(s) + PagesOf(x) /\ PagesIn(<<>>) = 0
<1> DEFINE S == Seq(T)
<1> HIDE DEF S
<1>0. s \in Seq(S) /\ x \in S BY DEF S
<1>1. PICK t \in Seq(S) : t = Append(s, x) /\ Len(t) = Len(s) + 1 /\ t[Len(s) + 1] = x /\ \A i \in 1..Len(s) : t[i] = s[i]
  <2>1. /\ Append(s, x) \in Seq(S) /\ Len(Append(s, x)) = Len(s) + 1 /\ Append(s, x)[Len(s) + 1] = x
        /\ \A i \in 1..Len(s) : Append(s, x)[i] = s[i]
    BY <1>0, AppendFacts
  <2> QED BY <2>1, Zenon
<1>2. PICK n \in Nat : n = Len(s) OBVIOUS
<1>3. PICK f : SumsTo(f, 0, s, Nat) /\ PagesIn(s) = f[n] BY <1>2, PagesAlong
<1>4. PICK g : SumsTo(g, 0, t, Nat) /\ PagesIn(t) = g[n + 1]
  <2>1. \E g : SumsTo(g, 0, t, Nat) /\ PagesIn(t) = g[Len(t)] BY PagesAlong DEF S
  <2> QED BY <1>1, <1>2, <2>1
<1>5. f[n] = g[n]
  <2>1. n <= Len(s) /\ n <= Len(t) /\ \A i \in 1..n : s[i] = t[i] BY <1>1, <1>2
  <2> QED BY <1>0, <1>3, <1>4, <2>1, SumsSame
<1>6. n + 1 \in 1..Len(t) /\ (n + 1) - 1 = n BY <1>1, <1>2
<1>7. g[n + 1] = g[n] + PagesOf(x) BY <1>1, <1>2, <1>4, <1>6 DEF SumsTo
<1>8. f[n] \in Nat
  <2>1. f \in [0..n -> Nat] BY <1>2, <1>3 DEF SumsTo, Along
  <2> QED BY <2>1
<1>9. PagesIn(<<>>) = 0
  <2>1. PICK e \in Seq(S) : e = <<>> /\ Len(e) = 0
    <3>1. <<>> \in Seq(S) /\ Len(<<>>) = 0 OBVIOUS
    <3> QED BY <3>1
  <2>2. \E h : SumsTo(h, 0, e, Nat) /\ PagesIn(e) = h[Len(e)] BY PagesAlong DEF S
  <2>3. PICK h : SumsTo(h, 0, e, Nat) /\ PagesIn(e) = h[0] BY <2>1, <2>2
  <2> QED BY <2>1, <2>3 DEF SumsTo, Along
<1> QED BY <1>1, <1>3, <1>4, <1>5, <1>7, <1>8, <1>9

\* The pages up to k, as a cut of the list.
LEMMA PagesCut ==
  ASSUME NEW T, NEW s \in Seq(Seq(T)), Block \in Nat \ {0},
         NEW f, SumsTo(f, 0, s, Nat), NEW m \in 0..Len(s)
  PROVE  PagesIn(SubSeq(s, 1, m)) = f[m]
<1> DEFINE S == Seq(T)
<1> HIDE DEF S
<1>0. s \in Seq(S) BY DEF S
<1>1. PICK t \in Seq(S) : t = SubSeq(s, 1, m) /\ Len(t) = m /\ \A i \in 1..m : t[i] = s[i] BY <1>0, CutFacts
<1>2. PICK g : SumsTo(g, 0, t, Nat) /\ PagesIn(t) = g[m]
  <2>1. \E g : SumsTo(g, 0, t, Nat) /\ PagesIn(t) = g[Len(t)] BY PagesAlong DEF S
  <2> QED BY <1>1, <2>1
<1>3. m \in Nat /\ m <= Len(s) /\ m <= Len(t) BY <1>1
<1>4. \A i \in 1..m : s[i] = t[i] BY <1>1
<1>5. f[m] = g[m]
  <2>1. SumsTo(g, 0, t, Nat) /\ t \in Seq(S) /\ SumsTo(f, 0, s, Nat) BY <1>1, <1>2
  <2> QED BY <1>0, <1>3, <1>4, <2>1, SumsSame
<1> QED BY <1>1, <1>2, <1>5

\* Taking a key out of a list takes its pages out.
LEMMA PagesWithout ==
  ASSUME NEW T, NEW s \in Seq(Seq(T)), Block \in Nat \ {0}, Distinct(s), NEW x \in Among(s)
  PROVE  PagesIn(Without(s, {x})) = PagesIn(s) - PagesOf(x)
<1>1. PICK n \in Nat : n = Len(s) OBVIOUS
<1>2. PICK f : SumsTo(f, 0, s, Nat) /\ PagesIn(s) = f[n] BY <1>1, PagesAlong
<1>3. f \in [0..n -> Nat] /\ f[0] = 0 /\ \A k \in 1..n : f[k] = f[k - 1] + PagesOf(s[k])
  BY <1>1, <1>2 DEF SumsTo, Along
<1>4. PICK w : /\ w \in [0..n -> Seq(Seq(T))] /\ w[0] = <<>> /\ Without(s, {x}) = w[n]
               /\ \A k \in 1..n : w[k] = IF s[k] \in {x} THEN w[k - 1] ELSE Append(w[k - 1], s[k])
  <2>1. \A a \in Seq(Seq(T)), i \in 1..Len(s) : (IF s[i] \in {x} THEN a ELSE Append(a, s[i])) \in Seq(Seq(T)) OBVIOUS
  <2>2. <<>> \in Seq(Seq(T)) OBVIOUS
  <2>3. PICK w : RetainsTo(w, {x}, <<>>, s, Seq(Seq(T))) BY <2>1, <2>2, RetainFold
  <2>4. Without(s, {x}) = Retained({x}, <<>>, s) BY Zenon DEF Without, Retained
  <2> QED BY <1>1, <2>3, <2>4 DEF RetainsTo, Along
<1>5. PICK j \in 1..n : s[j] = x /\ \A i \in 1..n : s[i] = x => i = j BY <1>1 DEF Among, Distinct
<1>6. \A k \in 1..n : s[k] \in Seq(T) /\ PagesOf(s[k]) \in Nat BY <1>1, PagesAlong
<1> DEFINE P == {k \in 0..n : PagesIn(w[k]) = IF k < j THEN f[k] ELSE f[k] - PagesOf(x)}
<1>7. 0 \in P
  <2>1. PagesIn(<<>>) = 0
    <3>1. <<>> \in Seq(Seq(T)) /\ s[j] \in Seq(T) BY <1>6
    <3> QED BY <3>1, PagesAppend
  <2> QED BY <1>3, <1>4, <1>5, <2>1
<1>8. ASSUME NEW k \in 1..n, k - 1 \in P PROVE k \in P
  <2>1. k \in 0..n /\ k - 1 \in 0..n BY <1>8
  <2>2. f[k] \in Nat /\ f[k - 1] \in Nat /\ f[k] = f[k - 1] + PagesOf(s[k]) /\ PagesOf(s[k]) \in Nat /\ w[k - 1] \in Seq(Seq(T)) /\ s[k] \in Seq(T)
    BY <1>3, <1>4, <1>6, <2>1
  <2>3. PagesIn(w[k - 1]) = IF k - 1 < j THEN f[k - 1] ELSE f[k - 1] - PagesOf(x) BY <1>8
  <2>4. CASE k = j
    <3>1. w[k] = w[k - 1] /\ PagesOf(s[k]) = PagesOf(x) BY <1>4, <1>5, <2>4
    <3>2. PagesIn(w[k]) = f[k - 1] BY <2>3, <2>4, <3>1
    <3> QED BY <2>1, <2>2, <2>4, <3>1, <3>2
  <2>5. CASE k # j
    <3>1. w[k] = Append(w[k - 1], s[k]) BY <1>4, <1>5, <2>5
    <3>2. PagesIn(w[k]) = PagesIn(w[k - 1]) + PagesOf(s[k]) BY <2>2, <3>1, PagesAppend
    <3>3. (k - 1 < j) <=> (k < j) BY <2>5
    <3>4. PagesOf(x) \in Nat BY <1>5, <1>6
    <3>5. PagesIn(w[k]) = IF k < j THEN f[k] ELSE f[k] - PagesOf(x) BY <2>2, <2>3, <3>2, <3>3, <3>4
    <3> QED BY <2>1, <3>5
  <2> QED BY <2>4, <2>5
<1>9. n \in P
  <2> HIDE DEF P
  <2>1. \A k \in 0..n : k \in P BY <1>7, <1>8, PrefixInduction
  <2> QED BY <2>1
<1> QED BY <1>2, <1>4, <1>5, <1>9

-----------------------------------------------------------------------------
(* The tree *)

\* The prefix of `p` of length `n`.
Stem(p, n) == SubSeq(p, 1, n)

\* A finite set of token sequences closed under prefixes, with the keys in it.
Tree(c, T) ==
  /\ c.nodes \in SUBSET Seq(T) /\ Root \notin c.nodes /\ IsFiniteSet(c.nodes)
  /\ \A p \in c.nodes : \A j \in 1..Len(p) : Stem(p, j) \in c.nodes
  /\ Keys(c) \subseteq c.nodes

LEMMA CutPrefix ==
  ASSUME NEW T, NEW p \in Seq(T), NEW n \in 0..Len(p)
  PROVE  /\ Stem(p, n) \in Seq(T) /\ Len(Stem(p, n)) = n /\ IsPrefix(Stem(p, n), p)
         /\ \A q \in Seq(T) : IsPrefix(Stem(p, n), q) <=> n <= Len(q) /\ \A i \in 1..n : q[i] = p[i]
         /\ \A q \in Seq(T) : Len(q) = n /\ IsPrefix(q, p) => q = Stem(p, n)
         /\ \A q \in Seq(T) : Len(q) = n /\ IsPrefix(Stem(p, n), q) => q = Stem(p, n)
         /\ \A j \in 0..n : Stem(Stem(p, n), j) = Stem(p, j)
<1>1. PICK w \in Seq(T) : w = Stem(p, n) BY CutFacts DEF Stem
<1>2. Len(w) = n /\ \A i \in 1..n : w[i] = p[i] BY <1>1, CutFacts DEF Stem
<1>3. IsPrefix(w, p) BY <1>2, PrefixIs
<1>4. \A q \in Seq(T) : IsPrefix(w, q) <=> n <= Len(q) /\ \A i \in 1..n : q[i] = p[i]
  <2> TAKE q \in Seq(T)
  <2>1. IsPrefix(w, q) <=> Len(w) <= Len(q) /\ \A i \in 1..Len(w) : w[i] = q[i] BY PrefixIs
  <2>2. (\A i \in 1..n : w[i] = q[i]) <=> (\A i \in 1..n : q[i] = p[i]) BY <1>2
  <2> QED BY <1>2, <2>1, <2>2
<1>5. ASSUME NEW q \in Seq(T), Len(q) = n, IsPrefix(q, p) PROVE q = w
  <2>1. \A i \in 1..n : q[i] = p[i] BY <1>5, PrefixIs
  <2> QED BY <1>2, <1>5, <2>1, SameSeq
<1>6. ASSUME NEW q \in Seq(T), Len(q) = n, IsPrefix(w, q) PROVE q = w
  <2>1. \A i \in 1..n : w[i] = q[i] BY <1>2, <1>6, PrefixIs
  <2> QED BY <1>2, <1>6, <2>1, SameSeq
<1>7. ASSUME NEW j \in 0..n PROVE Stem(w, j) = Stem(p, j)
  <2>1. j \in 0..Len(w) /\ j \in 0..Len(p) /\ \A i \in 1..j : i \in 1..n BY <1>2
  <2>2. /\ Stem(w, j) \in Seq(T) /\ Len(Stem(w, j)) = j /\ \A i \in 1..j : Stem(w, j)[i] = w[i]
        /\ Stem(p, j) \in Seq(T) /\ Len(Stem(p, j)) = j /\ \A i \in 1..j : Stem(p, j)[i] = p[i]
    BY <2>1, CutFacts DEF Stem
  <2> QED BY <1>2, <2>1, <2>2, SameSeq
<1> QED BY <1>1, <1>2, <1>3, <1>4, <1>5, <1>6, <1>7

LEMMA PrefixOrder ==
  ASSUME NEW T, NEW p \in Seq(T), NEW q \in Seq(T), NEW r \in Seq(T)
  PROVE  /\ IsPrefix(p, p) /\ IsPrefix(Root, p)
         /\ IsPrefix(p, q) /\ IsPrefix(q, r) => IsPrefix(p, r)
         /\ IsPrefix(p, r) /\ IsPrefix(q, r) /\ Len(p) <= Len(q) => IsPrefix(p, q)
         /\ IsPrefix(p, q) => Len(p) <= Len(q) /\ (Len(p) = Len(q) => p = q)
<1>1. Root \in Seq(T) /\ Len(Root) = 0 BY DEF Root
<1>2. PICK a \in Nat : a = Len(p) OBVIOUS
<1>3. PICK b \in Nat : b = Len(q) OBVIOUS
<1>4. PICK d \in Nat : d = Len(r) OBVIOUS
<1>5. IsPrefix(p, p) /\ IsPrefix(Root, p)
  <2>1. IsPrefix(p, p) <=> Len(p) <= Len(p) /\ \A i \in 1..Len(p) : p[i] = p[i] BY PrefixIs
  <2>2. PICK w \in Seq(T) : w = Root BY <1>1
  <2>3. IsPrefix(w, p) <=> Len(w) <= Len(p) /\ \A i \in 1..Len(w) : w[i] = p[i] BY PrefixIs
  <2>4. IsPrefix(w, p) BY <1>1, <1>2, <2>2, <2>3
  <2> QED BY <1>2, <2>1, <2>2, <2>4
<1>6. IsPrefix(p, q) <=> a <= b /\ \A i \in 1..a : p[i] = q[i] BY <1>2, <1>3, PrefixIs
<1>7. IsPrefix(q, r) <=> b <= d /\ \A i \in 1..b : q[i] = r[i] BY <1>3, <1>4, PrefixIs
<1>8. IsPrefix(p, r) <=> a <= d /\ \A i \in 1..a : p[i] = r[i] BY <1>2, <1>4, PrefixIs
<1>9. a <= b => \A i \in 1..a : i \in 1..b BY <1>2, <1>3
<1>10. IsPrefix(p, q) /\ a = b => p = q BY <1>2, <1>3, <1>6, SameSeq
<1> QED BY <1>2, <1>3, <1>4, <1>5, <1>6, <1>7, <1>8, <1>9, <1>10

\* What a cut of a key and the nodes below it have to do with each other.
LEMMA ChildOf ==
  ASSUME NEW c, NEW T, Tree(c, T), NEW q \in c.nodes, NEW m \in 0..(Len(q) - 1)
  PROVE  Stem(q, m + 1) \in Children(c, Stem(q, m))
<1>1. q \in Seq(T) /\ Len(q) \in Nat BY DEF Tree
<1>2. m + 1 \in 1..Len(q) /\ m \in 0..(m + 1) /\ m \in Nat BY <1>1
<1>3. Stem(q, m + 1) \in c.nodes BY <1>2 DEF Tree
<1>4. Stem(q, m + 1) \in Seq(T) /\ Len(Stem(q, m + 1)) = m + 1 BY <1>1, <1>2, CutPrefix
<1>5. Len(Stem(q, m)) = m BY <1>1, <1>2, CutPrefix
<1>6. IsPrefix(Stem(q, m), Stem(q, m + 1))
  <2>1. Stem(Stem(q, m + 1), m) = Stem(q, m) BY <1>1, <1>2, CutPrefix
  <2>2. IsPrefix(Stem(Stem(q, m + 1), m), Stem(q, m + 1)) BY <1>2, <1>4, CutPrefix
  <2> QED BY <2>1, <2>2
<1> QED BY <1>3, <1>4, <1>5, <1>6 DEF Children, Under

\* TrimFrom.
Lone(c, key, j) ==
  IF j = Len(key) THEN Children(c, key) = {}
  ELSE Stem(key, j) \notin Keys(c) /\ Cardinality(Children(c, Stem(key, j))) = 1

LEMMA TrimIs ==
  ASSUME NEW c, NEW T, Tree(c, T), NEW key \in Keys(c), NEW t, t = TrimFrom(c, key)
  PROVE  /\ Len(key) \in Nat \ {0} /\ t \in 1..(Len(key) + 1)
         /\ \A i \in t..Len(key) : Lone(c, key, i)
         /\ t > 1 => ~Lone(c, key, t - 1)
<1> DEFINE M == {j \in 1..Len(key) : \A i \in j..Len(key) : Lone(c, key, i)}
<1>1. key \in Seq(T) /\ key # Root BY DEF Tree
<1>2. PICK n \in Nat : n = Len(key) BY <1>1
<1>3. n # 0 BY <1>1, <1>2, EmptySeq DEF Root
<1>4. t = Min(M \union {n + 1}) BY <1>2, Zenon DEF TrimFrom, Lone, Stem
<1>5. M \union {n + 1} \subseteq 1..(n + 1) BY <1>2
<1>6. t \in M \union {n + 1} /\ \A y \in M \union {n + 1} : t <= y
  <2>1. M \union {n + 1} \subseteq Nat /\ M \union {n + 1} # {} BY <1>5
  <2> HIDE DEF M
  <2> QED BY <1>4, <2>1, MinIsIn
<1>7. \A i \in t..n : Lone(c, key, i)
  <2>1. CASE t \in M BY <1>2, <2>1
  <2>2. CASE t = n + 1 BY <1>2, <2>2
  <2> QED BY <1>6, <2>1, <2>2
<1>8. t \in 1..(n + 1) BY <1>5, <1>6
<1>9. ASSUME t > 1, Lone(c, key, t - 1) PROVE FALSE
  <2>1. t - 1 \in 1..n /\ \A i \in (t - 1)..n : i = t - 1 \/ i \in t..n BY <1>2, <1>8, <1>9
  <2>2. t - 1 \in M BY <1>2, <1>7, <1>9, <2>1
  <2> HIDE DEF M
  <2> QED BY <1>6, <1>8, <2>2
<1> QED BY <1>2, <1>3, <1>7, <1>8, <1>9

LEMMA TreeFinite ==
  ASSUME NEW c, NEW T, Tree(c, T), NEW p
  PROVE  IsFiniteSet(Children(c, p)) /\ IsFiniteSet(Under(Keys(c), p)) /\ IsFiniteSet(Keys(c))
<1>1. Children(c, p) \subseteq c.nodes BY DEF Children, Under
<1>2. Under(Keys(c), p) \subseteq c.nodes /\ Keys(c) \subseteq c.nodes BY DEF Under, Tree
<1> QED BY <1>1, <1>2, FS_Subset DEF Tree

\* Below the topmost lone node there is nothing but the way to the key.
LEMMA ChainBelow ==
  ASSUME NEW c, NEW T, Tree(c, T), NEW key \in Keys(c), NEW t \in 1..Len(key),
         \A i \in t..Len(key) : Lone(c, key, i),
         NEW q \in c.nodes, IsPrefix(Stem(key, t), q)
  PROVE  Len(q) \in t..Len(key) /\ q = Stem(key, Len(q))
<1>1. key \in Seq(T) /\ q \in Seq(T) /\ key \in c.nodes BY DEF Tree
<1>2. PICK n \in Nat : n = Len(key) BY <1>1
<1>3. PICK l \in Nat : l = Len(q) BY <1>1
<1> DEFINE I == {i \in t..n : i <= l /\ \A j \in 1..i : q[j] = key[j]}
<1>4. t \in I
  <2>1. t \in 0..Len(key) BY <1>2
  <2>2. t <= Len(q) /\ \A i \in 1..t : q[i] = key[i] BY <1>1, <2>1, CutPrefix
  <2> QED BY <1>2, <1>3, <2>2
<1>5. PICK m \in I : \A i \in I : i <= m
  <2>1. I \in SUBSET (1..n) BY <1>2
  <2> HIDE DEF I
  <2> QED BY <1>4, <2>1, MaxIsIn
<1>6. m \in t..n /\ m \in Nat /\ m <= l /\ \A j \in 1..m : q[j] = key[j] BY <1>2, <1>5
<1>7. m \in 0..Len(key) /\ m \in 0..Len(q) /\ m \in 1..Len(key) BY <1>2, <1>3, <1>6
<1>8. Stem(q, m) = Stem(key, m)
  <2>1. /\ Stem(q, m) \in Seq(T) /\ Len(Stem(q, m)) = m /\ \A i \in 1..m : Stem(q, m)[i] = q[i]
        /\ Stem(key, m) \in Seq(T) /\ Len(Stem(key, m)) = m /\ \A i \in 1..m : Stem(key, m)[i] = key[i]
    BY <1>1, <1>7, CutFacts DEF Stem
  <2> QED BY <1>6, <2>1, SameSeq
<1>9. m = l
  <2> SUFFICES ASSUME m # l PROVE FALSE OBVIOUS
  <2>1. m \in 0..(Len(q) - 1) /\ m < l BY <1>3, <1>6
  <2>2. Stem(q, m + 1) \in Children(c, Stem(key, m)) BY <1>8, <2>1, ChildOf
  <2>3. CASE m = n
    <3>1. Stem(key, m) = key BY <1>1, <1>2, <2>3, SubSeqFull DEF Stem
    <3>2. Lone(c, key, m) BY <1>2, <1>6
    <3>3. Children(c, key) = {} BY <1>2, <2>3, <3>2 DEF Lone
    <3> QED BY <2>2, <3>1, <3>3
  <2>4. CASE m # n
    <3>1. m \in 0..(Len(key) - 1) /\ m + 1 \in t..n /\ m + 1 \in 1..Len(key) BY <1>2, <1>6, <2>4
    <3>2. Stem(key, m + 1) \in Children(c, Stem(key, m)) BY <1>1, <3>1, ChildOf
    <3>3. Lone(c, key, m) BY <1>2, <1>6
    <3>4. Cardinality(Children(c, Stem(key, m))) = 1 BY <1>2, <2>4, <3>3 DEF Lone
    <3>5. Stem(q, m + 1) = Stem(key, m + 1) BY <2>2, <3>2, <3>4, TreeFinite, OneElement
    <3>6. m + 1 \in 0..Len(q) /\ m + 1 \in 0..Len(key) BY <1>2, <1>3, <2>1, <3>1
    <3>7. \A i \in 1..(m + 1) : q[i] = key[i]
      <4>1. \A i \in 1..(m + 1) : Stem(q, m + 1)[i] = q[i] /\ Stem(key, m + 1)[i] = key[i]
        BY <1>1, <3>6, CutFacts DEF Stem
      <4> QED BY <3>5, <4>1
    <3>8. m + 1 \in I BY <1>3, <2>1, <3>1, <3>7
    <3> HIDE DEF I
    <3> QED BY <1>5, <1>6, <3>8
  <2> QED BY <2>3, <2>4
<1>10. Stem(q, l) = q BY <1>1, <1>3, SubSeqFull DEF Stem
<1> QED BY <1>2, <1>3, <1>6, <1>8, <1>9, <1>10

-----------------------------------------------------------------------------
(* Caches *)

\* What every operation keeps of a cache over tokens T.  `pending` are paths
\* made for an insert that has not admitted its key yet.
Counts(c) == c.sub = [p \in c.nodes \union {Root} |-> Cardinality(Under(Keys(c), p))]
Listed(c) == /\ c.lru \in Seq(Keys(c)) /\ Distinct(c.lru) /\ Among(c.lru) = Keys(c)
             /\ c.cached = PagesIn(c.lru)
Grown(c, pending) == \A p \in c.nodes : Children(c, p) = {} => p \in Keys(c) \union pending
Paged(c) == \A k \in Keys(c) : Len(k) = PagesOf(k) * Block
IsCache(c) == /\ c = [nodes |-> c.nodes, sub |-> c.sub, entry |-> c.entry, lru |-> c.lru, cached |-> c.cached]
              /\ c.entry = [k \in Keys(c) |-> c.entry[k]]
Sound(c, T, pending) ==
  IsCache(c) /\ Tree(c, T) /\ Counts(c) /\ Listed(c) /\ Grown(c, pending) /\ Paged(c)

\* The keys, the nodes and the lists of a removal.
Removes(c, key, d) ==
  /\ d = [nodes |-> d.nodes, sub |-> d.sub, entry |-> d.entry, lru |-> d.lru, cached |-> d.cached]
  /\ Keys(d) = Keys(c) \ {key} /\ d.entry = [k \in Keys(c) \ {key} |-> c.entry[k]]
  /\ d.lru = Without(c.lru, {key}) /\ d.cached = c.cached - PagesOf(key)
  /\ d.sub = [p \in d.nodes \union {Root} |-> IF IsPrefix(p, key) THEN c.sub[p] - 1 ELSE c.sub[p]]
  /\ d.nodes \subseteq c.nodes
  /\ \A p \in c.nodes : p \notin d.nodes <=> TrimFrom(c, key) <= Len(key) /\ IsPrefix(Stem(key, TrimFrom(c, key)), p)

LEMMA RemoveIs ==
  ASSUME NEW c, NEW T, Tree(c, T), NEW key \in Keys(c), NEW d, d = RemoveEntry(c, key)
  PROVE  Removes(c, key, d)
<1>0. PICK t : t = TrimFrom(c, key) OBVIOUS
<1> DEFINE dropped == Under(c.nodes, Stem(key, t))
           nodes == IF t > Len(key) THEN c.nodes ELSE c.nodes \ dropped
           rest == Restrict(c.entry, Keys(c) \ {key})
<1>1. d = [nodes  |-> nodes,
           sub    |-> [p \in nodes \union {Root} |-> IF IsPrefix(p, key) THEN c.sub[p] - 1 ELSE c.sub[p]],
           entry  |-> rest, lru |-> Without(c.lru, {key}), cached |-> c.cached - PagesOf(key)]
  BY <1>0, Zenon DEF RemoveEntry, Stem
<1>2. rest = [k \in Keys(c) \ {key} |-> c.entry[k]] /\ DOMAIN rest = Keys(c) \ {key}
  BY DEF Restrict
<1>3. Len(key) \in Nat \ {0} /\ t \in 1..(Len(key) + 1) BY <1>0, TrimIs
<1>4. \A p \in c.nodes : p \notin nodes <=> t <= Len(key) /\ IsPrefix(Stem(key, t), p)
  <2>1. t > Len(key) <=> ~(t <= Len(key)) BY <1>3
  <2> QED BY <2>1 DEF Under
<1>5. nodes \subseteq c.nodes OBVIOUS
<1> HIDE DEF nodes, rest
<1>6. d.nodes = nodes /\ d.entry = rest /\ d.lru = Without(c.lru, {key}) /\ d.cached = c.cached - PagesOf(key)
      /\ d.sub = [p \in nodes \union {Root} |-> IF IsPrefix(p, key) THEN c.sub[p] - 1 ELSE c.sub[p]]
  BY <1>1
<1>7. d = [nodes |-> d.nodes, sub |-> d.sub, entry |-> d.entry, lru |-> d.lru, cached |-> d.cached]
  BY <1>1, <1>6
<1>8. Keys(d) = Keys(c) \ {key} BY <1>2, <1>6 DEF Keys
<1> QED BY <1>0, <1>2, <1>4, <1>5, <1>6, <1>7, <1>8 DEF Removes

\* Only nodes on the way to the key are dropped, none of them another key.
LEMMA DroppedIs ==
  ASSUME NEW c, NEW T, Tree(c, T), NEW key \in Keys(c), NEW d, d = RemoveEntry(c, key),
         NEW p \in c.nodes, p \notin d.nodes
  PROVE  /\ TrimFrom(c, key) \in 1..Len(key) /\ Len(p) \in TrimFrom(c, key)..Len(key) /\ p = Stem(key, Len(p))
         /\ IsPrefix(p, key) /\ (p \in Keys(c) => p = key)
<1>1. PICK t : t = TrimFrom(c, key) OBVIOUS
<1>2. t <= Len(key) /\ IsPrefix(Stem(key, t), p) BY <1>1, RemoveIs DEF Removes
<1>3. Len(key) \in Nat \ {0} /\ t \in 1..Len(key) /\ \A i \in t..Len(key) : Lone(c, key, i) BY <1>1, <1>2, TrimIs
<1>4. Len(p) \in t..Len(key) /\ p = Stem(key, Len(p)) BY <1>2, <1>3, ChainBelow
<1>5. key \in Seq(T) BY DEF Tree
<1>6. IsPrefix(p, key)
  <2>1. PICK l : l = Len(p) OBVIOUS
  <2>2. l \in 0..Len(key) BY <1>3, <1>4, <2>1
  <2>3. IsPrefix(Stem(key, l), key) BY <1>5, <2>2, CutPrefix
  <2> QED BY <1>4, <2>1, <2>3
<1>7. ASSUME p \in Keys(c) PROVE p = key
  <2>1. Lone(c, key, Len(p)) BY <1>3, <1>4
  <2>2. Len(p) = Len(key) BY <1>4, <1>7, <2>1 DEF Lone
  <2>3. Stem(key, Len(key)) = key BY <1>5, SubSeqFull DEF Stem
  <2> QED BY <1>4, <2>2, <2>3
<1> QED BY <1>1, <1>3, <1>4, <1>6, <1>7

LEMMA RemoveTree ==
  ASSUME NEW c, NEW T, Tree(c, T), NEW key \in Keys(c), NEW d, d = RemoveEntry(c, key)
  PROVE  Tree(d, T)
<1>1. /\ Keys(d) = Keys(c) \ {key} /\ d.nodes \subseteq c.nodes
  BY RemoveIs DEF Removes
<1>2. d.nodes \in SUBSET Seq(T) /\ Root \notin d.nodes /\ IsFiniteSet(d.nodes)
  BY <1>1, FS_Subset DEF Tree
<1>3. Keys(d) \subseteq d.nodes
  <2> SUFFICES ASSUME NEW k \in Keys(c), k # key, k \notin d.nodes PROVE FALSE BY <1>1
  <2>1. k \in c.nodes BY DEF Tree
  <2> QED BY <2>1, DroppedIs
<1>4. ASSUME NEW p \in d.nodes, NEW j \in 1..Len(p) PROVE Stem(p, j) \in d.nodes
  <2> SUFFICES ASSUME Stem(p, j) \notin d.nodes PROVE FALSE OBVIOUS
  <2>1. p \in c.nodes /\ p \in Seq(T) /\ key \in Seq(T) BY <1>1 DEF Tree
  <2>2. PICK q \in c.nodes : q = Stem(p, j) BY <2>1 DEF Tree
  <2>3. PICK t : t = TrimFrom(c, key) OBVIOUS
  <2>4. t <= Len(key) /\ IsPrefix(Stem(key, t), q) BY <2>2, <2>3, RemoveIs DEF Removes
  <2>5. IsPrefix(q, p)
    <3>1. j \in 0..Len(p) BY <2>1
    <3> QED BY <2>1, <2>2, <3>1, CutPrefix
  <2>6. t \in 0..Len(key) BY <2>3, <2>4, TrimIs
  <2>7. q \in Seq(T) /\ Stem(key, t) \in Seq(T) BY <2>1, <2>6, CutPrefix DEF Tree
  <2>8. IsPrefix(Stem(key, t), p) BY <2>1, <2>4, <2>5, <2>7, PrefixOrder
  <2>9. p \notin d.nodes BY <2>1, <2>3, <2>4, <2>8, RemoveIs DEF Removes
  <2> QED BY <2>9
<1> QED BY <1>2, <1>3, <1>4 DEF Tree

LEMMA RemoveCounts ==
  ASSUME NEW c, NEW T, Tree(c, T), Counts(c), NEW key \in Keys(c), NEW d, d = RemoveEntry(c, key)
  PROVE  Counts(d)
<1>1. /\ Keys(d) = Keys(c) \ {key} /\ d.nodes \subseteq c.nodes
      /\ d.sub = [p \in d.nodes \union {Root} |-> IF IsPrefix(p, key) THEN c.sub[p] - 1 ELSE c.sub[p]]
  <2>1. Removes(c, key, d) BY RemoveIs
  <2> QED BY <2>1, Zenon DEF Removes
<1>2. ASSUME NEW p \in d.nodes \union {Root}
      PROVE  (IF IsPrefix(p, key) THEN c.sub[p] - 1 ELSE c.sub[p]) = Cardinality(Under(Keys(d), p))
  <2>1. c.sub[p] = Cardinality(Under(Keys(c), p)) BY <1>1 DEF Counts
  <2>2. CASE IsPrefix(p, key)
    <3>1. key \in Under(Keys(c), p) /\ Under(Keys(d), p) = Under(Keys(c), p) \ {key} BY <1>1, <2>2 DEF Under
    <3>2. IsFiniteSet(Under(Keys(c), p)) BY TreeFinite
    <3>3. Cardinality(Under(Keys(c), p) \ {key}) = Cardinality(Under(Keys(c), p)) - 1 BY <3>1, <3>2, FewerLeft
    <3> QED BY <2>1, <2>2, <3>1, <3>3
  <2>3. CASE ~IsPrefix(p, key)
    <3>1. Under(Keys(d), p) = Under(Keys(c), p) BY <1>1, <2>3 DEF Under
    <3> QED BY <2>1, <2>3, <3>1
  <2> QED BY <2>2, <2>3
<1> QED BY <1>1, <1>2 DEF Counts

LEMMA RemoveGrown ==
  ASSUME NEW c, NEW T, Tree(c, T), NEW pending, Grown(c, pending),
         NEW key \in Keys(c), NEW d, d = RemoveEntry(c, key)
  PROVE  Grown(d, pending)
<1>1. Keys(d) = Keys(c) \ {key} /\ d.nodes \subseteq c.nodes BY RemoveIs DEF Removes
<1>2. PICK t : t = TrimFrom(c, key) OBVIOUS
<1>3. /\ Len(key) \in Nat \ {0} /\ t \in 1..(Len(key) + 1)
      /\ \A i \in t..Len(key) : Lone(c, key, i)
      /\ t > 1 => ~Lone(c, key, t - 1)
  BY <1>2, TrimIs
<1>4. key \in Seq(T) /\ key \in c.nodes /\ Stem(key, Len(key)) = key
  <2>1. key \in Seq(T) /\ key \in c.nodes BY DEF Tree
  <2> QED BY <2>1, SubSeqFull DEF Stem
<1> SUFFICES ASSUME NEW p \in d.nodes, Children(d, p) = {} PROVE p \in Keys(d) \union pending
  BY DEF Grown
<1>5. p \in c.nodes /\ p \in Seq(T) /\ Len(p) \in Nat \ {0}
  <2>1. p \in c.nodes /\ p \in Seq(T) /\ p # Root BY <1>1 DEF Tree
  <2> QED BY <2>1, EmptySeq DEF Root
<1>6. CASE Children(c, p) = {}
  <2>1. p \in Keys(c) \union pending BY <1>5, <1>6 DEF Grown
  <2>2. CASE p # key BY <1>1, <2>1, <2>2
  <2>3. CASE p = key
    <3>1. t = Len(key) + 1
      <4> SUFFICES ASSUME t <= Len(key) PROVE FALSE BY <1>3
      <4>1. t \in 0..Len(key) BY <1>3
      <4>2. IsPrefix(Stem(key, t), key) BY <1>4, <4>1, CutPrefix
      <4> QED BY <1>2, <1>4, <2>3, <4>2, RemoveIs DEF Removes
    <3>2. ~Lone(c, key, Len(key)) BY <1>3, <3>1
    <3> QED BY <1>6, <2>3, <3>2 DEF Lone
  <2> QED BY <2>2, <2>3
<1>7. CASE Children(c, p) # {}
  <2>1. \A q \in Children(c, p) : q \in c.nodes /\ q \notin d.nodes /\ IsPrefix(p, q) /\ Len(q) = Len(p) + 1
    BY <1>1 DEF Children, Under
  <2>2. PICK m \in Nat \ {0} : m = Len(p) BY <1>5
  <2>3. \A q \in Children(c, p) : t \in 1..Len(key) /\ m + 1 \in t..Len(key) /\ q = Stem(key, m + 1)
    BY <1>2, <2>1, <2>2, DroppedIs
  <2>4. t \in 1..Len(key) /\ m + 1 \in t..Len(key) BY <1>7, <2>3
  <2>5. Children(c, p) = {Stem(key, m + 1)} BY <1>7, <2>3
  <2>6. p = Stem(key, m)
    <3>1. m + 1 \in 0..Len(key) /\ m \in 0..(m + 1) /\ m \in 0..Len(key) BY <1>3, <2>4
    <3>2. IsPrefix(p, Stem(key, m + 1)) BY <2>1, <2>5
    <3>3. Stem(key, m + 1) \in Seq(T) /\ IsPrefix(Stem(key, m + 1), key) BY <1>4, <3>1, CutPrefix
    <3>4. IsPrefix(p, key) BY <1>4, <1>5, <3>2, <3>3, PrefixOrder
    <3> QED BY <1>4, <1>5, <2>2, <3>1, <3>4, CutPrefix
  <2>7. t = m + 1
    <3> SUFFICES ASSUME t <= m PROVE FALSE BY <1>3, <2>4
    <3>1. t \in 0..m /\ m \in 0..Len(key) BY <1>3, <2>4
    <3>2. Stem(key, m) \in Seq(T) /\ Len(Stem(key, m)) = m BY <1>4, <3>1, CutPrefix
    <3>3. t \in 0..Len(Stem(key, m)) BY <3>1, <3>2
    <3>4. IsPrefix(Stem(Stem(key, m), t), Stem(key, m)) BY <3>2, <3>3, CutPrefix
    <3>5. Stem(Stem(key, m), t) = Stem(key, t) BY <1>4, <3>1, CutPrefix
    <3>6. IsPrefix(Stem(key, t), p) BY <2>6, <3>4, <3>5
    <3>7. t <= Len(key) BY <1>3, <2>4
    <3> QED BY <1>2, <1>5, <3>6, <3>7, RemoveIs DEF Removes
  <2>8. ~Lone(c, key, m) /\ m # Len(key) BY <1>3, <2>4, <2>7
  <2>9. Cardinality(Children(c, p)) = 1
    <3>1. IsFiniteSet(Children(c, p)) BY TreeFinite
    <3> QED BY <2>5, <3>1, OneElement
  <2>10. p \in Keys(c) /\ p # key BY <2>2, <2>6, <2>8, <2>9 DEF Lone
  <2> QED BY <1>1, <2>10
<1> QED BY <1>6, <1>7

LEMMA RemoveSound ==
  ASSUME NEW c, NEW T, NEW pending, Sound(c, T, pending), Block \in Nat \ {0},
         NEW key \in Keys(c), NEW d, d = RemoveEntry(c, key)
  PROVE  Sound(d, T, pending)
<1>1. /\ d = [nodes |-> d.nodes, sub |-> d.sub, entry |-> d.entry, lru |-> d.lru, cached |-> d.cached]
      /\ Keys(d) = Keys(c) \ {key} /\ d.entry = [k \in Keys(c) \ {key} |-> c.entry[k]]
      /\ d.lru = Without(c.lru, {key}) /\ d.cached = c.cached - PagesOf(key)
  <2>1. Tree(c, T) BY DEF Sound
  <2>2. Removes(c, key, d) BY <2>1, RemoveIs
  <2> QED BY <2>2, Zenon DEF Removes
<1>2. IsCache(d)
  <2>1. d.entry = [k \in Keys(d) |-> d.entry[k]] BY <1>1
  <2> QED BY <1>1, <2>1 DEF IsCache
<1>3. Tree(d, T) /\ Counts(d) /\ Grown(d, pending) BY RemoveTree, RemoveCounts, RemoveGrown DEF Sound
<1>4. Listed(d)
  <2>1. c.lru \in Seq(Keys(c)) /\ Distinct(c.lru) /\ Among(c.lru) = Keys(c) /\ c.cached = PagesIn(c.lru)
    BY DEF Sound, Listed
  <2>2. d.lru \in Seq(Keys(c)) /\ Distinct(d.lru) /\ Among(d.lru) = Keys(d)
    BY <1>1, <2>1, WithoutKeeps
  <2>3. d.lru \in Seq(Keys(d)) BY <2>2, SeqOver
  <2>4. PagesIn(d.lru) = d.cached
    <3>1. Keys(c) \subseteq Seq(T) BY DEF Sound, Tree
    <3>2. c.lru \in Seq(Seq(T)) BY <2>1, <3>1, SeqWider
    <3> QED BY <1>1, <2>1, <3>2, PagesWithout
  <2> QED BY <2>2, <2>3, <2>4 DEF Listed
<1>5. Paged(d) BY <1>1 DEF Paged, Sound
<1> QED BY <1>2, <1>3, <1>4, <1>5 DEF Sound

-----------------------------------------------------------------------------
(* Evictions *)

\* The entries of a list removed one after the other.
Removed(base, seq) == FoldLeft(RemoveEntry, base, seq)
RemovesTo(pre, base, seq, A) ==
  /\ Along(pre, Len(seq), A, base) /\ Removed(base, seq) = pre[Len(seq)]
  /\ \A k \in 1..Len(seq) : pre[k] = RemoveEntry(pre[k - 1], seq[k])

LEMMA RemoveFold ==
  ASSUME NEW A, NEW base \in A, NEW S, NEW seq \in Seq(S),
         \A a \in A, i \in 1..Len(seq) : RemoveEntry(a, seq[i]) \in A
  PROVE  \E pre : RemovesTo(pre, base, seq, A)
<1> DEFINE n == Len(seq)
           step == [i \in 1..n |-> [a \in A |-> RemoveEntry(a, seq[i])]]
           Fix(f) == f = [T \in SUBSET (1..n) |->
                            IF T = {} THEN base
                            ELSE RemoveEntry(f[T \ {Max(T)}], seq[Max(T)])]
           iter == CHOOSE f : Fix(f)
<1>1. n \in Nat /\ DOMAIN seq = 1..n OBVIOUS
<1>2. step \in [1..n -> [A -> A]] /\ \A i \in 1..n, a \in A : step[i][a] = RemoveEntry(a, seq[i])
  OBVIOUS
<1>3. Removed(base, seq) = iter[1..n]
  BY <1>1, Zenon DEF FoldLeft, MapThenFoldSet, Removed
<1> HIDE DEF n, step
<1>4. PICK f : Solves(f, n, A, base, step) BY <1>1, <1>2, FoldExists
<1>5. /\ f \in [SUBSET (1..n) -> A]
      /\ \A T \in SUBSET (1..n) : f[T] = IF T = {} THEN base ELSE step[Max(T)][f[T \ {Max(T)}]]
  BY <1>4 DEF Solves
<1>6. \A T \in SUBSET (1..n) : T # {} => Max(T) \in 1..n /\ T \ {Max(T)} \in SUBSET (1..n)
  BY <1>1, MaxIsIn
<1>7. Fix(iter)
  <2>1. ASSUME NEW T \in SUBSET (1..n)
        PROVE  f[T] = IF T = {} THEN base ELSE RemoveEntry(f[T \ {Max(T)}], seq[Max(T)])
    <3>1. T # {} => f[T \ {Max(T)}] \in A BY <1>5, <1>6
    <3> QED BY <1>2, <1>5, <1>6, <3>1
  <2>2. Fix(f) BY <1>5, <2>1
  <2> QED BY <2>2
<1> HIDE DEF iter
<1>8. \A T \in SUBSET (1..n) :
        iter[T] = IF T = {} THEN base ELSE RemoveEntry(iter[T \ {Max(T)}], seq[Max(T)])
  BY <1>7
<1> HIDE DEF Fix
<1>9. iter[{}] = base BY <1>8
<1>10. Unwinds(iter, n, A, base, step)
  <2>1. ASSUME NEW T \in SUBSET (1..n), T # {}, iter[T \ {Max(T)}] \in A
        PROVE  iter[T] = step[Max(T)][iter[T \ {Max(T)}]]
    BY <1>2, <1>6, <1>8, <2>1
  <2> QED BY <1>9, <2>1 DEF Unwinds
<1>11. PICK pre : Follows(pre, n, A, base, step) /\ iter[1..n] = pre[n]
  BY <1>1, <1>2, <1>10, PrefixesOf
<1>12. /\ Along(pre, n, A, base) /\ iter[1..n] = pre[n]
       /\ \A k \in 1..n : pre[k] = step[k][pre[k - 1]]
  BY <1>11 DEF Follows
<1>13. \A k \in 1..n : pre[k] = RemoveEntry(pre[k - 1], seq[k])
  <2> TAKE k \in 1..n
  <2>1. pre[k - 1] \in A BY <1>1, <1>12, PrefixFacts DEF Along
  <2> QED BY <1>2, <1>12, <2>1
<1> QED BY <1>3, <1>12, <1>13 DEF n, RemovesTo

\* Records a removal stays among: subsets of some nodes, of some entries.
Subs(N) == UNION {[n \union {Root} -> Int] : n \in SUBSET N}
EntryParts(e) == {Restrict(e, S) : S \in SUBSET DOMAIN e}
Shapes(N, e, U) ==
  {a \in [nodes : SUBSET N, sub : Subs(N), entry : EntryParts(e), lru : Seq(U), cached : Int] :
     DOMAIN a.sub = a.nodes \union {Root}}

LEMMA WithoutType ==
  ASSUME NEW S, NEW seq \in Seq(S), NEW ids
  PROVE  Without(seq, ids) \in Seq(S)
<1>1. PICK n \in Nat : n = Len(seq) OBVIOUS
<1>2. \A a \in Seq(S), i \in 1..Len(seq) : (IF seq[i] \in ids THEN a ELSE Append(a, seq[i])) \in Seq(S) OBVIOUS
<1>3. <<>> \in Seq(S) OBVIOUS
<1>4. PICK pre : RetainsTo(pre, ids, <<>>, seq, Seq(S)) BY <1>2, <1>3, RetainFold
<1>5. Without(seq, ids) = Retained(ids, <<>>, seq) BY Zenon DEF Without, Retained
<1>6. pre \in [0..n -> Seq(S)] /\ Without(seq, ids) = pre[n] BY <1>1, <1>4, <1>5 DEF RetainsTo, Along
<1> QED BY <1>6

LEMMA PartOfPart ==
  ASSUME NEW e, NEW f \in EntryParts(e), NEW S \in SUBSET DOMAIN f
  PROVE  Restrict(f, S) \in EntryParts(e)
<1>1. PICK R \in SUBSET DOMAIN e : f = [x \in R |-> e[x]] BY DEF EntryParts, Restrict
<1>2. Restrict(f, S) = [x \in S |-> f[x]] BY Zenon DEF Restrict
<1>3. Restrict(e, S) = [x \in S |-> e[x]] BY Zenon DEF Restrict
<1>4. S \in SUBSET DOMAIN e /\ \A x \in S : f[x] = e[x] BY <1>1
<1>5. Restrict(f, S) = Restrict(e, S) BY <1>2, <1>3, <1>4
<1> QED BY <1>4, <1>5 DEF EntryParts

LEMMA RemoveType ==
  ASSUME NEW N, NEW e, NEW U, NEW a \in Shapes(N, e, U), NEW key, PagesOf(key) \in Nat
  PROVE  RemoveEntry(a, key) \in Shapes(N, e, U)
<1> DEFINE dropped == Under(a.nodes, SubSeq(key, 1, TrimFrom(a, key)))
           nodes == IF TrimFrom(a, key) > Len(key) THEN a.nodes ELSE a.nodes \ dropped
           sub == [p \in nodes \union {Root} |-> IF IsPrefix(p, key) THEN a.sub[p] - 1 ELSE a.sub[p]]
           rest == Restrict(a.entry, Keys(a) \ {key})
<1>1. RemoveEntry(a, key) = [nodes |-> nodes, sub |-> sub, entry |-> rest, lru |-> Without(a.lru, {key}),
                             cached |-> a.cached - PagesOf(key)]
  BY Zenon DEF RemoveEntry
<1>2. /\ a.nodes \in SUBSET N /\ a.sub \in Subs(N) /\ a.entry \in EntryParts(e) /\ a.lru \in Seq(U) /\ a.cached \in Int
      /\ DOMAIN a.sub = a.nodes \union {Root}
  BY DEF Shapes
<1>3. nodes \subseteq a.nodes OBVIOUS
<1> HIDE DEF nodes
<1>4. sub \in [nodes \union {Root} -> Int] /\ sub \in Subs(N) /\ DOMAIN sub = nodes \union {Root}
  <2>1. \A p \in nodes \union {Root} : a.sub[p] \in Int BY <1>2, <1>3 DEF Subs
  <2>2. sub \in [nodes \union {Root} -> Int] BY <2>1
  <2>3. nodes \in SUBSET N BY <1>2, <1>3
  <2> HIDE DEF sub
  <2> QED BY <2>2, <2>3 DEF Subs
<1>5. rest \in EntryParts(e)
  <2>1. Keys(a) \ {key} \in SUBSET DOMAIN a.entry BY DEF Keys
  <2> QED BY <1>2, <2>1, PartOfPart
<1>6. Without(a.lru, {key}) \in Seq(U) BY <1>2, WithoutType
<1>7. a.cached - PagesOf(key) \in Int BY <1>2
<1> HIDE DEF sub, rest
<1> QED BY <1>1, <1>2, <1>3, <1>4, <1>5, <1>6, <1>7 DEF Shapes

LEMMA SoundShape ==
  ASSUME NEW c, NEW T, NEW pending, Sound(c, T, pending), Block \in Nat \ {0}
  PROVE  /\ c \in Shapes(c.nodes, c.entry, Keys(c)) /\ Keys(c) \subseteq Seq(T)
         /\ \A k \in Keys(c) : PagesOf(k) \in Nat /\ c.cached \in Nat
<1>1. Keys(c) \subseteq Seq(T) /\ c.lru \in Seq(Keys(c)) /\ c.cached = PagesIn(c.lru)
  BY DEF Sound, Listed, Tree
<1>2. PagesIn(c.lru) \in Nat
  <2>1. c.lru \in Seq(Seq(T)) BY <1>1, SeqWider
  <2>2. \E x : x \in Seq(T)
    <3>1. <<>> \in Seq(T) OBVIOUS
    <3> QED BY <3>1
  <2> QED BY <2>1, <2>2, PagesAppend
<1>3. c.sub \in Subs(c.nodes) /\ DOMAIN c.sub = c.nodes \union {Root}
  <2>1. c.sub = [p \in c.nodes \union {Root} |-> Cardinality(Under(Keys(c), p))] BY DEF Sound, Counts
  <2>2. \A p \in c.nodes \union {Root} : Cardinality(Under(Keys(c), p)) \in Int
    <3> TAKE p \in c.nodes \union {Root}
    <3>1. IsFiniteSet(Under(Keys(c), p)) BY TreeFinite DEF Sound
    <3> QED BY <3>1, FS_CardinalityType
  <2>3. c.sub \in [c.nodes \union {Root} -> Int] BY <2>1, <2>2
  <2> QED BY <2>3 DEF Subs
<1>4. c.entry \in EntryParts(c.entry)
  <2>1. c.entry = Restrict(c.entry, DOMAIN c.entry) BY DEF Sound, IsCache, Restrict, Keys
  <2> QED BY <2>1 DEF EntryParts
<1>5. c = [nodes |-> c.nodes, sub |-> c.sub, entry |-> c.entry, lru |-> c.lru, cached |-> c.cached]
  BY DEF Sound, IsCache
<1>6. c.cached \in Int BY <1>1, <1>2
<1>7. c \in Shapes(c.nodes, c.entry, Keys(c)) BY <1>1, <1>3, <1>4, <1>5, <1>6 DEF Shapes
<1>8. \A k \in Keys(c) : PagesOf(k) \in Nat
  <2>1. <<>> \in Seq(Seq(T)) OBVIOUS
  <2> QED BY <1>1, <2>1, PagesAlong
<1> QED BY <1>1, <1>2, <1>7, <1>8

\* An eviction takes the keys of its list, their pages, and nothing else.
Evicts(c, seq, d, T, pending) ==
  /\ Sound(d, T, pending) /\ Keys(d) = Keys(c) \ Among(seq)
  /\ d.entry = [k \in Keys(d) |-> c.entry[k]]
  /\ d.cached = c.cached - PagesIn(seq)
  /\ d.nodes \subseteq c.nodes
  /\ \A p \in c.nodes : (\A k \in Among(seq) : ~IsPrefix(p, k)) => p \in d.nodes

LEMMA RemovedEvicts ==
  ASSUME NEW c, NEW T, NEW pending, Sound(c, T, pending), Block \in Nat \ {0},
         NEW seq \in Seq(Keys(c)), Distinct(seq), NEW d, d = FoldLeft(RemoveEntry, c, seq)
  PROVE  Evicts(c, seq, d, T, pending)
<1> DEFINE A == Shapes(c.nodes, c.entry, Keys(c))
<1> HIDE DEF A
<1>1. PICK n \in Nat : n = Len(seq) OBVIOUS
<1>2. c \in A /\ Keys(c) \subseteq Seq(T) /\ c.cached \in Nat
      /\ \A k \in Keys(c) : PagesOf(k) \in Nat
  <2>1. c.cached \in Nat
    <3>1. c.lru \in Seq(Keys(c)) /\ Keys(c) \subseteq Seq(T) /\ c.cached = PagesIn(c.lru)
      BY DEF Sound, Listed, Tree
    <3>2. c.lru \in Seq(Seq(T)) BY <3>1, SeqWider
    <3>3. <<>> \in Seq(T) OBVIOUS
    <3> QED BY <3>1, <3>2, <3>3, PagesAppend
  <2> QED BY <2>1, SoundShape DEF A
<1>3. PICK pre : /\ pre \in [0..n -> A] /\ pre[0] = c /\ d = pre[n]
                 /\ \A k \in 1..n : pre[k] = RemoveEntry(pre[k - 1], seq[k])
  <2>1. \A a \in A, i \in 1..Len(seq) : RemoveEntry(a, seq[i]) \in A
    <3> TAKE a \in A, i \in 1..Len(seq)
    <3>1. seq[i] \in Keys(c) /\ PagesOf(seq[i]) \in Nat BY <1>2
    <3> QED BY <3>1, RemoveType DEF A
  <2>2. PICK pre : RemovesTo(pre, c, seq, A) BY <1>2, <2>1, RemoveFold
  <2>3. d = Removed(c, seq) BY Zenon DEF Removed
  <2> QED BY <1>1, <2>2, <2>3 DEF RemovesTo, Along
<1>4. PICK f : f \in [0..n -> Nat] /\ f[0] = 0 /\ PagesIn(seq) = f[n] /\ \A k \in 1..n : f[k] = f[k - 1] + PagesOf(seq[k])
  <2>1. seq \in Seq(Seq(T)) BY <1>2, SeqWider
  <2>2. \E g : SumsTo(g, 0, seq, Nat) /\ PagesIn(seq) = g[Len(seq)] BY <2>1, PagesAlong
  <2> QED BY <1>1, <2>2 DEF SumsTo, Along
<1> DEFINE upto(k) == {seq[i] : i \in 1..k}
           Fine(k) == /\ Sound(pre[k], T, pending) /\ Keys(pre[k]) = Keys(c) \ upto(k)
                      /\ pre[k].entry = [x \in Keys(c) \ upto(k) |-> c.entry[x]]
                      /\ pre[k].cached = c.cached - f[k]
                      /\ pre[k].nodes \subseteq c.nodes
                      /\ \A p \in c.nodes : (\A x \in upto(k) : ~IsPrefix(p, x)) => p \in pre[k].nodes
           P == {k \in 0..n : Fine(k)}
<1>5. 0 \in P
  <2>1. upto(0) = {} OBVIOUS
  <2> HIDE DEF upto
  <2>2. c.entry = [x \in Keys(c) |-> c.entry[x]] BY DEF Sound, IsCache
  <2>3. c.cached = c.cached - 0 BY <1>2
  <2>4. Fine(0) BY <1>3, <1>4, <2>1, <2>2, <2>3
  <2> HIDE DEF Fine
  <2> QED BY <2>4
<1>6. ASSUME NEW k \in 1..n, k - 1 \in P PROVE k \in P
  <2>1. k \in 0..n /\ k - 1 \in 0..n /\ k \in 1..Len(seq) BY <1>1
  <2>2. PICK x \in Keys(c) : x = seq[k] BY <2>1
  <2>3. upto(k) = upto(k - 1) \union {x}
    <3>1. \A i \in 1..k : i = k \/ i \in 1..(k - 1) BY <1>1
    <3>2. \A i \in 1..(k - 1) : i \in 1..k BY <1>1
    <3>3. k \in 1..k BY <1>1
    <3> QED BY <2>2, <3>1, <3>2, <3>3
  <2>4. x \notin upto(k - 1)
    <3>1. \A i \in 1..(k - 1) : i \in 1..Len(seq) /\ i # k BY <1>1
    <3> QED BY <2>1, <2>2, <3>1 DEF Distinct
  <2>5. Fine(k - 1)
    <3> HIDE DEF Fine
    <3> QED BY <1>6
  <2> HIDE DEF upto
  <2>6. PICK a : a = pre[k - 1] OBVIOUS
  <2>7. PICK b : b = RemoveEntry(a, x) /\ b = pre[k] BY <1>3, <2>2, <2>6
  <2>8. /\ Sound(a, T, pending) /\ Keys(a) = Keys(c) \ upto(k - 1)
        /\ a.entry = [y \in Keys(c) \ upto(k - 1) |-> c.entry[y]]
        /\ a.cached = c.cached - f[k - 1] /\ a.nodes \subseteq c.nodes
        /\ \A p \in c.nodes : (\A y \in upto(k - 1) : ~IsPrefix(p, y)) => p \in a.nodes
    BY <2>5, <2>6
  <2>9. x \in Keys(a) /\ Tree(a, T) BY <2>4, <2>8 DEF Sound
  <2>10. Sound(b, T, pending) BY <2>7, <2>8, <2>9, RemoveSound
  <2>11. Removes(a, x, b) BY <2>7, <2>9, RemoveIs
  <2>12. Keys(b) = Keys(c) \ upto(k) /\ b.nodes \subseteq c.nodes BY <2>3, <2>8, <2>11 DEF Removes
  <2>13. b.entry = [y \in Keys(c) \ upto(k) |-> c.entry[y]]
    <3>1. b.entry = [y \in Keys(a) \ {x} |-> a.entry[y]] BY <2>11 DEF Removes
    <3>2. Keys(a) \ {x} = Keys(c) \ upto(k) BY <2>3, <2>8
    <3>3. \A y \in Keys(c) \ upto(k) : a.entry[y] = c.entry[y] BY <2>3, <2>8
    <3> QED BY <3>1, <3>2, <3>3
  <2>14. b.cached = c.cached - f[k]
    <3>1. b.cached = (c.cached - f[k - 1]) - PagesOf(x) BY <2>8, <2>11 DEF Removes
    <3>2. f[k] = f[k - 1] + PagesOf(x) /\ f[k - 1] \in Nat /\ PagesOf(x) \in Nat BY <1>2, <1>4, <2>1, <2>2
    <3> QED BY <1>2, <3>1, <3>2
  <2>15. ASSUME NEW p \in c.nodes, \A y \in upto(k) : ~IsPrefix(p, y) PROVE p \in b.nodes
    <3>1. p \in a.nodes /\ ~IsPrefix(p, x) BY <2>3, <2>8, <2>15
    <3> QED BY <2>7, <2>9, <3>1, DroppedIs
  <2>16. Fine(k) BY <2>7, <2>10, <2>12, <2>13, <2>14, <2>15
  <2> HIDE DEF Fine
  <2> QED BY <2>1, <2>16
<1>7. n \in P
  <2> HIDE DEF P
  <2>1. \A k \in 0..n : k \in P BY <1>5, <1>6, PrefixInduction
  <2> QED BY <2>1
<1>8. upto(n) = Among(seq) BY <1>1 DEF Among
<1> HIDE DEF upto
<1>9. Fine(n) BY <1>7
<1> QED BY <1>3, <1>4, <1>8, <1>9 DEF Evicts

\* The path of a key, made before it is admitted.
LEMMA WithPathSound ==
  ASSUME NEW c, NEW T, Sound(c, T, {}), NEW key \in Seq(T), key # Root, NEW d, d = WithPath(c, key)
  PROVE  /\ Sound(d, T, {key}) /\ key \in d.nodes /\ Keys(d) = Keys(c)
         /\ d.entry = c.entry /\ d.lru = c.lru /\ d.cached = c.cached
<1> DEFINE nodes == c.nodes \union (Prefixes(key) \ {Root})
           sub == [p \in nodes \union {Root} |-> IF p \in DOMAIN c.sub THEN c.sub[p] ELSE 0]
<1>0. PICK n \in Nat : n = Len(key) OBVIOUS
<1>1. d = [c EXCEPT !.nodes = nodes, !.sub = sub] BY Zenon DEF WithPath
<1>2. c = [nodes |-> c.nodes, sub |-> c.sub, entry |-> c.entry, lru |-> c.lru, cached |-> c.cached]
  BY DEF Sound, IsCache
<1>3. Prefixes(key) = {Stem(key, l) : l \in 0..n} BY <1>0, Zenon DEF Prefixes, Stem
<1>4. Stem(key, 0) = Root BY DEF Stem, Root
<1>5. Stem(key, n) = key BY <1>0, SubSeqFull DEF Stem
<1>6. n # 0 BY <1>0, EmptySeq DEF Root
<1>7. \A l \in 0..n : Stem(key, l) \in Seq(T) /\ Len(Stem(key, l)) = l BY <1>0, CutPrefix
<1>8. nodes = c.nodes \union {Stem(key, l) : l \in 1..n}
  <2>1. \A l \in 0..n : Stem(key, l) # Root <=> l \in 1..n
    <3> TAKE l \in 0..n
    <3>1. CASE l = 0 BY <1>4, <3>1
    <3>2. CASE l # 0
      <4>1. l \in 1..n BY <3>2
      <4>2. Len(Stem(key, l)) = l BY <1>7
      <4>3. Len(Root) = 0 BY DEF Root
      <4> QED BY <3>2, <4>1, <4>2, <4>3
    <3> QED BY <3>1, <3>2
  <2>2. \A l \in 1..n : l \in 0..n OBVIOUS
  <2> QED BY <1>3, <2>1, <2>2
<1>9. key \in nodes
  <2>1. n \in 1..n BY <1>6
  <2> QED BY <1>5, <1>8, <2>1
<1> HIDE DEF nodes, sub
<1>10. /\ d = [nodes |-> nodes, sub |-> sub, entry |-> c.entry, lru |-> c.lru, cached |-> c.cached]
  BY <1>1, <1>2
<1>11. d.nodes = nodes /\ d.sub = sub /\ d.entry = c.entry /\ d.lru = c.lru /\ d.cached = c.cached BY <1>10
<1>12. Keys(d) = Keys(c) BY <1>11 DEF Keys
<1>13. Tree(d, T)
  <2>1. Tree(c, T) BY DEF Sound
  <2>2. nodes \in SUBSET Seq(T) /\ Root \notin nodes
    <3>1. \A l \in 1..n : l \in 0..n OBVIOUS
    <3>2. \A l \in 1..n : Stem(key, l) # Root
      <4> TAKE l \in 1..n
      <4>1. Len(Stem(key, l)) = l BY <1>7
      <4>2. Len(Root) = 0 BY DEF Root
      <4> QED BY <4>1, <4>2
    <3> QED BY <1>7, <1>8, <2>1, <3>1, <3>2 DEF Tree
  <2>3. IsFiniteSet(nodes)
    <3>1. IsFiniteSet(1..n) BY FS_Interval
    <3> DEFINE cuts == {Stem(key, l) : l \in 1..n}
               f == [l \in 1..n |-> Stem(key, l)]
    <3>2. IsFiniteSet(cuts)
      <4>1. f \in Surjection(1..n, cuts) BY DEF Surjection
      <4> HIDE DEF f, cuts
      <4> QED BY <3>1, <4>1, FS_Surjection
    <3> QED BY <1>8, <2>1, <3>2, FS_Union DEF Tree
  <2>4. ASSUME NEW p \in nodes, NEW j \in 1..Len(p) PROVE Stem(p, j) \in nodes
    <3>1. CASE p \in c.nodes BY <1>8, <2>1, <3>1 DEF Tree
    <3>2. CASE p \notin c.nodes
      <4>1. PICK l \in 1..n : p = Stem(key, l) BY <1>8, <3>2
      <4>2. l \in 0..n /\ Len(p) = l BY <1>7, <4>1
      <4>3. j \in 0..l /\ j \in 1..n BY <4>2
      <4>4. Stem(p, j) = Stem(key, j) BY <1>0, <4>1, <4>2, <4>3, CutPrefix
      <4> QED BY <1>8, <4>3, <4>4
    <3> QED BY <3>1, <3>2
  <2>5. Keys(d) \subseteq nodes BY <1>8, <1>12, <2>1 DEF Tree
  <2> QED BY <1>11, <2>2, <2>3, <2>4, <2>5 DEF Tree
<1>14. Counts(d)
  <2>1. c.sub = [p \in c.nodes \union {Root} |-> Cardinality(Under(Keys(c), p))] BY DEF Sound, Counts
  <2>2. ASSUME NEW p \in nodes \union {Root}, p \notin DOMAIN c.sub PROVE Cardinality(Under(Keys(c), p)) = 0
    <3>1. p \notin c.nodes /\ p # Root /\ p \in nodes BY <2>1, <2>2
    <3>2. p \in Seq(T) /\ Len(p) \in Nat \ {0}
      <4>1. p \in Seq(T) /\ p # Root BY <1>11, <1>13, <3>1 DEF Tree
      <4> QED BY <4>1, EmptySeq DEF Root
    <3>3. ASSUME NEW k \in Keys(c), IsPrefix(p, k) PROVE FALSE
      <4>1. k \in c.nodes /\ k \in Seq(T) BY DEF Sound, Tree
      <4>2. Len(p) \in 1..Len(k)
        <5>1. Len(p) <= Len(k) /\ Len(k) \in Nat BY <3>2, <3>3, <4>1, PrefixOrder
        <5> QED BY <3>2, <5>1
      <4>3. p = Stem(k, Len(p))
        <5>1. Len(p) \in 0..Len(k) BY <4>2
        <5> QED BY <3>2, <3>3, <4>1, <5>1, CutPrefix
      <4>4. p \in c.nodes BY <4>1, <4>2, <4>3 DEF Sound, Tree
      <4> QED BY <3>1, <4>4
    <3>4. Under(Keys(c), p) = {} BY <3>3 DEF Under
    <3> QED BY <3>4, FS_EmptySet
  <2>3. \A p \in nodes \union {Root} : (IF p \in DOMAIN c.sub THEN c.sub[p] ELSE 0) = Cardinality(Under(Keys(c), p))
    BY <2>1, <2>2
  <2>4. sub = [p \in nodes \union {Root} |-> Cardinality(Under(Keys(c), p))] BY <2>3 DEF sub
  <2> QED BY <1>11, <1>12, <2>4 DEF Counts
<1>15. Listed(d) BY <1>11, <1>12 DEF Sound, Listed
<1>16. Grown(d, {key})
  <2> SUFFICES ASSUME NEW p \in nodes, Children(d, p) = {} PROVE p \in Keys(c) \union {key}
    BY <1>11, <1>12 DEF Grown
  <2>1. CASE p \in c.nodes
    <3>1. Children(c, p) \subseteq Children(d, p) BY <1>8, <1>11 DEF Children, Under
    <3> QED BY <2>1, <3>1 DEF Sound, Grown
  <2>2. CASE p \notin c.nodes
    <3>1. PICK l \in 1..n : p = Stem(key, l) BY <1>8, <2>2
    <3>2. CASE l = n BY <1>5, <3>1, <3>2
    <3>3. CASE l # n
      <4>1. l \in 0..(Len(key) - 1) BY <1>0, <3>3
      <4>2. Stem(key, l + 1) \in Children(d, Stem(key, l)) BY <1>9, <1>11, <1>13, <4>1, ChildOf
      <4> QED BY <3>1, <4>2
    <3> QED BY <3>2, <3>3
  <2> QED BY <2>1, <2>2
<1>17. Paged(d) BY <1>12 DEF Sound, Paged
<1>18. IsCache(d)
  <2>1. c.entry = [k \in Keys(c) |-> c.entry[k]] BY DEF Sound, IsCache
  <2> QED BY <1>10, <1>11, <1>12, <2>1 DEF IsCache
<1> QED BY <1>9, <1>11, <1>12, <1>13, <1>14, <1>15, <1>16, <1>17, <1>18 DEF Sound

-----------------------------------------------------------------------------
(* Lookups *)

\* A lookup reaches as deep as an aligned prefix of the prompt is the start of a key.
LEMMA HitFacts ==
  ASSUME NEW c, NEW T, NEW pending, Sound(c, T, pending), Block \in Nat \ {0}, NEW ids \in Seq(T)
  PROVE  /\ HitLen(c, ids) \in 0..Len(ids) /\ HitLen(c, ids) % Block = 0
         /\ HitLen(c, ids) > 0 => \E k \in Keys(c) : IsPrefix(Stem(ids, HitLen(c, ids)), k)
         /\ \A k \in Keys(c), d \in 1..Len(ids) :
              d % Block = 0 /\ IsPrefix(Stem(ids, d), k) => d <= HitLen(c, ids)
         /\ Servers(c, ids) \subseteq Keys(c) /\ (Servers(c, ids) # {} <=> HitLen(c, ids) > 0)
         /\ HitLen(c, ids) > 0 => \A k \in Servers(c, ids) : IsPrefix(Stem(ids, HitLen(c, ids)), k)
<1>0. PICK n \in Nat : n = Len(ids) OBVIOUS
<1>1. Tree(c, T) /\ c.sub = [p \in c.nodes \union {Root} |-> Cardinality(Under(Keys(c), p))]
  BY DEF Sound, Counts
<1>2. \A d \in 1..n : d \in HitDepths(c, ids) <=> d % Block = 0 /\ Stem(ids, d) \in c.nodes /\ c.sub[Stem(ids, d)] > 0
  BY <1>0, Zenon DEF HitDepths, Stem
<1>3. ASSUME NEW d \in 1..n PROVE (Stem(ids, d) \in c.nodes /\ c.sub[Stem(ids, d)] > 0) <=> \E k \in Keys(c) : IsPrefix(Stem(ids, d), k)
  <2>1. PICK p \in Seq(T) : p = Stem(ids, d) /\ Len(p) = d
    <3>1. d \in 0..Len(ids) BY <1>0
    <3> QED BY <3>1, CutPrefix
  <2>2. IsFiniteSet(Under(Keys(c), p)) BY <1>1, TreeFinite
  <2>3. PICK m : m = Cardinality(Under(Keys(c), p)) OBVIOUS
  <2>4. m \in Nat /\ (m = 0 <=> Under(Keys(c), p) = {}) BY <2>2, <2>3, FS_CardinalityType, FS_EmptySet
  <2>5. p \in c.nodes => c.sub[p] = m BY <1>1, <2>3
  <2>6. ASSUME NEW k \in Keys(c), IsPrefix(p, k) PROVE p \in c.nodes
    <3>1. k \in c.nodes /\ k \in Seq(T) BY <1>1 DEF Tree
    <3>2. Len(p) <= Len(k) /\ Len(k) \in Nat BY <2>6, <3>1, PrefixOrder
    <3>3. d \in 0..Len(k) /\ d \in 1..Len(k) BY <2>1, <3>2
    <3>4. p = Stem(k, d) BY <2>1, <2>6, <3>1, <3>3, CutPrefix
    <3> QED BY <1>1, <3>1, <3>3, <3>4 DEF Tree
  <2>7. Under(Keys(c), p) # {} <=> \E k \in Keys(c) : IsPrefix(p, k) BY DEF Under
  <2> QED BY <2>1, <2>4, <2>5, <2>6, <2>7
<1>4. HitDepths(c, ids) \subseteq 1..n BY <1>0 DEF HitDepths
<1>5. PICK h : h = HitLen(c, ids) OBVIOUS
<1>6. h \in HitDepths(c, ids) \union {0} /\ \A d \in HitDepths(c, ids) : d <= h
  <2>1. HitDepths(c, ids) \union {0} \in SUBSET (0..n) BY <1>4
  <2>2. h = Max(HitDepths(c, ids) \union {0}) BY <1>5 DEF HitLen
  <2> QED BY <2>1, <2>2, MaxUpTo
<1>7. h \in 0..n /\ h % Block = 0 /\ (h > 0 => h \in 1..n /\ h \in HitDepths(c, ids))
  <2>1. 0 % Block = 0 BY DivMod
  <2>2. CASE h = 0 BY <2>1, <2>2
  <2>3. CASE h # 0 BY <1>2, <1>4, <1>6, <2>3
  <2> QED BY <2>2, <2>3
<1>8. h > 0 => \E k \in Keys(c) : IsPrefix(Stem(ids, h), k) BY <1>2, <1>3, <1>7
<1>9. \A k \in Keys(c), d \in 1..n : d % Block = 0 /\ IsPrefix(Stem(ids, d), k) => d <= h BY <1>2, <1>3, <1>6
<1>10. Servers(c, ids) = IF h = 0 THEN {} ELSE Under(Keys(c), Stem(ids, h)) BY <1>5, Zenon DEF Servers, Stem
<1>11. /\ Servers(c, ids) \subseteq Keys(c) /\ (h > 0 => \A k \in Servers(c, ids) : IsPrefix(Stem(ids, h), k))
       /\ Servers(c, ids) # {} <=> h > 0
  <2>1. h > 0 => Under(Keys(c), Stem(ids, h)) # {} BY <1>8 DEF Under
  <2>2. h > 0 <=> h # 0 BY <1>7
  <2> QED BY <1>10, <2>1, <2>2 DEF Under
<1> QED BY <1>0, <1>5, <1>7, <1>8, <1>9, <1>11

\* Of a finite set in a strict order one comes before all others.
LEMMA FirstOf ==
  ASSUME NEW S, IsFiniteSet(S), S # {}, NEW before, StrictOrder(S, before)
  PROVE  \E w \in S : \A v \in S \ {w} : <<w, v>> \in before
<1> DEFINE below(w) == {v \in S : <<v, w>> \in before}
           D == {Cardinality(below(w)) : w \in S}
<1>1. \A w \in S : IsFiniteSet(below(w)) /\ Cardinality(below(w)) \in Nat
  <2> TAKE w \in S
  <2>1. below(w) \subseteq S OBVIOUS
  <2> HIDE DEF below
  <2> QED BY <2>1, FS_Subset, FS_CardinalityType
<1>2. D \subseteq Nat /\ D # {} BY <1>1
<1>3. PICK d \in D : \A e \in D : d <= e
  <2> HIDE DEF D
  <2> QED BY <1>2, LeastNatural
<1>4. PICK w \in S : d = Cardinality(below(w)) OBVIOUS
<1>5. ASSUME NEW v \in S, v # w PROVE <<w, v>> \in before
  <2> SUFFICES ASSUME <<v, w>> \in before PROVE FALSE BY <1>5 DEF StrictOrder
  <2>1. v \in below(w) /\ v \notin below(v) /\ below(v) \subseteq below(w) BY DEF StrictOrder
  <2>2. Cardinality(below(v)) \in D OBVIOUS
  <2>3. Cardinality(below(w)) <= Cardinality(below(v)) BY <1>3, <1>4, <2>2
  <2> HIDE DEF below, D
  <2>4. IsFiniteSet(below(w) \ {v}) /\ Cardinality(below(w) \ {v}) = Cardinality(below(w)) - 1
    BY <1>1, <2>1, FewerLeft
  <2>5. below(v) \in SUBSET (below(w) \ {v}) BY <2>1
  <2>6. Cardinality(below(v)) <= Cardinality(below(w) \ {v}) BY <2>4, <2>5, FS_Subset
  <2> QED BY <1>1, <2>3, <2>4, <2>6
<1> QED BY <1>5

\* Longer first, then by the first token that differs.
LEMMA BeforeOrders ==
  ASSUME NEW p \in Seq(Nat), NEW q \in Seq(Nat), NEW r \in Seq(Nat)
  PROVE  /\ ~Before(p, p)
         /\ Before(p, q) /\ Before(q, r) => Before(p, r)
         /\ p = q \/ Before(p, q) \/ Before(q, p)
<1> DEFINE at(x, y, i) == x[i] < y[i] /\ \A j \in 1..(i - 1) : x[j] = y[j]
<1>0. ASSUME NEW x \in Seq(Nat), NEW y \in Seq(Nat), Len(x) = Len(y)
      PROVE  Before(x, y) <=> \E i \in 1..Len(x) : at(x, y, i)
  <2>1. ASSUME NEW i \in 1..Len(x)
        PROVE  SubSeq(x, 1, i - 1) = SubSeq(y, 1, i - 1) <=> \A j \in 1..(i - 1) : x[j] = y[j]
    <3>1. i - 1 \in 0..Len(x) /\ i - 1 \in 0..Len(y) BY <1>0
    <3>2. PICK m : m = i - 1 OBVIOUS
    <3>3. /\ SubSeq(x, 1, m) \in Seq(Nat) /\ Len(SubSeq(x, 1, m)) = m /\ \A j \in 1..m : SubSeq(x, 1, m)[j] = x[j]
          /\ SubSeq(y, 1, m) \in Seq(Nat) /\ Len(SubSeq(y, 1, m)) = m /\ \A j \in 1..m : SubSeq(y, 1, m)[j] = y[j]
      BY <3>1, <3>2, CutFacts
    <3>4. (\A j \in 1..m : x[j] = y[j]) => SubSeq(x, 1, m) = SubSeq(y, 1, m) BY <3>3, SameSeq
    <3>5. SubSeq(x, 1, m) = SubSeq(y, 1, m) => \A j \in 1..m : x[j] = y[j] BY <3>3
    <3> QED BY <3>2, <3>4, <3>5
  <2>2. ~(Len(x) > Len(y)) BY <1>0
  <2> QED BY <1>0, <2>1, <2>2 DEF Before
<1>1. ASSUME NEW x \in Seq(Nat), NEW y \in Seq(Nat), Len(x) # Len(y)
      PROVE  Before(x, y) <=> Len(x) > Len(y)
  BY <1>1 DEF Before
<1>2. PICK a \in Nat : a = Len(p) OBVIOUS
<1>3. PICK b \in Nat : b = Len(q) OBVIOUS
<1>4. PICK d \in Nat : d = Len(r) OBVIOUS
<1>5. \A i \in 1..a : p[i] \in Nat BY <1>2
<1>6. \A i \in 1..b : q[i] \in Nat BY <1>3
<1>7. \A i \in 1..d : r[i] \in Nat BY <1>4
<1>8. ~Before(p, p)
  <2> SUFFICES ASSUME NEW i \in 1..a, at(p, p, i) PROVE FALSE BY <1>0, <1>2
  <2> QED BY <1>5
<1>9. ASSUME Before(p, q), Before(q, r) PROVE Before(p, r)
  <2>1. a >= b /\ b >= d
    <3>1. a # b => a > b BY <1>1, <1>2, <1>3, <1>9
    <3>2. b # d => b > d BY <1>1, <1>3, <1>4, <1>9
    <3> QED BY <3>1, <3>2
  <2>2. CASE a # d
    <3>1. a > d BY <2>1, <2>2
    <3> QED BY <1>1, <1>2, <1>4, <2>2, <3>1
  <2>3. CASE a = d
    <3>1. a = b /\ b = d BY <2>1, <2>3
    <3>2. PICK i \in 1..a : at(p, q, i)
      <4> HIDE DEF at
      <4> QED BY <1>0, <1>2, <1>3, <1>9, <3>1
    <3>3. PICK j \in 1..a : at(q, r, j)
      <4> HIDE DEF at
      <4> QED BY <1>0, <1>3, <1>4, <1>9, <3>1
    <3>4. PICK m \in 1..a : m <= i /\ m <= j /\ (m = i \/ m = j)
      <4> HIDE DEF at
      <4>1. i \in Nat /\ j \in Nat OBVIOUS
      <4>2. i <= j => i <= i /\ i <= j BY <4>1
      <4>3. ~(i <= j) => j <= i /\ j <= j BY <4>1
      <4> QED BY <4>2, <4>3
    <3>5. \A l \in 1..(m - 1) : l \in 1..(i - 1) /\ l \in 1..(j - 1) BY <3>4
    <3>6. \A l \in 1..(m - 1) : p[l] = r[l] BY <3>2, <3>3, <3>5
    <3>7. p[m] <= q[m] /\ q[m] <= r[m] /\ (p[m] < q[m] \/ q[m] < r[m])
      <4>1. m = i \/ m \in 1..(i - 1) BY <3>4
      <4>2. m = j \/ m \in 1..(j - 1) BY <3>4
      <4>3. p[m] \in Nat /\ q[m] \in Nat /\ r[m] \in Nat BY <1>5, <1>6, <1>7, <3>1
      <4>4. p[m] <= q[m] /\ (m = i => p[m] < q[m]) BY <3>2, <4>1, <4>3
      <4>5. q[m] <= r[m] /\ (m = j => q[m] < r[m]) BY <3>3, <4>2, <4>3
      <4> QED BY <3>4, <4>4, <4>5
    <3>8. p[m] < r[m]
      <4>3. p[m] \in Nat /\ q[m] \in Nat /\ r[m] \in Nat BY <1>5, <1>6, <1>7, <3>1
      <4> QED BY <3>7, <4>3
    <3>9. at(p, r, m) BY <3>6, <3>8
    <3> HIDE DEF at
    <3> QED BY <1>0, <1>2, <1>4, <2>3, <3>9
  <2> QED BY <2>2, <2>3
<1>10. ASSUME p # q PROVE Before(p, q) \/ Before(q, p)
  <2>1. CASE a # b
    <3>1. a > b \/ b > a BY <2>1
    <3> QED BY <1>1, <1>2, <1>3, <2>1, <3>1
  <2>2. CASE a = b
    <3> DEFINE D == {i \in 1..a : p[i] # q[i]}
    <3>1. D # {} BY <1>2, <1>3, <1>10, <2>2, SameSeq
    <3>2. PICK m \in D : \A i \in D : m <= i
      <4>1. D \subseteq Nat OBVIOUS
      <4> HIDE DEF D
      <4> QED BY <3>1, <4>1, LeastNatural
    <3>3. \A j \in 1..(m - 1) : j \in 1..a /\ ~(m <= j) OBVIOUS
    <3>4. \A j \in 1..(m - 1) : p[j] = q[j] BY <3>2, <3>3
    <3>5. m \in 1..a /\ p[m] # q[m] OBVIOUS
    <3> HIDE DEF D
    <3>6. p[m] < q[m] \/ q[m] < p[m]
      <4>1. p[m] \in Nat /\ q[m] \in Nat BY <1>5, <1>6, <2>2, <3>5
      <4> QED BY <3>5, <4>1
    <3>7. at(p, q, m) \/ at(q, p, m) BY <3>4, <3>6
    <3> HIDE DEF at
    <3> QED BY <1>0, <1>2, <1>3, <2>2, <3>5, <3>7
  <2> QED BY <2>1, <2>2
<1> QED BY <1>8, <1>9, <1>10

\* So a hit is served, by a key.
LEMMA ServingIs ==
  ASSUME NEW c, NEW pending, Sound(c, Nat, pending), Block \in Nat \ {0}, NEW ids \in Seq(Nat), Hits(c, ids)
  PROVE  Serving(c, ids) \in Servers(c, ids) /\ Serving(c, ids) \in Keys(c)
<1> DEFINE S == Servers(c, ids)
           before == {e \in S \X S : Before(e[1], e[2])}
<1>1. S \subseteq Keys(c) /\ S # {} BY HitFacts DEF Hits
<1>2. S \subseteq Seq(Nat) /\ IsFiniteSet(S)
  <2>1. Keys(c) \subseteq Seq(Nat) /\ IsFiniteSet(Keys(c))
    <3>1. Tree(c, Nat) BY DEF Sound
    <3> QED BY <3>1, TreeFinite DEF Tree
  <2> QED BY <1>1, <2>1, FS_Subset
<1> HIDE DEF S
<1>3. \A v, w \in S : <<v, w>> \in before <=> Before(v, w) OBVIOUS
<1>4. StrictOrder(S, before)
  <2> HIDE DEF before
  <2>1. \A v \in S : <<v, v>> \notin before BY <1>2, <1>3, BeforeOrders
  <2>2. \A u, v, w \in S : <<u, v>> \in before /\ <<v, w>> \in before => <<u, w>> \in before
    BY <1>2, <1>3, BeforeOrders
  <2>3. \A v, w \in S : v = w \/ <<v, w>> \in before \/ <<w, v>> \in before
    BY <1>2, <1>3, BeforeOrders
  <2> QED BY <2>1, <2>2, <2>3 DEF StrictOrder
<1>5. \E w \in S : \A v \in S \ {w} : <<w, v>> \in before
  <2> HIDE DEF before
  <2> QED BY <1>1, <1>2, <1>4, FirstOf
<1>6. \E w \in S : \A v \in S \ {w} : Before(w, v) BY <1>5
<1>7. Serving(c, ids) = CHOOSE w \in S : \A v \in S \ {w} : Before(w, v) BY Zenon DEF Serving, S
<1>8. Serving(c, ids) \in S BY <1>6, <1>7
<1> QED BY <1>1, <1>8 DEF S

-----------------------------------------------------------------------------
(* Insertions *)

\* A cache within its budget.
Kept(c, T) == Sound(c, T, {}) /\ c.cached \in Nat /\ c.cached <= CachePages

LEMMA EmptyKept ==
  ASSUME NEW T, RadixAssumption
  PROVE  Kept(EmptyCache, T) /\ Keys(EmptyCache) = {}
<1> DEFINE e == EmptyCache
<1>1. e = [nodes |-> {}, sub |-> [p \in {Root} |-> 0], entry |-> [k \in {} |-> 0], lru |-> <<>>, cached |-> 0]
  BY Zenon DEF EmptyCache
<1>2. e.nodes = {} /\ e.sub = [p \in {Root} |-> 0] /\ e.entry = [k \in {} |-> 0] /\ e.lru = <<>> /\ e.cached = 0
  BY <1>1
<1> HIDE DEF e
<1>3. Keys(e) = {} BY <1>2 DEF Keys
<1>4. IsCache(e)
  <2>1. e.entry = [k \in Keys(e) |-> e.entry[k]] BY <1>2, <1>3
  <2> QED BY <1>1, <1>2, <2>1 DEF IsCache
<1>5. Tree(e, T)
  <2>1. IsFiniteSet({}) BY FS_EmptySet
  <2> QED BY <1>2, <1>3, <2>1 DEF Tree
<1>6. Counts(e)
  <2>1. Under({}, Root) = {} BY DEF Under
  <2>2. Cardinality(Under({}, Root)) = 0 BY <2>1, FS_EmptySet
  <2> QED BY <1>2, <1>3, <2>2 DEF Counts
<1>7. Listed(e)
  <2>1. PagesIn(<<>>) = 0
    <3>1. <<>> \in Seq(T) OBVIOUS
    <3>2. <<>> \in Seq(Seq(T)) OBVIOUS
    <3> QED BY <3>1, <3>2, PagesAppend DEF RadixAssumption
  <2>2. <<>> \in Seq({}) /\ Distinct(<<>>) /\ Among(<<>>) = {} BY DEF Distinct, Among
  <2> QED BY <1>2, <1>3, <2>1, <2>2 DEF Listed
<1>8. Grown(e, {}) /\ Paged(e) BY <1>2, <1>3 DEF Grown, Paged
<1>9. Sound(e, T, {}) BY <1>4, <1>5, <1>6, <1>7, <1>8 DEF Sound
<1> QED BY <1>2, <1>3, <1>9 DEF Kept, RadixAssumption, e

\* A touched or refreshed entry is the youngest, and nothing else changes.
LEMMA YoungestKept ==
  ASSUME NEW c, NEW T, Kept(c, T), Block \in Nat \ {0}, NEW key \in Keys(c),
         NEW d, d = [c EXCEPT !.lru = Youngest(@, key)]
  PROVE  /\ Kept(d, T) /\ Keys(d) = Keys(c) /\ d.entry = c.entry /\ d.nodes = c.nodes
<1>1. c = [nodes |-> c.nodes, sub |-> c.sub, entry |-> c.entry, lru |-> c.lru, cached |-> c.cached]
      /\ c.entry = [k \in Keys(c) |-> c.entry[k]]
  BY DEF Kept, Sound, IsCache
<1>2. d = [nodes |-> c.nodes, sub |-> c.sub, entry |-> c.entry, lru |-> Youngest(c.lru, key), cached |-> c.cached]
  BY <1>1
<1>3. d.nodes = c.nodes /\ d.sub = c.sub /\ d.entry = c.entry /\ d.lru = Youngest(c.lru, key) /\ d.cached = c.cached
  BY <1>2
<1>4. Keys(d) = Keys(c) BY <1>3 DEF Keys
<1>5. /\ Tree(c, T) /\ Counts(c) /\ Grown(c, {}) /\ Paged(c) /\ Keys(c) \subseteq Seq(T)
      /\ c.lru \in Seq(Keys(c)) /\ Distinct(c.lru) /\ Among(c.lru) = Keys(c) /\ c.cached = PagesIn(c.lru)
  BY DEF Kept, Sound, Listed, Tree
<1>6. PICK rest : rest = Without(c.lru, {key}) OBVIOUS
<1>7. rest \in Seq(Keys(c)) /\ Distinct(rest) /\ Among(rest) = Keys(c) \ {key} BY <1>5, <1>6, WithoutKeeps
<1>8. d.lru = Append(rest, key) BY <1>3, <1>6 DEF Youngest
<1>9. d.lru \in Seq(Keys(c)) /\ Distinct(d.lru) /\ Among(d.lru) = Keys(c)
  <2>1. key \notin Among(rest) BY <1>7
  <2>2. Append(rest, key) \in Seq(Keys(c)) /\ Among(Append(rest, key)) = Among(rest) \union {key} /\ Distinct(Append(rest, key))
    BY <1>7, <2>1, AppendFacts
  <2> QED BY <1>7, <1>8, <2>2
<1>10. PagesIn(d.lru) = c.cached
  <2>1. c.lru \in Seq(Seq(T)) /\ rest \in Seq(Seq(T)) /\ key \in Seq(T) BY <1>5, <1>7, SeqWider
  <2>2. PagesIn(rest) = PagesIn(c.lru) - PagesOf(key) BY <1>5, <1>6, <2>1, PagesWithout
  <2>3. PagesIn(Append(rest, key)) = PagesIn(rest) + PagesOf(key) BY <2>1, PagesAppend
  <2>4. PICK x \in Nat : x = PagesIn(c.lru) BY <2>1, PagesAppend
  <2>5. PICK y \in Nat : y = PagesOf(key) BY <2>1, PagesAlong
  <2>6. PagesIn(rest) = x - y BY <2>2, <2>4, <2>5
  <2>7. PagesIn(d.lru) = (x - y) + y BY <1>8, <2>3, <2>5, <2>6
  <2>8. (x - y) + y = x OBVIOUS
  <2> QED BY <1>5, <2>4, <2>7, <2>8
<1>11. Listed(d) BY <1>3, <1>4, <1>9, <1>10 DEF Listed
<1>12. Tree(d, T) /\ Counts(d) /\ Grown(d, {}) /\ Paged(d)
  BY <1>3, <1>4, <1>5 DEF Tree, Counts, Grown, Paged, Children
<1>13. IsCache(d) BY <1>1, <1>2, <1>3, <1>4 DEF IsCache
<1> QED BY <1>3, <1>4, <1>11, <1>12, <1>13 DEF Kept, Sound

\* The eviction list: the oldest keys, just as many as the new one needs.
LEMMA EvictedIs ==
  ASSUME NEW c, NEW T, Kept(c, T), RadixAssumption, NEW need \in 0..CachePages
  PROVE  /\ EvictedKeys(c, need) \in Seq(Keys(c)) /\ Distinct(EvictedKeys(c, need))
         /\ c.cached + need - PagesIn(EvictedKeys(c, need)) <= CachePages
<1> DEFINE n == Len(c.lru)
           enough == {k \in 0..n : c.cached + need - PagesIn(SubSeq(c.lru, 1, k)) <= CachePages}
<1>1. /\ c.lru \in Seq(Keys(c)) /\ Distinct(c.lru) /\ c.cached = PagesIn(c.lru)
  BY DEF Kept, Sound, Listed
<1>2. n \in Nat /\ n \in 0..n BY <1>1
<1>3. SubSeq(c.lru, 1, n) = c.lru BY <1>1, SubSeqFull
<1>4. n \in enough
  <2>1. c.cached + need - c.cached <= CachePages /\ c.cached \in Nat BY DEF Kept, RadixAssumption
  <2> QED BY <1>1, <1>2, <1>3, <2>1
<1>5. EvictedKeys(c, need) = SubSeq(c.lru, 1, Min(enough \union {n})) BY Zenon DEF EvictedKeys
<1>6. enough \union {n} \subseteq Nat /\ enough \union {n} # {} /\ enough \subseteq 0..n BY <1>2
<1> HIDE DEF enough
<1>7. PICK m : m = Min(enough \union {n}) /\ m \in enough BY <1>4, <1>6, MinIsIn
<1>8. m \in 0..n BY <1>6, <1>7
<1>9. c.cached + need - PagesIn(SubSeq(c.lru, 1, m)) <= CachePages BY <1>7 DEF enough
<1>10. SubSeq(c.lru, 1, m) \in Seq(Keys(c)) /\ Len(SubSeq(c.lru, 1, m)) = m /\ \A i \in 1..m : SubSeq(c.lru, 1, m)[i] = c.lru[i]
  BY <1>1, <1>8, CutFacts
<1>11. Distinct(SubSeq(c.lru, 1, m))
  <2>1. \A i \in 1..m : i \in 1..n BY <1>8
  <2> QED BY <1>1, <1>10, <2>1 DEF Distinct
<1> QED BY <1>5, <1>7, <1>9, <1>10, <1>11

\* A key to insert: aligned, within the budget, and not cached yet.
NewKey(c, T, key) ==
  key \in Seq(T) /\ Len(key) = PagesOf(key) * Block /\ PagesOf(key) \in 1..CachePages /\ key \notin Keys(c)

Evicted(c, key) == EvictedKeys(c, PagesOf(key))

MakesRoom(c, T, key, d) ==
  /\ Sound(d, T, {key}) /\ Keys(d) = Keys(c) \ Among(Evicted(c, key))
  /\ d.entry = [k \in Keys(d) |-> c.entry[k]]
  /\ d.cached \in Nat /\ d.cached + PagesOf(key) <= CachePages
  /\ (\A k \in Keys(c) : ~IsPrefix(key, k)) => key \in d.nodes
  /\ Evicted(c, key) \in Seq(Keys(c)) /\ Distinct(Evicted(c, key))

LEMMA EvictKeeps ==
  ASSUME NEW c, NEW T, Kept(c, T), RadixAssumption, NEW key, NewKey(c, T, key), NEW d, d = Evict(c, key)
  PROVE  MakesRoom(c, T, key, d)
<1>1. PICK seq : seq = Evicted(c, key) OBVIOUS
<1>2. PagesOf(key) \in 0..CachePages /\ PagesOf(key) \in Nat /\ Block \in Nat \ {0} /\ CachePages \in Nat
  BY DEF NewKey, RadixAssumption
<1>3. seq \in Seq(Keys(c)) /\ Distinct(seq) /\ c.cached + PagesOf(key) - PagesIn(seq) <= CachePages
  BY <1>1, <1>2, EvictedIs DEF Evicted
<1>4. key \in Seq(T) /\ key # Root
  <2>1. Len(key) # 0
    <3>1. PICK m \in Nat \ {0} : m = PagesOf(key) BY <1>2 DEF NewKey
    <3>2. m * Block # 0 BY <1>2
    <3> QED BY <3>1, <3>2 DEF NewKey
  <2> QED BY <2>1 DEF NewKey, Root
<1>5. PICK w : w = WithPath(c, key) OBVIOUS
<1>6. Sound(w, T, {key}) /\ key \in w.nodes /\ Keys(w) = Keys(c) /\ w.entry = c.entry /\ w.cached = c.cached
  <2>1. Sound(c, T, {}) BY DEF Kept
  <2> QED BY <1>4, <1>5, <2>1, WithPathSound
<1>7. d = FoldLeft(RemoveEntry, w, seq) BY <1>1, <1>5, Zenon DEF Evict, Evicted
<1>8. seq \in Seq(Keys(w)) BY <1>3, <1>6
<1>9. Evicts(w, seq, d, T, {key}) BY <1>2, <1>3, <1>6, <1>7, <1>8, RemovedEvicts
<1>10. Sound(d, T, {key}) /\ Keys(d) = Keys(c) \ Among(seq) /\ d.entry = [k \in Keys(d) |-> c.entry[k]]
       /\ d.cached = c.cached - PagesIn(seq)
       /\ \A p \in w.nodes : (\A k \in Among(seq) : ~IsPrefix(p, k)) => p \in d.nodes
  <2>1. Evicts(w, seq, d, T, {key}) BY <1>9
  <2> QED BY <1>6, <2>1 DEF Evicts
<1>11. d.cached + PagesOf(key) <= CachePages /\ d.cached \in Nat
  <2>1. d.cached \in Nat /\ c.cached \in Nat
    <3>1. d.lru \in Seq(Keys(d)) /\ Keys(d) \subseteq Seq(T) /\ d.cached = PagesIn(d.lru)
      BY <1>10 DEF Sound, Listed, Tree
    <3>2. d.lru \in Seq(Seq(T)) BY <3>1, SeqWider
    <3>3. PagesIn(d.lru) \in Nat BY <1>2, <1>4, <3>2, PagesAppend
    <3> QED BY <3>1, <3>3 DEF Kept
  <2>2. PagesIn(seq) \in Nat
    <3>1. Keys(c) \subseteq Seq(T) BY DEF Kept, Sound, Tree
    <3>2. seq \in Seq(Seq(T)) BY <1>3, <3>1, SeqWider
    <3> QED BY <1>2, <1>4, <3>2, PagesAppend
  <2> QED BY <1>2, <1>3, <1>10, <2>1, <2>2
<1>12. ASSUME \A k \in Keys(c) : ~IsPrefix(key, k) PROVE key \in d.nodes
  <2>1. Among(seq) \subseteq Keys(c) BY <1>3 DEF Among
  <2> QED BY <1>6, <1>10, <1>12, <2>1
<1> QED BY <1>1, <1>3, <1>10, <1>11, <1>12 DEF MakesRoom

Admits(c, T, key, base, d) ==
  /\ Kept(d, T) /\ Keys(d) = Keys(c) \union {key}
  /\ d.entry = [k \in Keys(c) \union {key} |-> IF k = key THEN base ELSE c.entry[k]]

LEMMA AdmitKept ==
  ASSUME NEW c, NEW T, RadixAssumption, NEW key \in c.nodes, Sound(c, T, {key}), NewKey(c, T, key),
         c.cached \in Nat, c.cached + PagesOf(key) <= CachePages, NEW base, NEW d, d = Admit(c, key, base)
  PROVE  Admits(c, T, key, base, d)
<1> DEFINE sub == [p \in DOMAIN c.sub |-> IF IsPrefix(p, key) THEN c.sub[p] + 1 ELSE c.sub[p]]
           entry == [k \in Keys(c) \union {key} |-> IF k = key THEN base ELSE c.entry[k]]
<1>1. /\ c = [nodes |-> c.nodes, sub |-> c.sub, entry |-> c.entry, lru |-> c.lru, cached |-> c.cached]
      /\ c.sub = [p \in c.nodes \union {Root} |-> Cardinality(Under(Keys(c), p))]
      /\ Tree(c, T) /\ Grown(c, {key}) /\ Paged(c) /\ Keys(c) \subseteq Seq(T)
      /\ c.lru \in Seq(Keys(c)) /\ Distinct(c.lru) /\ Among(c.lru) = Keys(c) /\ c.cached = PagesIn(c.lru)
  BY DEF Sound, IsCache, Counts, Listed, Tree
<1>2. d = [c EXCEPT !.sub = sub, !.entry = entry, !.lru = Append(c.lru, key), !.cached = c.cached + PagesOf(key)]
  BY Zenon DEF Admit
<1> HIDE DEF sub, entry
<1>3. d = [nodes |-> c.nodes, sub |-> sub, entry |-> entry, lru |-> Append(c.lru, key), cached |-> c.cached + PagesOf(key)]
  BY <1>1, <1>2
<1>4. d.nodes = c.nodes /\ d.sub = sub /\ d.entry = entry /\ d.lru = Append(c.lru, key) /\ d.cached = c.cached + PagesOf(key)
  BY <1>3
<1>5. Keys(d) = Keys(c) \union {key} BY <1>4 DEF Keys, entry
<1>6. IsCache(d)
  <2>1. d.entry = [k \in Keys(d) |-> d.entry[k]] BY <1>4, <1>5 DEF entry
  <2> QED BY <1>3, <1>4, <2>1 DEF IsCache
<1>7. Tree(d, T) BY <1>1, <1>4, <1>5 DEF Tree
<1>8. Counts(d)
  <2>1. ASSUME NEW p \in c.nodes \union {Root}
        PROVE  (IF IsPrefix(p, key) THEN c.sub[p] + 1 ELSE c.sub[p]) = Cardinality(Under(Keys(d), p))
    <3>1. c.sub[p] = Cardinality(Under(Keys(c), p)) /\ IsFiniteSet(Under(Keys(c), p)) BY <1>1, TreeFinite
    <3>2. CASE IsPrefix(p, key)
      <4>1. Under(Keys(d), p) = Under(Keys(c), p) \union {key} /\ key \notin Under(Keys(c), p)
        BY <1>5, <3>2 DEF Under, NewKey
      <4>2. Cardinality(Under(Keys(d), p)) = Cardinality(Under(Keys(c), p)) + 1
        BY <3>1, <4>1, FS_AddElement
      <4> QED BY <3>1, <3>2, <4>2
    <3>3. CASE ~IsPrefix(p, key)
      <4>1. Under(Keys(d), p) = Under(Keys(c), p) BY <1>5, <3>3 DEF Under
      <4> QED BY <3>1, <3>3, <4>1
    <3> QED BY <3>2, <3>3
  <2>2. DOMAIN c.sub = c.nodes \union {Root} BY <1>1
  <2>3. d.sub = [p \in d.nodes \union {Root} |-> Cardinality(Under(Keys(d), p))]
    BY <1>4, <2>1, <2>2 DEF sub
  <2> QED BY <2>3 DEF Counts
<1>9. Listed(d)
  <2>1. c.lru \in Seq(Keys(d)) /\ key \in Keys(d) BY <1>1, <1>5, SeqWider
  <2>2. key \notin Among(c.lru) BY <1>1 DEF NewKey
  <2>3. d.lru \in Seq(Keys(d)) /\ Distinct(d.lru) /\ Among(d.lru) = Keys(d) BY <1>1, <1>4, <1>5, <2>1, <2>2, AppendFacts
  <2>4. PagesIn(d.lru) = d.cached
    <3>1. c.lru \in Seq(Seq(T)) BY <1>1, SeqWider
    <3>2. key \in Seq(T) /\ Block \in Nat \ {0} BY DEF NewKey, RadixAssumption
    <3> QED BY <1>1, <1>4, <3>1, <3>2, PagesAppend
  <2> QED BY <2>3, <2>4 DEF Listed
<1>10. Grown(d, {}) BY <1>1, <1>4, <1>5 DEF Grown, Children
<1>11. Paged(d) BY <1>1, <1>5 DEF Paged, NewKey
<1>12. d.cached \in Nat /\ d.cached <= CachePages
  <2>1. PagesOf(key) \in Nat BY DEF NewKey, RadixAssumption
  <2> QED BY <1>4, <2>1
<1> QED BY <1>4, <1>5, <1>6, <1>7, <1>8, <1>9, <1>10, <1>11, <1>12 DEF Kept, Sound, entry, Admits

\* insert, for a key that is not there: the evicted entries go, the new one comes.
Inserts(c, T, key, base, d) ==
  /\ Kept(d, T) /\ Keys(d) = (Keys(c) \ Among(Evicted(c, key))) \union {key}
  /\ d.entry = [k \in Keys(d) |-> IF k = key THEN base ELSE c.entry[k]]
  /\ Evicted(c, key) \in Seq(Keys(c)) /\ Distinct(Evicted(c, key))

LEMMA InsertKept ==
  ASSUME NEW c, NEW T, Kept(c, T), RadixAssumption, NEW key, NewKey(c, T, key), ~PathGone(c, key),
         NEW base, NEW d, d = Insert(c, key, base)
  PROVE  Inserts(c, T, key, base, d)
<1>1. PICK e : e = Evict(c, key) OBVIOUS
<1>9. MakesRoom(c, T, key, e) BY <1>1, EvictKeeps
<1>2. /\ Sound(e, T, {key}) /\ Keys(e) = Keys(c) \ Among(Evicted(c, key))
      /\ e.entry = [k \in Keys(e) |-> c.entry[k]]
      /\ e.cached \in Nat /\ e.cached + PagesOf(key) <= CachePages
      /\ Evicted(c, key) \in Seq(Keys(c)) /\ Distinct(Evicted(c, key))
  BY <1>9, Zenon DEF MakesRoom
<1>3. key \in e.nodes BY <1>1 DEF PathGone
<1>4. NewKey(e, T, key) BY <1>2 DEF NewKey
<1>5. d = Admit(e, key, base) BY <1>1 DEF Insert, IsRefresh, NewKey
<1>6. Kept(d, T) /\ Keys(d) = Keys(e) \union {key}
      /\ d.entry = [k \in Keys(e) \union {key} |-> IF k = key THEN base ELSE e.entry[k]]
  <2>1. Admits(e, T, key, base, d) BY <1>2, <1>3, <1>4, <1>5, AdmitKept
  <2> QED BY <2>1, Zenon DEF Admits
<1>7. \A k \in Keys(d) : (IF k = key THEN base ELSE e.entry[k]) = (IF k = key THEN base ELSE c.entry[k])
  BY <1>2, <1>6
<1>8. d.entry = [k \in Keys(d) |-> IF k = key THEN base ELSE c.entry[k]]
  BY <1>6, <1>7
<1> QED BY <1>2, <1>6, <1>8 DEF Inserts

\* A key that is looked up first, and not found in full, is on no cached key's
\* way: no eviction takes its path.
LEMMA MissIsSafe ==
  ASSUME NEW c, NEW T, Kept(c, T), RadixAssumption, NEW key \in Seq(T),
         Len(key) = PagesOf(key) * Block, PagesOf(key) \in 1..CachePages, HitLen(c, key) < Len(key)
  PROVE  NewKey(c, T, key) /\ ~PathGone(c, key)
<1>1. PICK n \in Nat : n = Len(key) OBVIOUS
<1>2. n % Block = 0
  <2>1. PICK m \in Nat : m = PagesOf(key) BY DEF RadixAssumption
  <2>2. n \div Block = m BY <1>1, <2>1 DEF PagesOf
  <2>3. n = (n \div Block) * Block BY <1>1, <2>1, <2>2
  <2> QED BY <1>1, <2>3, DivMod DEF RadixAssumption
<1>3. ASSUME NEW k \in Keys(c), IsPrefix(key, k) PROVE FALSE
  <2>1. Stem(key, n) = key BY <1>1, SubSeqFull DEF Stem
  <2>2. HitLen(c, key) \in 0..n /\ HitLen(c, key) < n /\ \A x \in Keys(c), d \in 1..n : d % Block = 0 /\ IsPrefix(Stem(key, d), x) => d <= HitLen(c, key)
    BY <1>1, HitFacts DEF Kept, RadixAssumption
  <2>3. n \in 1..n BY <1>1, <2>2
  <2>4. n <= HitLen(c, key) BY <1>2, <1>3, <2>1, <2>2, <2>3
  <2> QED BY <1>1, <2>2, <2>4
<1>4. key \notin Keys(c)
  <2>1. IsPrefix(key, key) BY PrefixOrder
  <2> QED BY <1>3, <2>1
<1>5. NewKey(c, T, key) BY <1>4 DEF NewKey
<1>6. key \in Evict(c, key).nodes BY <1>3, <1>5, EvictKeeps DEF MakesRoom
<1> QED BY <1>5, <1>6 DEF PathGone

-----------------------------------------------------------------------------
(* Pools *)

\* A pool of the pages P, whose free list is the stretches of the pages
\* without references.
Pooled(pool, P) ==
  /\ pool = [refs |-> pool.refs, free |-> pool.free]
  /\ P \subseteq Nat /\ pool.refs \in [P -> Nat]
  /\ Stretches(pool.free, {p \in P : pool.refs[p] = 0})

\* What an allocation, a reference and a release do to a pool.
Grants(pool, P, seg, q) ==
  /\ Pooled(q, P) /\ seg \in Run /\ SegPages(seg) \subseteq P
  /\ \A p \in P : q.refs[p] = IF p \in SegPages(seg) THEN 1 ELSE pool.refs[p]
  /\ \A p \in SegPages(seg) : pool.refs[p] = 0

Refers(pool, P, S, q) ==
  /\ Pooled(q, P)
  /\ \A p \in P : q.refs[p] = IF p \in S THEN pool.refs[p] + 1 ELSE pool.refs[p]

Drops(pool, P, S, q) ==
  /\ Pooled(q, P)
  /\ \A p \in P : q.refs[p] = IF p \in S THEN pool.refs[p] - 1 ELSE pool.refs[p]

LEMMA AllocGrants ==
  ASSUME NEW pool, NEW P, Pooled(pool, P), NEW n \in Nat \ {0}, CanAlloc(pool, n), NEW q, q = Alloc(pool, n)
  PROVE  Grants(pool, P, AllocSeg(pool, n), q) /\ AllocSeg(pool, n).len = n
<1> DEFINE i == FirstFit(pool, n)
           r == pool.free[i]
           left == Seg(r.base + n, r.len - n)
           seg == Seg(r.base, n)
           F == {p \in P : pool.refs[p] = 0}
           refs == [p \in P |-> IF p \in SegPages(seg) THEN 1 ELSE pool.refs[p]]
           free == (IF left.len > 0 THEN <<left>> ELSE <<>>) \o RemoveAt(pool.free, i)
<1>0. Stretches(pool.free, F) /\ n \in Nat BY DEF Pooled
<1>1. pool.free \in Seq(Run) BY <1>0 DEF Stretches
<1>2. i \in 1..Len(pool.free) /\ r.len >= n BY <1>0, <1>1, FitFacts DEF CanAlloc
<1>3. r \in Run /\ n <= r.len
  <2>1. r \in Run BY <1>1, <1>2
  <2>2. r.len \in Nat BY <2>1, RunFacts
  <2> QED BY <1>2, <2>1, <2>2
<1>4. AllocSeg(pool, n) = seg BY DEF AllocSeg
<1>5. DOMAIN pool.refs = P BY DEF Pooled
<1>6. q = [refs |-> refs, free |-> free] BY <1>5, Zenon DEF Alloc, CutFrom
<1>7. seg.len = n BY DEF Seg
<1> HIDE DEF i, r
<1>8. /\ seg \in Run
      /\ \/ left.len = 0 /\ SegPages(seg) = SegPages(r)
         \/ /\ left \in Run
            /\ SegPages(left) \union SegPages(seg) = SegPages(r)
            /\ SegPages(left) \intersect SegPages(seg) = {}
            /\ r.base <= left.base /\ SegEnd(left) <= SegEnd(r)
  BY <1>3, CutsOf
<1> HIDE DEF seg, left, F, refs
<1>9. SegPages(seg) \subseteq F /\ Stretches(free, F \ SegPages(seg))
  BY <1>0, <1>2, <1>8, CutKeeps DEF r
<1> HIDE DEF free
<1>10. q.refs = refs /\ q.free = free BY <1>6
<1>11. SegPages(seg) \subseteq P /\ \A p \in SegPages(seg) : pool.refs[p] = 0 BY <1>9 DEF F
<1>12. refs \in [P -> Nat] /\ \A p \in P : refs[p] = IF p \in SegPages(seg) THEN 1 ELSE pool.refs[p]
  BY DEF refs, Pooled
<1>13. {p \in P : refs[p] = 0} = F \ SegPages(seg) BY <1>12 DEF F
<1>14. Pooled(q, P) BY <1>6, <1>9, <1>10, <1>12, <1>13 DEF Pooled
<1> QED BY <1>4, <1>7, <1>8, <1>10, <1>11, <1>12, <1>14 DEF Grants

LEMMA RefRefers ==
  ASSUME NEW pool, NEW P, Pooled(pool, P), NEW seg, \A p \in SegPages(seg) : pool.refs[p] >= 1,
         NEW q, q = Ref(pool, seg)
  PROVE  Refers(pool, P, SegPages(seg), q)
<1> DEFINE refs == [p \in P |-> IF p \in SegPages(seg) THEN pool.refs[p] + 1 ELSE pool.refs[p]]
<1>1. pool = [refs |-> pool.refs, free |-> pool.free] /\ pool.refs \in [P -> Nat] BY DEF Pooled
<1>2. DOMAIN pool.refs = P BY <1>1
<1>3. q = [pool EXCEPT !.refs = refs] BY <1>2, Zenon DEF Ref
<1>4. refs \in [P -> Nat] /\ \A p \in P : refs[p] = IF p \in SegPages(seg) THEN pool.refs[p] + 1 ELSE pool.refs[p]
  BY <1>1
<1> HIDE DEF refs
<1>5. q = [refs |-> refs, free |-> pool.free] BY <1>1, <1>3
<1>6. q.refs = refs /\ q.free = pool.free BY <1>5
<1>7. {p \in P : refs[p] = 0} = {p \in P : pool.refs[p] = 0}
  <2>1. \A p \in P : pool.refs[p] \in Nat BY <1>1
  <2> QED BY <1>4, <2>1
<1>8. Pooled(q, P) BY <1>4, <1>5, <1>6, <1>7 DEF Pooled
<1> QED BY <1>4, <1>6, <1>8 DEF Refers

LEMMA UnrefDrops ==
  ASSUME NEW pool, NEW P, Pooled(pool, P), NEW seg \in Run, SegPages(seg) \subseteq P,
         \A p \in SegPages(seg) : pool.refs[p] >= 1, NEW q, q = Unref(pool, seg)
  PROVE  Drops(pool, P, SegPages(seg), q)
<1> DEFINE refs == [p \in P |-> IF p \in SegPages(seg) THEN pool.refs[p] - 1 ELSE pool.refs[p]]
           free == Inserted(pool.free, ZeroedRuns(pool.refs, seg))
           F == {p \in P : pool.refs[p] = 0}
           Z == {p \in SegPages(seg) : pool.refs[p] = 1}
<1>1. pool.refs \in [P -> Nat] /\ Stretches(pool.free, F) BY DEF Pooled
<1>2. DOMAIN pool.refs = P /\ \A p \in P : pool.refs[p] \in Nat BY <1>1
<1>3. q = [refs |-> refs, free |-> free] BY <1>2, Zenon DEF Unref, Inserted
<1>4. \A p \in P : refs[p] = IF p \in SegPages(seg) THEN pool.refs[p] - 1 ELSE pool.refs[p] OBVIOUS
<1>5. refs \in [P -> Nat] BY <1>2
<1> HIDE DEF refs
<1>6. \A p \in F : pool.refs[p] = 0 OBVIOUS
<1>7. Stretches(free, F \union Z)
  <2> HIDE DEF F
  <2> QED BY <1>1, <1>6, UnrefKeeps
<1>8. {p \in P : refs[p] = 0} = F \union Z BY <1>2, <1>4
<1> HIDE DEF free, F, Z
<1>9. q.refs = refs /\ q.free = free BY <1>3
<1>10. Pooled(q, P) BY <1>3, <1>5, <1>7, <1>8, <1>9 DEF Pooled
<1> QED BY <1>4, <1>9, <1>10 DEF Drops

-----------------------------------------------------------------------------
(* Runs referenced or released one after the other *)

Referenced(base, seq) == FoldLeft(Ref, base, seq)
ReferencesTo(pre, base, seq, A) ==
  /\ Along(pre, Len(seq), A, base) /\ Referenced(base, seq) = pre[Len(seq)]
  /\ \A k \in 1..Len(seq) : pre[k] = Ref(pre[k - 1], seq[k])

LEMMA RefFold ==
  ASSUME NEW A, NEW base \in A, NEW S, NEW seq \in Seq(S),
         \A a \in A, i \in 1..Len(seq) : Ref(a, seq[i]) \in A
  PROVE  \E pre : ReferencesTo(pre, base, seq, A)
<1> DEFINE n == Len(seq)
           step == [i \in 1..n |-> [a \in A |-> Ref(a, seq[i])]]
           Fix(f) == f = [T \in SUBSET (1..n) |->
                            IF T = {} THEN base
                            ELSE Ref(f[T \ {Max(T)}], seq[Max(T)])]
           iter == CHOOSE f : Fix(f)
<1>1. n \in Nat /\ DOMAIN seq = 1..n OBVIOUS
<1>2. step \in [1..n -> [A -> A]] /\ \A i \in 1..n, a \in A : step[i][a] = Ref(a, seq[i])
  OBVIOUS
<1>3. Referenced(base, seq) = iter[1..n]
  BY <1>1, Zenon DEF FoldLeft, MapThenFoldSet, Referenced
<1> HIDE DEF n, step
<1>4. PICK f : Solves(f, n, A, base, step) BY <1>1, <1>2, FoldExists
<1>5. /\ f \in [SUBSET (1..n) -> A]
      /\ \A T \in SUBSET (1..n) : f[T] = IF T = {} THEN base ELSE step[Max(T)][f[T \ {Max(T)}]]
  BY <1>4 DEF Solves
<1>6. \A T \in SUBSET (1..n) : T # {} => Max(T) \in 1..n /\ T \ {Max(T)} \in SUBSET (1..n)
  BY <1>1, MaxIsIn
<1>7. Fix(iter)
  <2>1. ASSUME NEW T \in SUBSET (1..n)
        PROVE  f[T] = IF T = {} THEN base ELSE Ref(f[T \ {Max(T)}], seq[Max(T)])
    <3>1. T # {} => f[T \ {Max(T)}] \in A BY <1>5, <1>6
    <3> QED BY <1>2, <1>5, <1>6, <3>1
  <2>2. Fix(f) BY <1>5, <2>1
  <2> QED BY <2>2
<1> HIDE DEF iter
<1>8. \A T \in SUBSET (1..n) :
        iter[T] = IF T = {} THEN base ELSE Ref(iter[T \ {Max(T)}], seq[Max(T)])
  BY <1>7
<1> HIDE DEF Fix
<1>9. iter[{}] = base BY <1>8
<1>10. Unwinds(iter, n, A, base, step)
  <2>1. ASSUME NEW T \in SUBSET (1..n), T # {}, iter[T \ {Max(T)}] \in A
        PROVE  iter[T] = step[Max(T)][iter[T \ {Max(T)}]]
    BY <1>2, <1>6, <1>8, <2>1
  <2> QED BY <1>9, <2>1 DEF Unwinds
<1>11. PICK pre : Follows(pre, n, A, base, step) /\ iter[1..n] = pre[n]
  BY <1>1, <1>2, <1>10, PrefixesOf
<1>12. /\ Along(pre, n, A, base) /\ iter[1..n] = pre[n]
       /\ \A k \in 1..n : pre[k] = step[k][pre[k - 1]]
  BY <1>11 DEF Follows
<1>13. \A k \in 1..n : pre[k] = Ref(pre[k - 1], seq[k])
  <2> TAKE k \in 1..n
  <2>1. pre[k - 1] \in A BY <1>1, <1>12, PrefixFacts DEF Along
  <2> QED BY <1>2, <1>12, <2>1
<1> QED BY <1>3, <1>12, <1>13 DEF n, ReferencesTo

Dereferenced(base, seq) == FoldLeft(Unref, base, seq)
DereferencesTo(pre, base, seq, A) ==
  /\ Along(pre, Len(seq), A, base) /\ Dereferenced(base, seq) = pre[Len(seq)]
  /\ \A k \in 1..Len(seq) : pre[k] = Unref(pre[k - 1], seq[k])

LEMMA UnrefFold ==
  ASSUME NEW A, NEW base \in A, NEW S, NEW seq \in Seq(S),
         \A a \in A, i \in 1..Len(seq) : Unref(a, seq[i]) \in A
  PROVE  \E pre : DereferencesTo(pre, base, seq, A)
<1> DEFINE n == Len(seq)
           step == [i \in 1..n |-> [a \in A |-> Unref(a, seq[i])]]
           Fix(f) == f = [T \in SUBSET (1..n) |->
                            IF T = {} THEN base
                            ELSE Unref(f[T \ {Max(T)}], seq[Max(T)])]
           iter == CHOOSE f : Fix(f)
<1>1. n \in Nat /\ DOMAIN seq = 1..n OBVIOUS
<1>2. step \in [1..n -> [A -> A]] /\ \A i \in 1..n, a \in A : step[i][a] = Unref(a, seq[i])
  OBVIOUS
<1>3. Dereferenced(base, seq) = iter[1..n]
  BY <1>1, Zenon DEF FoldLeft, MapThenFoldSet, Dereferenced
<1> HIDE DEF n, step
<1>4. PICK f : Solves(f, n, A, base, step) BY <1>1, <1>2, FoldExists
<1>5. /\ f \in [SUBSET (1..n) -> A]
      /\ \A T \in SUBSET (1..n) : f[T] = IF T = {} THEN base ELSE step[Max(T)][f[T \ {Max(T)}]]
  BY <1>4 DEF Solves
<1>6. \A T \in SUBSET (1..n) : T # {} => Max(T) \in 1..n /\ T \ {Max(T)} \in SUBSET (1..n)
  BY <1>1, MaxIsIn
<1>7. Fix(iter)
  <2>1. ASSUME NEW T \in SUBSET (1..n)
        PROVE  f[T] = IF T = {} THEN base ELSE Unref(f[T \ {Max(T)}], seq[Max(T)])
    <3>1. T # {} => f[T \ {Max(T)}] \in A BY <1>5, <1>6
    <3> QED BY <1>2, <1>5, <1>6, <3>1
  <2>2. Fix(f) BY <1>5, <2>1
  <2> QED BY <2>2
<1> HIDE DEF iter
<1>8. \A T \in SUBSET (1..n) :
        iter[T] = IF T = {} THEN base ELSE Unref(iter[T \ {Max(T)}], seq[Max(T)])
  BY <1>7
<1> HIDE DEF Fix
<1>9. iter[{}] = base BY <1>8
<1>10. Unwinds(iter, n, A, base, step)
  <2>1. ASSUME NEW T \in SUBSET (1..n), T # {}, iter[T \ {Max(T)}] \in A
        PROVE  iter[T] = step[Max(T)][iter[T \ {Max(T)}]]
    BY <1>2, <1>6, <1>8, <2>1
  <2> QED BY <1>9, <2>1 DEF Unwinds
<1>11. PICK pre : Follows(pre, n, A, base, step) /\ iter[1..n] = pre[n]
  BY <1>1, <1>2, <1>10, PrefixesOf
<1>12. /\ Along(pre, n, A, base) /\ iter[1..n] = pre[n]
       /\ \A k \in 1..n : pre[k] = step[k][pre[k - 1]]
  BY <1>11 DEF Follows
<1>13. \A k \in 1..n : pre[k] = Unref(pre[k - 1], seq[k])
  <2> TAKE k \in 1..n
  <2>1. pre[k - 1] \in A BY <1>1, <1>12, PrefixFacts DEF Along
  <2> QED BY <1>2, <1>12, <2>1
<1> QED BY <1>3, <1>12, <1>13 DEF n, DereferencesTo

\* Records a reference or a release stays among.
Pools(P) == [refs : [P -> Int], free : Seq(Run)]

LEMMA PoolShape ==
  ASSUME NEW P, NEW pool \in Pools(P), NEW seg \in Run
  PROVE  Ref(pool, seg) \in Pools(P) /\ Unref(pool, seg) \in Pools(P)
<1>1. /\ pool.refs \in [P -> Int] /\ pool.free \in Seq(Run) /\ DOMAIN pool.refs = P
      /\ pool = [refs |-> pool.refs, free |-> pool.free]
  BY DEF Pools
<1>2. Ref(pool, seg) \in Pools(P)
  <2> DEFINE refs == [p \in P |-> IF p \in SegPages(seg) THEN pool.refs[p] + 1 ELSE pool.refs[p]]
  <2>1. Ref(pool, seg) = [pool EXCEPT !.refs = refs] BY <1>1, Zenon DEF Ref
  <2>2. refs \in [P -> Int] BY <1>1
  <2> HIDE DEF refs
  <2> QED BY <1>1, <2>1, <2>2 DEF Pools
<1>3. Unref(pool, seg) \in Pools(P)
  <2> DEFINE refs == [p \in P |-> IF p \in SegPages(seg) THEN pool.refs[p] - 1 ELSE pool.refs[p]]
             zs == ZeroedRuns(pool.refs, seg)
             free == Inserted(pool.free, zs)
  <2>1. Unref(pool, seg) = [refs |-> refs, free |-> free] BY <1>1, Zenon DEF Unref, Inserted
  <2>2. refs \in [P -> Int] BY <1>1
  <2>3. zs \in Seq(Run) BY ZeroedStretches DEF Stretches
  <2> HIDE DEF refs, zs
  <2>4. free \in Seq(Run)
    <3>0. \A i \in 1..Len(zs) : zs[i] \in Run BY <2>3
    <3>1. \A a \in Seq(Run), i \in 1..Len(zs) : InsertRun(a, zs[i]) \in Seq(Run) BY <3>0, InsertType
    <3>2. PICK pre : /\ Along(pre, Len(zs), Seq(Run), pool.free)
                     /\ Inserted(pool.free, zs) = pre[Len(zs)]
      BY <1>1, <2>3, <3>1, InsertFold
    <3>3. Len(zs) \in Nat BY <2>3
    <3>4. pre[Len(zs)] \in Seq(Run) BY <3>2, <3>3 DEF Along
    <3> QED BY <3>2, <3>4
  <2> HIDE DEF free
  <2> QED BY <2>1, <2>2, <2>4 DEF Pools
<1> QED BY <1>2, <1>3

LEMMA PooledIs == ASSUME NEW pool, NEW P, Pooled(pool, P) PROVE pool \in Pools(P)
<1>1. pool.refs \in [P -> Int] /\ pool.free \in Seq(Run) BY DEF Pooled, Stretches
<1> QED BY <1>1 DEF Pooled, Pools

\* Runs without a common page.
AllDisjoint(seq) == \A i, j \in 1..Len(seq) : i # j => SegPages(seq[i]) \intersect SegPages(seq[j]) = {}

PagesTo(seq, k) == UNION {SegPages(seq[i]) : i \in 1..k}

LEMMA UpToFacts ==
  ASSUME NEW seq, Len(seq) \in Nat
  PROVE  /\ PagesTo(seq, 0) = {} /\ PagesTo(seq, Len(seq)) = Covered(seq)
         /\ \A k \in 1..Len(seq) : /\ PagesTo(seq, k) = PagesTo(seq, k - 1) \union SegPages(seq[k])
                                   /\ AllDisjoint(seq) => SegPages(seq[k]) \intersect PagesTo(seq, k - 1) = {}
                                   /\ PagesTo(seq, k) \subseteq Covered(seq)
<1>1. PagesTo(seq, 0) = {} BY DEF PagesTo
<1>2. PagesTo(seq, Len(seq)) = Covered(seq) BY DEF PagesTo, Covered
<1>3. ASSUME NEW k \in 1..Len(seq)
      PROVE  /\ PagesTo(seq, k) = PagesTo(seq, k - 1) \union SegPages(seq[k])
             /\ AllDisjoint(seq) => SegPages(seq[k]) \intersect PagesTo(seq, k - 1) = {}
             /\ PagesTo(seq, k) \subseteq Covered(seq)
  <2>1. 1..k = 1..(k - 1) \union {k} /\ k \notin 1..(k - 1) OBVIOUS
  <2>2. 1..k \subseteq 1..Len(seq) OBVIOUS
  <2>3. PagesTo(seq, k) = PagesTo(seq, k - 1) \union SegPages(seq[k]) BY <2>1 DEF PagesTo
  <2>4. PagesTo(seq, k) \subseteq Covered(seq) BY <2>2 DEF PagesTo, Covered
  <2>5. ASSUME AllDisjoint(seq) PROVE SegPages(seq[k]) \intersect PagesTo(seq, k - 1) = {}
    <3>1. ASSUME NEW i \in 1..(k - 1) PROVE SegPages(seq[k]) \intersect SegPages(seq[i]) = {}
      BY <2>1, <2>2, <2>5, <3>1 DEF AllDisjoint
    <3> QED BY <3>1 DEF PagesTo
  <2> QED BY <2>3, <2>4, <2>5
<1> QED BY <1>1, <1>2, <1>3

LEMMA RefRuns ==
  ASSUME NEW pool, NEW P, Pooled(pool, P), NEW seq \in Seq(Run), AllDisjoint(seq), Covered(seq) \subseteq P,
         \A p \in Covered(seq) : pool.refs[p] >= 1, NEW q, q = Referenced(pool, seq)
  PROVE  Refers(pool, P, Covered(seq), q)
<1> DEFINE n == Len(seq)
<1>1. n \in Nat /\ \A k \in 1..n : seq[k] \in Run OBVIOUS
<1>2. pool \in Pools(P) BY PooledIs
<1>3. \A a \in Pools(P), i \in 1..Len(seq) : Ref(a, seq[i]) \in Pools(P) BY <1>1, PoolShape
<1>4. PICK pre : ReferencesTo(pre, pool, seq, Pools(P)) BY <1>2, <1>3, RefFold
<1>5. pre[0] = pool /\ q = pre[n] /\ \A k \in 1..n : pre[k] = Ref(pre[k - 1], seq[k])
  BY <1>4 DEF ReferencesTo, Along
<1> DEFINE S == {k \in 0..n : Refers(pool, P, PagesTo(seq, k), pre[k])}
<1>6. 0 \in S
  <2>1. Refers(pool, P, PagesTo(seq, 0), pre[0]) BY <1>1, <1>5, UpToFacts DEF Refers
  <2> QED BY <1>1, <2>1
<1>7. ASSUME NEW k \in 1..n, k - 1 \in S PROVE k \in S
  <2>1. PICK a : a = pre[k - 1] OBVIOUS
  <2>2. Refers(pool, P, PagesTo(seq, k - 1), a) BY <1>7, <2>1
  <2>3. /\ PagesTo(seq, k) = PagesTo(seq, k - 1) \union SegPages(seq[k])
        /\ SegPages(seq[k]) \intersect PagesTo(seq, k - 1) = {} /\ PagesTo(seq, k) \subseteq Covered(seq)
    BY <1>1, UpToFacts
  <2>4. \A p \in SegPages(seq[k]) : a.refs[p] = pool.refs[p] BY <2>2, <2>3 DEF Refers
  <2>5. \A p \in SegPages(seq[k]) : a.refs[p] >= 1 BY <2>3, <2>4
  <2>6. PICK b : b = pre[k] OBVIOUS
  <2>7. b = Ref(a, seq[k]) BY <1>5, <2>1, <2>6
  <2>8. Refers(a, P, SegPages(seq[k]), b) BY <2>2, <2>5, <2>7, RefRefers DEF Refers
  <2>9. ASSUME NEW p \in P PROVE b.refs[p] = IF p \in PagesTo(seq, k) THEN pool.refs[p] + 1 ELSE pool.refs[p]
    <3>1. b.refs[p] = IF p \in SegPages(seq[k]) THEN a.refs[p] + 1 ELSE a.refs[p] BY <2>8 DEF Refers
    <3>2. a.refs[p] = IF p \in PagesTo(seq, k - 1) THEN pool.refs[p] + 1 ELSE pool.refs[p] BY <2>2 DEF Refers
    <3> QED BY <2>3, <3>1, <3>2
  <2>10. Refers(pool, P, PagesTo(seq, k), pre[k]) BY <2>6, <2>8, <2>9 DEF Refers
  <2> QED BY <1>1, <2>10
<1> HIDE DEF S
<1>8. \A k \in 0..n : k \in S BY <1>1, <1>6, <1>7, PrefixInduction
<1>9. n \in S BY <1>1, <1>8
<1> QED BY <1>1, <1>5, <1>9, UpToFacts DEF S

LEMMA UnrefRuns ==
  ASSUME NEW pool, NEW P, Pooled(pool, P), NEW seq \in Seq(Run), AllDisjoint(seq), Covered(seq) \subseteq P,
         \A p \in Covered(seq) : pool.refs[p] >= 1, NEW q, q = Dereferenced(pool, seq)
  PROVE  Drops(pool, P, Covered(seq), q)
<1> DEFINE n == Len(seq)
<1>1. n \in Nat /\ \A k \in 1..n : seq[k] \in Run OBVIOUS
<1>2. pool \in Pools(P) BY PooledIs
<1>3. \A a \in Pools(P), i \in 1..Len(seq) : Unref(a, seq[i]) \in Pools(P) BY <1>1, PoolShape
<1>4. PICK pre : DereferencesTo(pre, pool, seq, Pools(P)) BY <1>2, <1>3, UnrefFold
<1>5. pre[0] = pool /\ q = pre[n] /\ \A k \in 1..n : pre[k] = Unref(pre[k - 1], seq[k])
  BY <1>4 DEF DereferencesTo, Along
<1> DEFINE S == {k \in 0..n : Drops(pool, P, PagesTo(seq, k), pre[k])}
<1>6. 0 \in S
  <2>1. Drops(pool, P, PagesTo(seq, 0), pre[0]) BY <1>1, <1>5, UpToFacts DEF Drops
  <2> QED BY <1>1, <2>1
<1>7. ASSUME NEW k \in 1..n, k - 1 \in S PROVE k \in S
  <2>1. PICK a : a = pre[k - 1] OBVIOUS
  <2>2. Drops(pool, P, PagesTo(seq, k - 1), a) BY <1>7, <2>1
  <2>3. /\ PagesTo(seq, k) = PagesTo(seq, k - 1) \union SegPages(seq[k])
        /\ SegPages(seq[k]) \intersect PagesTo(seq, k - 1) = {} /\ PagesTo(seq, k) \subseteq Covered(seq)
    BY <1>1, UpToFacts
  <2>4. \A p \in SegPages(seq[k]) : a.refs[p] = pool.refs[p] BY <2>2, <2>3 DEF Drops
  <2>5. (\A p \in SegPages(seq[k]) : a.refs[p] >= 1) /\ SegPages(seq[k]) \subseteq P BY <2>3, <2>4
  <2>6. PICK b : b = pre[k] OBVIOUS
  <2>7. b = Unref(a, seq[k]) BY <1>5, <2>1, <2>6
  <2>8. Drops(a, P, SegPages(seq[k]), b) BY <1>1, <2>2, <2>5, <2>7, UnrefDrops DEF Drops
  <2>9. ASSUME NEW p \in P PROVE b.refs[p] = IF p \in PagesTo(seq, k) THEN pool.refs[p] - 1 ELSE pool.refs[p]
    <3>1. b.refs[p] = IF p \in SegPages(seq[k]) THEN a.refs[p] - 1 ELSE a.refs[p] BY <2>8 DEF Drops
    <3>2. a.refs[p] = IF p \in PagesTo(seq, k - 1) THEN pool.refs[p] - 1 ELSE pool.refs[p] BY <2>2 DEF Drops
    <3> QED BY <2>3, <3>1, <3>2
  <2>10. Drops(pool, P, PagesTo(seq, k), pre[k]) BY <2>6, <2>8, <2>9 DEF Drops
  <2> QED BY <1>1, <2>10
<1> HIDE DEF S
<1>8. \A k \in 0..n : k \in S BY <1>1, <1>6, <1>7, PrefixInduction
<1>9. n \in S BY <1>1, <1>8
<1> QED BY <1>1, <1>5, <1>9, UpToFacts DEF S

-----------------------------------------------------------------------------
(* Numbers and sequences of the scheduler *)

LEMMA TailFacts ==
  ASSUME NEW S, NEW s \in Seq(S), s # <<>>
  PROVE  /\ Tail(s) \in Seq(S) /\ Len(s) \in Nat \ {0} /\ Len(Tail(s)) = Len(s) - 1
         /\ Head(s) = s[1] /\ Head(s) \in S
         /\ \A i \in 1..(Len(s) - 1) : Tail(s)[i] = s[i + 1] /\ i + 1 \in 1..Len(s) /\ i + 1 # 1
<1>1. Len(s) \in Nat \ {0} /\ s[1] \in S OBVIOUS
<1>2. Tail(s) \in Seq(S) /\ Len(Tail(s)) = Len(s) - 1 OBVIOUS
<1>3. Head(s) = s[1] OBVIOUS
<1>4. \A i \in 1..(Len(s) - 1) : Tail(s)[i] = s[i + 1] /\ i + 1 \in 1..Len(s) /\ i + 1 # 1 BY <1>1
<1> QED BY <1>1, <1>2, <1>3, <1>4

LEMMA MinOfThree ==
  ASSUME NEW a \in Int, NEW b \in Int, NEW c \in Int
  PROVE  /\ Min({a, b, c}) \in Int /\ Min({a, b, c}) <= a
         /\ Min({a, b, c}) <= b /\ Min({a, b, c}) <= c
<1> DEFINE S == {a, b, c}
           least(x) == \A y \in S : x <= y
<1>1. \E x \in S : least(x)
  <2>1. CASE a <= b /\ a <= c BY <2>1
  <2>2. CASE b <= a /\ b <= c BY <2>2
  <2>3. CASE c <= a /\ c <= b BY <2>3
  <2> QED BY <2>1, <2>2, <2>3
<1>2. Min(S) \in S /\ least(Min(S)) BY <1>1 DEF Min
<1> QED BY <1>2

LEMMA MinOfTwo ==
  ASSUME NEW a \in Int, NEW b \in Int
  PROVE  /\ Min({a, b}) \in {a, b} /\ Min({a, b}) <= a /\ Min({a, b}) <= b
<1> DEFINE S == {a, b}
           least(x) == \A y \in S : x <= y
<1>1. \E x \in S : least(x)
  <2>1. CASE a <= b BY <2>1
  <2>2. CASE b <= a BY <2>2
  <2> QED BY <2>1, <2>2
<1>2. Min(S) \in S /\ least(Min(S)) BY <1>1 DEF Min
<1> QED BY <1>2

LEMMA MaxOfTwo ==
  ASSUME NEW a \in Nat, NEW b \in Nat, a <= b
  PROVE  Max({a, b}) = b
<1> DEFINE S == {a, b}
           most(x) == \A y \in S : x >= y
<1>1. b \in S /\ most(b) OBVIOUS
<1>2. Max(S) \in S /\ most(Max(S)) BY <1>1 DEF Max
<1>3. Max(S) >= b /\ b >= Max(S) BY <1>1, <1>2
<1> QED BY <1>2, <1>3

LEMMA ReverseFacts ==
  ASSUME NEW S, NEW s \in Seq(S), Distinct(s), NEW t, t = Reverse(s)
  PROVE  t \in Seq(S) /\ Distinct(t) /\ Among(t) = Among(s)
<1>1. PICK n \in Nat : n = Len(s) OBVIOUS
<1>2. t = [i \in 1..n |-> s[(n - i) + 1]] BY <1>1 DEF Reverse
<1>3. \A i \in 1..n : (n - i) + 1 \in 1..n /\ (n - ((n - i) + 1)) + 1 = i OBVIOUS
<1>4. t \in Seq(S) /\ Len(t) = n /\ \A i \in 1..n : t[i] = s[(n - i) + 1] BY <1>1, <1>2, <1>3
<1>5. Distinct(t)
  <2> SUFFICES ASSUME NEW i \in 1..n, NEW j \in 1..n, t[i] = t[j] PROVE i = j
    BY <1>4 DEF Distinct
  <2>1. (n - i) + 1 = (n - j) + 1 BY <1>1, <1>3, <1>4, ZenonT(30) DEF Distinct
  <2> QED BY <2>1
<1>6. Among(t) = Among(s)
  <2>1. \A i \in 1..n : s[i] = t[(n - i) + 1] BY <1>3, <1>4
  <2>2. Among(s) \subseteq Among(t)
    <3>1. \A i \in 1..n : s[i] \in Among(t) BY <1>3, <1>4, <2>1 DEF Among
    <3> QED BY <1>1, <3>1 DEF Among
  <2>3. Among(t) \subseteq Among(s)
    <3>1. \A i \in 1..n : t[i] \in Among(s) BY <1>1, <1>3, <1>4 DEF Among
    <3> QED BY <1>4, <3>1 DEF Among
  <2> QED BY <2>2, <2>3
<1> QED BY <1>4, <1>5, <1>6

LEMMA TimesStep ==
  ASSUME NEW a \in Nat, NEW b \in Nat, NEW c \in Nat, a < b
  PROVE  a * c + c <= b * c /\ a * c \in Nat /\ b * c \in Nat
<1>1. b = a + 1 + (b - a - 1) /\ b - a - 1 \in Nat OBVIOUS
<1>2. PICK d \in Nat : d = b - a - 1 BY <1>1
<1>3. b * c = a * c + c + d * c BY <1>1, <1>2
<1>4. d * c \in Nat /\ a * c \in Nat OBVIOUS
<1> QED BY <1>3, <1>4

\* At most one member.
LEMMA CountOfOne ==
  ASSUME NEW S, \A c, d \in S : c = d
  PROVE  Cardinality(S) = IF S = {} THEN 0 ELSE 1
<1>1. CASE S = {} BY <1>1, FS_EmptySet
<1>2. CASE S # {}
  <2>1. PICK c \in S : TRUE BY <1>2
  <2>2. S = {c} BY <2>1
  <2> QED BY <1>2, <2>2, FS_Singleton
<1> QED BY <1>1, <1>2

\* A sequence and one token more, cut.
LEMMA MoreCuts ==
  ASSUME NEW T, NEW seq \in Seq(T), NEW token \in T, NEW more, more = Append(seq, token)
  PROVE  /\ more \in Seq(T) /\ Len(more) = Len(seq) + 1 /\ SubSeq(more, 1, Len(seq) + 1) = more
         /\ \A i \in 1..Len(seq) : SubSeq(more, 1, i) = SubSeq(seq, 1, i)
<1>1. PICK n \in Nat : n = Len(seq) OBVIOUS
<1>2. more \in Seq(T) /\ Len(more) = n + 1 /\ \A i \in 1..n : more[i] = seq[i] BY <1>1
<1>3. ASSUME NEW i \in 1..n PROVE SubSeq(more, 1, i) = SubSeq(seq, 1, i)
  <2>1. SubSeq(more, 1, i) \in Seq(T) /\ Len(SubSeq(more, 1, i)) = i /\ \A j \in 1..i : SubSeq(more, 1, i)[j] = more[j]
    BY <1>2, CutFacts
  <2>2. SubSeq(seq, 1, i) \in Seq(T) /\ Len(SubSeq(seq, 1, i)) = i /\ \A j \in 1..i : SubSeq(seq, 1, i)[j] = seq[j]
    BY <1>1, CutFacts
  <2>3. \A j \in 1..i : j \in 1..n OBVIOUS
  <2>4. \A j \in 1..Len(SubSeq(more, 1, i)) : SubSeq(more, 1, i)[j] = SubSeq(seq, 1, i)[j] BY <1>2, <2>1, <2>2, <2>3
  <2>5. Len(SubSeq(more, 1, i)) = Len(SubSeq(seq, 1, i)) BY <2>1, <2>2
  <2> QED BY <2>1, <2>2, <2>4, <2>5, SameSeq
<1>4. SubSeq(more, 1, n + 1) = more
  <2>1. SubSeq(more, 1, n + 1) \in Seq(T) /\ Len(SubSeq(more, 1, n + 1)) = n + 1
        /\ \A j \in 1..n + 1 : SubSeq(more, 1, n + 1)[j] = more[j]
    BY <1>2, CutFacts
  <2> QED BY <1>2, <2>1, SameSeq
<1> QED BY <1>1, <1>2, <1>3, <1>4

LEMMA CutTail ==
  ASSUME NEW T, NEW ids \in Seq(T), NEW k \in 0..Len(ids)
  PROVE  /\ SubSeq(ids, k + 1, Len(ids)) \in Seq(T) /\ Len(SubSeq(ids, k + 1, Len(ids))) = Len(ids) - k
         /\ \A j \in 1..Len(ids) - k : SubSeq(ids, k + 1, Len(ids))[j] = ids[k + j]
<1>1. PICK n \in Nat : n = Len(ids) OBVIOUS
<1>2. PICK m \in Nat : m = n - k
  <2>1. k \in 0..n BY <1>1
  <2> QED BY <2>1
<1>3. PICK s : s = SubSeq(ids, k + 1, n) OBVIOUS
<1>4. s \in Seq(T) /\ Len(s) = m BY <1>1, <1>2, <1>3
<1>5. \A j \in 1..m : s[j] = ids[k + j] BY <1>1, <1>2, <1>3
<1> QED BY <1>1, <1>2, <1>3, <1>4, <1>5

\* A sequence cut once more.
LEMMA NextCut ==
  ASSUME NEW T, NEW ids \in Seq(T), NEW i \in 0..Len(ids) - 1
  PROVE  SubSeq(ids, 1, i + 1) = Append(SubSeq(ids, 1, i), ids[i + 1])
<1>0. PICK n \in Nat : n = Len(ids) OBVIOUS
<1>1. i \in 0..n /\ i + 1 \in 0..n /\ i \in Nat BY <1>0
<1>2. PICK p \in Seq(T) : p = SubSeq(ids, 1, i) /\ Len(p) = i /\ \A j \in 1..i : p[j] = ids[j] BY <1>0, <1>1, CutFacts
<1>3. PICK q \in Seq(T) : q = SubSeq(ids, 1, i + 1) /\ Len(q) = i + 1 /\ \A j \in 1..i + 1 : q[j] = ids[j]
  BY <1>0, <1>1, CutFacts
<1>4. ids[i + 1] \in T BY <1>0
<1>5. PICK r \in Seq(T) : r = Append(p, ids[i + 1]) /\ Len(r) = i + 1 /\ r[i + 1] = ids[i + 1] /\ \A j \in 1..i : r[j] = p[j]
  <2>1. PICK t \in T : t = ids[i + 1] BY <1>4
  <2>2. Append(p, t) \in Seq(T) /\ Len(Append(p, t)) = i + 1 /\ Append(p, t)[i + 1] = t /\ \A j \in 1..i : Append(p, t)[j] = p[j]
    BY <1>1, <1>2
  <2> QED BY <2>1, <2>2
<1>6. \A j \in 1..i + 1 : q[j] = r[j]
  <2> TAKE j \in 1..i + 1
  <2>1. CASE j = i + 1 BY <1>3, <1>5, <2>1
  <2>2. CASE j \in 1..i BY <1>2, <1>3, <1>5, <2>2
  <2> QED BY <1>1, <2>1, <2>2
<1>7. q = r BY <1>3, <1>5, <1>6, SameSeq
<1> QED BY <1>2, <1>3, <1>5, <1>7

LEMMA CutCut ==
  ASSUME NEW T, NEW ids \in Seq(T), NEW k \in 0..Len(ids), NEW i \in 0..k
  PROVE  SubSeq(SubSeq(ids, 1, k), 1, i) = SubSeq(ids, 1, i)
<1>0. PICK n \in Nat : n = Len(ids) OBVIOUS
<1>1. PICK p \in Seq(T) : p = SubSeq(ids, 1, k) /\ Len(p) = k /\ \A j \in 1..k : p[j] = ids[j] BY CutFacts
<1>2. i \in 0..Len(p) /\ i \in 0..Len(ids) BY <1>0, <1>1
<1>3. PICK q \in Seq(T) : q = SubSeq(p, 1, i) /\ Len(q) = i /\ \A j \in 1..i : q[j] = p[j] BY <1>2, CutFacts
<1>4. PICK r \in Seq(T) : r = SubSeq(ids, 1, i) /\ Len(r) = i /\ \A j \in 1..i : r[j] = ids[j] BY <1>2, CutFacts
<1>5. \A j \in 1..i : j \in 1..k BY <1>0
<1>6. q = r BY <1>1, <1>3, <1>4, <1>5, SameSeq
<1> QED BY <1>1, <1>3, <1>4, <1>6

LEMMA OneMember == ASSUME NEW S, IsFiniteSet(S), Cardinality(S) = 1, NEW c, c = CHOOSE x \in S : TRUE PROVE S = {c}
<1>1. PICK d : S = {d} BY FS_Singleton
<1> QED BY <1>1

LEMMA EndGrants ==
  ASSUME NEW pool, NEW P, Pooled(pool, P), NEW n \in Nat \ {0}, LastFit(pool, n) # 0, NEW q, q = AllocFromEnd(pool, n)
  PROVE  Grants(pool, P, EndSeg(pool, n), q) /\ EndSeg(pool, n).len = n
<1> DEFINE i == LastFit(pool, n)
           r == pool.free[i]
           left == Seg(r.base, r.len - n)
           seg == Seg(SegEnd(r) - n, n)
           F == {p \in P : pool.refs[p] = 0}
           refs == [p \in P |-> IF p \in SegPages(seg) THEN 1 ELSE pool.refs[p]]
           free == (IF left.len > 0 THEN <<left>> ELSE <<>>) \o RemoveAt(pool.free, i)
<1>0. Stretches(pool.free, F) /\ n \in Nat BY DEF Pooled
<1>1. pool.free \in Seq(Run) BY <1>0 DEF Stretches
<1>2. i \in 1..Len(pool.free) /\ r.len >= n BY <1>0, <1>1, FitFacts
<1>3. r \in Run /\ n <= r.len
  <2>1. r \in Run BY <1>1, <1>2
  <2>2. r.len \in Nat BY <2>1, RunFacts
  <2> QED BY <1>2, <2>1, <2>2
<1>4. EndSeg(pool, n) = seg BY DEF EndSeg
<1>5. DOMAIN pool.refs = P BY DEF Pooled
<1>6. q = [refs |-> refs, free |-> free] BY <1>4, <1>5, Zenon DEF AllocFromEnd, CutFrom
<1>7. seg.len = n BY DEF Seg
<1> HIDE DEF i, r
<1>8. /\ seg \in Run
      /\ \/ left.len = 0 /\ SegPages(seg) = SegPages(r)
         \/ /\ left \in Run
            /\ SegPages(left) \union SegPages(seg) = SegPages(r)
            /\ SegPages(left) \intersect SegPages(seg) = {}
            /\ r.base <= left.base /\ SegEnd(left) <= SegEnd(r)
  BY <1>3, CutsOf
<1> HIDE DEF seg, left, F, refs
<1>9. SegPages(seg) \subseteq F /\ Stretches(free, F \ SegPages(seg))
  BY <1>0, <1>2, <1>8, CutKeeps DEF r
<1> HIDE DEF free
<1>10. q.refs = refs /\ q.free = free BY <1>6
<1>11. SegPages(seg) \subseteq P /\ \A p \in SegPages(seg) : pool.refs[p] = 0 BY <1>9 DEF F
<1>12. refs \in [P -> Nat] /\ \A p \in P : refs[p] = IF p \in SegPages(seg) THEN 1 ELSE pool.refs[p]
  BY DEF refs, Pooled
<1>13. {p \in P : refs[p] = 0} = F \ SegPages(seg) BY <1>12 DEF F
<1>14. Pooled(q, P) BY <1>6, <1>9, <1>10, <1>12, <1>13 DEF Pooled
<1> QED BY <1>4, <1>7, <1>8, <1>10, <1>11, <1>12, <1>14 DEF Grants

Concatenates(S, s, t) ==
  s \in Seq(S) /\ t \in Seq(S) /\ Distinct(s) /\ Distinct(t) /\ Among(s) \intersect Among(t) = {}
Concatenated(S, s, t, u) ==
  u \in Seq(S) /\ Distinct(u) /\ Among(u) = Among(s) \union Among(t)

LEMMA ConcatFacts ==
  ASSUME NEW S, NEW s, NEW t, Concatenates(S, s, t)
  PROVE  Concatenated(S, s, t, s \o t)
<1>0. PICK u : u = s \o t OBVIOUS
<1> USE <1>0 DEF Concatenates
<1>1. PICK m \in Nat, n \in Nat : m = Len(s) /\ n = Len(t) OBVIOUS
<1>2. u \in Seq(S) /\ Len(u) = m + n BY <1>1
<1>3. \A i \in 1..(m + n) : u[i] = IF i <= m THEN s[i] ELSE t[i - m] BY <1>1
<1>4. \A i \in 1..(m + n) : IF i <= m THEN i \in 1..m ELSE i - m \in 1..n BY <1>1
<1>5. \A i \in 1..m : i \in 1..(m + n) /\ u[i] = s[i] /\ s[i] \in Among(s) BY <1>1, <1>3 DEF Among
<1>6. \A j \in 1..n : /\ m + j \in 1..(m + n) /\ ~(m + j <= m) /\ (m + j) - m = j
                      /\ t[j] \in Among(t)
  BY <1>1 DEF Among
<1>7. \A j \in 1..n : u[m + j] = t[j]
  <2> TAKE j \in 1..n
  <2>1. m + j \in 1..(m + n) /\ ~(m + j <= m) /\ (m + j) - m = j BY <1>6
  <2> QED BY <1>3, <2>1
<1>8. Among(u) = Among(s) \union Among(t)
  <2>1. Among(u) \subseteq Among(s) \union Among(t)
    BY <1>1, <1>2, <1>3, <1>4 DEF Among
  <2>2. Among(s) \subseteq Among(u) BY <1>1, <1>2, <1>5 DEF Among
  <2>3. Among(t) \subseteq Among(u)
    <3>1. \A j \in 1..n : t[j] \in Among(u) BY <1>2, <1>6, <1>7 DEF Among
    <3> QED BY <1>1, <3>1 DEF Among
  <2> QED BY <2>1, <2>2, <2>3
<1>9. Distinct(u)
  <2> SUFFICES ASSUME NEW i \in 1..(m + n), NEW j \in 1..(m + n), u[i] = u[j] PROVE i = j
    BY <1>2 DEF Distinct
  <2>1. CASE i <= m /\ j <= m
    <3>1. i \in 1..m /\ j \in 1..m /\ s[i] = s[j] BY <1>3, <1>4, <2>1
    <3> QED BY <1>1, <3>1 DEF Distinct
  <2>2. CASE ~(i <= m) /\ ~(j <= m)
    <3>1. i - m \in 1..n /\ j - m \in 1..n /\ t[i - m] = t[j - m] BY <1>3, <1>4, <2>2
    <3>2. i - m = j - m BY <1>1, <3>1 DEF Distinct
    <3> QED BY <3>2
  <2>3. CASE i <= m /\ ~(j <= m)
    <3>1. i \in 1..m /\ j - m \in 1..n /\ s[i] = t[j - m] BY <1>3, <1>4, <2>3
    <3>2. s[i] \in Among(s) /\ t[j - m] \in Among(t) BY <1>5, <1>6, <3>1
    <3> QED BY <3>1, <3>2
  <2>4. CASE ~(i <= m) /\ j <= m
    <3>1. j \in 1..m /\ i - m \in 1..n /\ s[j] = t[i - m] BY <1>3, <1>4, <2>4
    <3>2. s[j] \in Among(s) /\ t[i - m] \in Among(t) BY <1>5, <1>6, <3>1
    <3> QED BY <3>1, <3>2
  <2> QED BY <2>1, <2>2, <2>3, <2>4
<1> QED BY <1>2, <1>8, <1>9 DEF Concatenated

-----------------------------------------------------------------------------
(* Orders and records *)

\* By how many others come before it, each member of S has a place of its own.
LEMMA InOrderLists ==
  ASSUME NEW S, IsFiniteSet(S), NEW before, StrictOrder(S, before), NEW out,
         out = InOrder(S, before)
  PROVE  /\ out \in Seq(S) /\ Len(out) = Cardinality(S)
         /\ Distinct(out) /\ Among(out) = S
<1> DEFINE rank == [w \in S |-> Cardinality({v \in S : <<v, w>> \in before})]
<1>1. PICK n \in Nat : n = Cardinality(S) BY FS_CardinalityType
<1>2. \A w \in S : IsFiniteSet({v \in S : <<v, w>> \in before}) BY FS_Subset
<1>3. \A w \in S : rank[w] \in 0..(n - 1)
  <2> TAKE w \in S
  <2> DEFINE below == {v \in S : <<v, w>> \in before}
  <2>1. IsFiniteSet(below) /\ below \in SUBSET (S \ {w}) BY <1>2 DEF StrictOrder
  <2>2. IsFiniteSet(S \ {w}) /\ Cardinality(S \ {w}) = n - 1 BY <1>1, FewerLeft
  <2> HIDE DEF below
  <2>3. Cardinality(below) <= n - 1 /\ Cardinality(below) \in Nat
    BY <2>1, <2>2, FS_Subset, FS_CardinalityType
  <2>4. rank[w] = Cardinality(below) BY DEF below
  <2> QED BY <1>1, <2>3, <2>4
<1>4. ASSUME NEW v \in S, NEW w \in S, <<v, w>> \in before PROVE rank[v] < rank[w]
  <2> DEFINE below(x) == {u \in S : <<u, x>> \in before}
  <2>1. v \notin below(v) /\ v \in below(w) /\ below(v) \subseteq below(w)
    BY <1>4 DEF StrictOrder
  <2>2. IsFiniteSet(below(v)) /\ IsFiniteSet(below(w)) BY <1>2
  <2>3. rank[v] = Cardinality(below(v)) /\ rank[w] = Cardinality(below(w)) OBVIOUS
  <2> HIDE DEF below, rank
  <2>4. Cardinality(below(w) \ {v}) = Cardinality(below(w)) - 1 /\ IsFiniteSet(below(w) \ {v})
    BY <2>1, <2>2, FewerLeft
  <2>5. Cardinality(below(v)) <= Cardinality(below(w) \ {v})
    <3>1. below(v) \in SUBSET (below(w) \ {v}) BY <2>1
    <3> QED BY <2>4, <3>1, FS_Subset
  <2>6. Cardinality(below(v)) \in Nat /\ Cardinality(below(w)) \in Nat BY <2>2, FS_CardinalityType
  <2> QED BY <2>3, <2>4, <2>5, <2>6
<1>5. \A v, w \in S : rank[v] = rank[w] => v = w
  <2> SUFFICES ASSUME NEW v \in S, NEW w \in S, v # w PROVE rank[v] # rank[w] OBVIOUS
  <2>1. rank[v] \in 0..(n - 1) /\ rank[w] \in 0..(n - 1) BY <1>3
  <2>2. <<v, w>> \in before \/ <<w, v>> \in before BY DEF StrictOrder
  <2> HIDE DEF rank
  <2>3. rank[v] < rank[w] \/ rank[w] < rank[v] BY <1>4, <2>2
  <2> QED BY <1>1, <2>1, <2>3
<1>6. \A i \in 0..(n - 1) : \E w \in S : rank[w] = i
  <2>1. IsFiniteSet(0..(n - 1)) /\ Cardinality(0..(n - 1)) = n
    <3>1. 0 \in Int /\ n - 1 \in Int BY <1>1
    <3>2. IsFiniteSet(0..(n - 1)) /\ Cardinality(0..(n - 1)) = IF 0 > n - 1 THEN 0 ELSE (n - 1) - 0 + 1
      BY <3>1, FS_Interval
    <3> QED BY <1>1, <3>2
  <2>2. rank \in Injection(S, 0..(n - 1))
    <3>1. rank \in [S -> 0..(n - 1)] BY <1>3
    <3> HIDE DEF rank
    <3> QED BY <1>5, <3>1 DEF Injection, IsInjective
  <2> HIDE DEF rank
  <2>3. rank \in Surjection(S, 0..(n - 1)) BY <1>1, <2>1, <2>2, FS_Injection
  <2> QED BY <2>3 DEF Surjection
<1>7. /\ DOMAIN out = 1..n /\ out = [i \in 1..n |-> out[i]]
      /\ \A i \in 1..n : out[i] = CHOOSE w \in S : Cardinality({v \in S : <<v, w>> \in before}) = i - 1
  <2> HIDE DEF rank
  <2>1. out = [i \in 1..n |-> CHOOSE w \in S : Cardinality({v \in S : <<v, w>> \in before}) = i - 1]
    BY <1>1, Zenon DEF InOrder
  <2> QED BY <2>1, Zenon
<1>8. \A i \in 1..n : out[i] \in S /\ rank[out[i]] = i - 1
  <2> TAKE i \in 1..n
  <2>1. i - 1 \in 0..(n - 1) BY <1>1
  <2>2. \E w \in S : rank[w] = i - 1
    <3> HIDE DEF rank
    <3> QED BY <1>6, <2>1
  <2>3. \E w \in S : Cardinality({v \in S : <<v, w>> \in before}) = i - 1 BY <2>2
  <2>4. out[i] \in S /\ Cardinality({v \in S : <<v, out[i]>> \in before}) = i - 1
    <3> HIDE DEF rank
    <3> QED BY <1>7, <2>3
  <2> QED BY <2>4
<1> HIDE DEF rank
<1>9. out \in Seq(S) /\ Len(out) = n
  BY <1>1, <1>7, <1>8
<1>10. Distinct(out)
  <2> SUFFICES ASSUME NEW i \in 1..n, NEW j \in 1..n, out[i] = out[j] PROVE i = j
    BY <1>9 DEF Distinct
  <2>1. i - 1 = j - 1 BY <1>8
  <2> QED BY <1>1, <2>1
<1>11. \A w \in S : \E i \in 1..n : out[i] = w
  <2> TAKE w \in S
  <2>1. rank[w] \in 0..(n - 1) BY <1>3
  <2>2. PICK i \in 1..n : i - 1 = rank[w]
    <3>1. rank[w] + 1 \in 1..n /\ (rank[w] + 1) - 1 = rank[w] BY <1>1, <2>1
    <3> QED BY <3>1
  <2>3. out[i] = w BY <1>5, <1>8, <2>2
  <2> QED BY <2>3
<1>12. Among(out) = S BY <1>8, <1>9, <1>11 DEF Among
<1> QED BY <1>1, <1>9, <1>10, <1>12

\* What the operations on a request return, field by field.
LEMMA RequestFields ==
  ASSUME NEW r \in Request
  PROVE  /\ r.st \in ReqState /\ r.prompt \in Nat /\ r.maxOut \in Nat
         /\ r.cached \in Nat /\ r.device \in Nat
         /\ r.resume \in BOOLEAN /\ r.released \in BOOLEAN
BY DEF Request

LEMMA StartPrefillFields ==
  ASSUME NEW r \in Request, NEW p \in Nat, NEW m \in Nat, NEW c \in Nat
  PROVE  /\ StartPrefill(r, p, m, c) \in Request
         /\ StartPrefill(r, p, m, c).prompt = p
         /\ StartPrefill(r, p, m, c).device = IF c < p THEN c ELSE p
         /\ StartPrefill(r, p, m, c).st = IF c < p THEN "Chunked" ELSE "Prefill"
<1> DEFINE dev == IF c < p THEN c ELSE p
           st == IF dev >= p THEN "Prefill" ELSE "Chunked"
           s == [r EXCEPT !.prompt = p, !.maxOut = m, !.cached = 0, !.device = dev,
                          !.st = st, !.resume = FALSE]
<1>1. StartPrefill(r, p, m, c) = s BY DEF StartPrefill
<1>2. dev \in Nat /\ st \in {"Prefill", "Chunked"} /\ st = IF c < p THEN "Chunked" ELSE "Prefill"
  OBVIOUS
<1> HIDE DEF dev, st
<1>3. s \in Request BY <1>2 DEF Request, ReqState
<1>4. s.prompt = p /\ s.device = dev /\ s.st = st BY DEF Request
<1> QED BY <1>1, <1>2, <1>3, <1>4 DEF dev

LEMMA DispatchChunkFields ==
  ASSUME NEW r \in Request, NEW e \in Nat
  PROVE  /\ DispatchChunk(r, e) \in Request /\ DispatchChunk(r, e).device = e
         /\ DispatchChunk(r, e).st = r.st /\ DispatchChunk(r, e).prompt = r.prompt
BY DEF DispatchChunk, Request

LEMMA ConfirmFields ==
  ASSUME NEW r \in Request
  PROVE  /\ Confirm(r) \in Request /\ Confirm(r).cached = r.device
         /\ Confirm(r).device = r.device /\ Confirm(r).prompt = r.prompt
         /\ Confirm(r).st = IF r.device >= r.prompt THEN "Decode" ELSE r.st
BY DEF Confirm, Request, ReqState

LEMMA AbortFields ==
  ASSUME NEW r \in Request
  PROVE  Abort(r) \in Request /\ Terminal(Abort(r)) /\ Abort(r).device = r.device
<1>1. LET s == [r EXCEPT !.st = "Aborted", !.released = TRUE]
      IN  s \in Request /\ s.st = "Aborted" /\ s.device = r.device
  BY DEF Request, ReqState
<1> QED BY <1>1 DEF Abort, Terminal

LEMMA PreemptFields ==
  ASSUME NEW r \in Request
  PROVE  /\ Preempt(r) \in Request /\ Preempt(r).st = "Preempted"
         /\ Preempt(r).cached = 0 /\ Preempt(r).device = 0 /\ Preempt(r).prompt = r.prompt
BY DEF Preempt, Request, ReqState

LEMMA TokenFields ==
  ASSUME NEW r \in Request, DecodeEvent(r, "token") = "confirmed"
  PROVE  LET s == DecodeStep(r, "token") IN
         /\ s \in Request /\ s.st = r.st /\ s.prompt = r.prompt
         /\ s.device = r.cached + 1 /\ s.cached = r.cached + 1
<1> DEFINE sent == [r EXCEPT !.device = r.cached + 1]
<1>1. /\ sent \in Request /\ sent.device = r.cached + 1 /\ sent.st = r.st /\ sent.prompt = r.prompt
  BY DEF Request
<1>2. DecodeStep(r, "token") = [sent EXCEPT !.cached = sent.device] BY DEF DecodeStep
<1> HIDE DEF sent
<1>3. LET s == [sent EXCEPT !.cached = sent.device] IN
      /\ s \in Request /\ s.cached = sent.device /\ s.device = sent.device
      /\ s.st = sent.st /\ s.prompt = sent.prompt
  BY <1>1 DEF Request
<1> QED BY <1>1, <1>2, <1>3

LEMMA EndFields ==
  ASSUME NEW r \in Request, NEW kind, DecodeEvent(r, kind) # "confirmed"
  PROVE  LET s == TakeRelease(DecodeStep(r, kind)) IN
         /\ s \in Request /\ Terminal(s)
         /\ DecodeStep(r, kind).device = r.cached + 1
<1> DEFINE sent == [r EXCEPT !.device = r.cached + 1]
<1>1. sent \in Request /\ sent.device = r.cached + 1 BY DEF Request
<1>2. DecodeStep(r, kind) = Finished(sent) BY DEF DecodeStep
<1> HIDE DEF sent
<1>3. LET s == Finished(sent) IN s \in Request /\ s.device = sent.device /\ s.st = "Done"
  BY <1>1 DEF Finished, Request, ReqState
<1>4. \A s \in Request : TakeRelease(s) \in Request /\ TakeRelease(s).st = s.st
  BY DEF TakeRelease, Request
<1> QED BY <1>1, <1>2, <1>3, <1>4 DEF Terminal

LEMMA NewRequest ==
  /\ NewReq \in Request /\ NewReq.st = "Waiting" /\ ~Terminal(NewReq)
  /\ NewReq.device = 0 /\ NewReq.cached = 0 /\ NewReq.prompt = 0
BY DEF NewReq, Request, Terminal, ReqState

-----------------------------------------------------------------------------
(* Who owns which pages *)

PoolPages == 0..KvPages - 1

\* h gives every owner pages of its own, and a page is counted once or not at
\* all, as it has an owner or not.
Owned(refs, h) ==
  /\ \A o \in DOMAIN h : h[o] \subseteq PoolPages
  /\ \A o, q \in DOMAIN h : o # q => h[o] \intersect h[q] = {}
  /\ \A p \in PoolPages : refs[p] = IF \E o \in DOMAIN h : p \in h[o] THEN 1 ELSE 0

\* h and g give the owners S the same pages.
Alike(h, g, S) == \A o \in S : g[o] = h[o]

LEMMA OwnMore ==
  ASSUME NEW refs, NEW h, Owned(refs, h), NEW o, o \notin DOMAIN h, NEW S \in SUBSET PoolPages,
         \A p \in S : refs[p] = 0,
         NEW g, DOMAIN g = DOMAIN h \union {o}, Alike(h, g, DOMAIN h), g[o] = S,
         NEW counts, \A p \in PoolPages : counts[p] = IF p \in S THEN 1 ELSE refs[p]
  PROVE  Owned(counts, g)
<1>1. \A q \in DOMAIN h : g[q] = h[q] BY DEF Alike
<1>2. \A q \in DOMAIN h : h[q] \intersect S = {}
  <2>1. ASSUME NEW q \in DOMAIN h, NEW p \in h[q], p \in S PROVE FALSE
    <3>1. p \in PoolPages BY DEF Owned
    <3>2. refs[p] = 1 BY <3>1 DEF Owned
    <3>3. refs[p] = 0 BY <2>1
    <3> QED BY <3>2, <3>3
  <2> QED BY <2>1
<1>3. \A q \in DOMAIN g : g[q] \subseteq PoolPages BY <1>1 DEF Owned
<1>4. \A q, r \in DOMAIN g : q # r => g[q] \intersect g[r] = {} BY <1>1, <1>2 DEF Owned
<1>5. ASSUME NEW p \in PoolPages PROVE counts[p] = IF \E q \in DOMAIN g : p \in g[q] THEN 1 ELSE 0
  <2>1. refs[p] = IF \E q \in DOMAIN h : p \in h[q] THEN 1 ELSE 0 BY DEF Owned
  <2>2. counts[p] = IF p \in S THEN 1 ELSE refs[p] OBVIOUS
  <2>3. (\E q \in DOMAIN g : p \in g[q]) <=> (p \in S \/ \E q \in DOMAIN h : p \in h[q]) BY <1>1
  <2> QED BY <2>1, <2>2, <2>3
<1> QED BY <1>3, <1>4, <1>5 DEF Owned

\* Owners leave and their pages are free.
LEMMA OwnLess ==
  ASSUME NEW refs, NEW h, Owned(refs, h), NEW O \in SUBSET DOMAIN h,
         NEW g, DOMAIN g = DOMAIN h \ O, Alike(h, g, DOMAIN h \ O),
         NEW counts, \A p \in PoolPages : counts[p] = IF \E o \in O : p \in h[o] THEN 0 ELSE refs[p]
  PROVE  Owned(counts, g)
<1>1. \A q \in DOMAIN g : q \in DOMAIN h /\ g[q] = h[q] BY DEF Alike
<1>2. (\A q \in DOMAIN g : g[q] \subseteq PoolPages)
      /\ \A q, r \in DOMAIN g : q # r => g[q] \intersect g[r] = {}
  BY <1>1 DEF Owned
<1>3. ASSUME NEW p \in PoolPages PROVE counts[p] = IF \E q \in DOMAIN g : p \in g[q] THEN 1 ELSE 0
  <2>1. refs[p] = IF \E q \in DOMAIN h : p \in h[q] THEN 1 ELSE 0 BY DEF Owned
  <2>2. counts[p] = IF \E o \in O : p \in h[o] THEN 0 ELSE refs[p] OBVIOUS
  <2>3. CASE \E o \in O : p \in h[o]
    <3>1. PICK o \in O : p \in h[o] BY <2>3
    <3>2. ~\E q \in DOMAIN g : p \in g[q]
      <4>1. ASSUME NEW q \in DOMAIN g, p \in g[q] PROVE FALSE
        <5>1. q # o /\ p \in h[q] /\ q \in DOMAIN h /\ o \in DOMAIN h BY <1>1, <4>1
        <5>2. h[q] \intersect h[o] = {} BY <5>1 DEF Owned
        <5> QED BY <3>1, <5>1, <5>2
      <4> QED BY <4>1
    <3> QED BY <2>2, <2>3, <3>2
  <2>4. CASE ~\E o \in O : p \in h[o]
    <3>1. (\E q \in DOMAIN g : p \in g[q]) <=> (\E q \in DOMAIN h : p \in h[q]) BY <1>1, <2>4
    <3> QED BY <2>1, <2>2, <2>4, <3>1
  <2> QED BY <2>3, <2>4
<1> QED BY <1>2, <1>3 DEF Owned

\* An owner leaves some of its pages to a new one, the others are free.
LEMMA OwnPart ==
  ASSUME NEW refs, NEW h, Owned(refs, h), NEW o \in DOMAIN h, NEW n, n \notin DOMAIN h, NEW S, S \subseteq h[o],
         NEW g, DOMAIN g = (DOMAIN h \ {o}) \union {n}, Alike(h, g, DOMAIN h \ {o}), g[n] = S,
         NEW counts, \A p \in PoolPages : counts[p] = IF p \in h[o] /\ p \notin S THEN 0 ELSE refs[p]
  PROVE  Owned(counts, g)
<1>1. \A q \in DOMAIN h \ {o} : q \in DOMAIN h /\ g[q] = h[q] BY DEF Alike
<1>2. \A q \in DOMAIN g : g[q] \subseteq PoolPages
  <2>1. S \subseteq PoolPages BY DEF Owned
  <2> QED BY <1>1, <2>1 DEF Owned
<1>3. \A q, r \in DOMAIN g : q # r => g[q] \intersect g[r] = {}
  <2>1. \A q \in DOMAIN h \ {o} : g[q] \intersect S = {} BY <1>1 DEF Owned
  <2>2. \A q, r \in DOMAIN h \ {o} : q # r => g[q] \intersect g[r] = {} BY <1>1 DEF Owned
  <2> QED BY <2>1, <2>2
<1>4. ASSUME NEW p \in PoolPages PROVE counts[p] = IF \E q \in DOMAIN g : p \in g[q] THEN 1 ELSE 0
  <2>1. refs[p] = IF \E q \in DOMAIN h : p \in h[q] THEN 1 ELSE 0 BY DEF Owned
  <2>2. counts[p] = IF p \in h[o] /\ p \notin S THEN 0 ELSE refs[p] OBVIOUS
  <2>3. CASE p \in S
    <3>1. \E q \in DOMAIN g : p \in g[q] BY <2>3
    <3>2. \E q \in DOMAIN h : p \in h[q] BY <2>3
    <3> QED BY <2>1, <2>2, <2>3, <3>1, <3>2
  <2>4. CASE p \in h[o] /\ p \notin S
    <3>1. ASSUME NEW q \in DOMAIN g, p \in g[q] PROVE FALSE
      <4>1. q # n BY <2>4, <3>1
      <4>2. q \in DOMAIN h /\ q # o /\ p \in h[q] BY <1>1, <3>1, <4>1
      <4>3. h[q] \intersect h[o] = {} BY <4>2 DEF Owned
      <4> QED BY <2>4, <4>2, <4>3
    <3>2. ~\E q \in DOMAIN g : p \in g[q] BY <3>1
    <3> QED BY <2>2, <2>4, <3>2
  <2>5. CASE p \notin h[o]
    <3>1. p \notin S BY <2>5
    <3>2. (\E q \in DOMAIN g : p \in g[q]) <=> (\E q \in DOMAIN h : p \in h[q]) BY <1>1, <2>5, <3>1
    <3> QED BY <2>1, <2>2, <2>5, <3>2
  <2> QED BY <2>3, <2>4, <2>5
<1> QED BY <1>2, <1>3, <1>4 DEF Owned

-----------------------------------------------------------------------------
(* Windows and runs *)

LEMMA WindowFacts ==
  /\ LayerPages \in Nat \ {0} /\ NLayer \in Nat \ {0} /\ KvPages \in Nat \ {0}
  /\ WindowPages \in Nat \ {0} /\ WindowPages = NLayer * LayerPages /\ WindowPages <= KvPages
  /\ \A n \in Nat : n <= MaxLen => n \div Block <= LayerPages /\ n \div Block \in Nat
<1>1. MaxLen \in Nat \ {0} /\ Block \in Nat \ {0} /\ NLayer \in Nat \ {0} /\ KvPages \in Nat \ {0}
  BY ConfigAssumption
<1>2. PICK m \in Nat : m = MaxLen + Block - 1 BY <1>1
<1>3. LayerPages = m \div Block BY <1>2 DEF LayerPages, PagesFor
<1>4. \A n \in Nat : n \div Block \in Nat /\ n % Block \in 0..(Block - 1) /\ n = (n \div Block) * Block + (n % Block)
  BY <1>1, DivMod
<1>5. ASSUME NEW n \in Nat, n <= m PROVE n \div Block <= m \div Block
  <2>1. PICK a \in Nat, b \in Nat : a = n \div Block /\ b = m \div Block BY <1>4
  <2>2. n = a * Block + (n % Block) /\ m = b * Block + (m % Block) BY <1>4, <2>1
  <2>3. n % Block \in 0..(Block - 1) /\ m % Block \in 0..(Block - 1) BY <1>4
  <2>4. CASE b < a
    <3>1. b * Block + Block <= a * Block /\ b * Block \in Nat /\ a * Block \in Nat BY <1>1, <2>4, TimesStep
    <3> QED BY <1>1, <1>5, <2>2, <2>3, <3>1
  <2> QED BY <2>1, <2>4
<1>6. m \div Block \in Nat /\ m \div Block # 0
  <2>1. m >= Block BY <1>1, <1>2
  <2>2. PICK b \in Nat : b = m \div Block BY <1>4
  <2>3. m = b * Block + (m % Block) /\ m % Block \in 0..(Block - 1) BY <1>4, <2>2
  <2>4. b # 0 BY <1>1, <2>1, <2>3
  <2> QED BY <2>2, <2>4
<1>7. PICK l \in Nat \ {0} : l = LayerPages BY <1>3, <1>6
<1>8. NLayer * l \in Nat \ {0} BY <1>1, <1>7
<1>9. WindowPages = NLayer * l BY <1>7 DEF WindowPages
<1>10. KvPages >= NLayer * l BY <1>7, ConfigAssumption DEF LayerPages, PagesFor
<1>11. \A n \in Nat : n <= MaxLen => n <= m BY <1>1, <1>2
<1> QED BY <1>1, <1>3, <1>4, <1>5, <1>7, <1>8, <1>9, <1>10, <1>11

\* The runs of a cached key, one of n pages in every layer of the window at b.
RunsOf(b, n) == UNION {SegPages(LayerRun(b, n, li)) : li \in Layers}

LEMMA LayerFacts ==
  ASSUME NEW b \in Nat, NEW n \in 1..LayerPages
  PROVE  /\ LayerRuns(b, n) \in Seq(Run) /\ AllDisjoint(LayerRuns(b, n))
         /\ Covered(LayerRuns(b, n)) = RunsOf(b, n)
         /\ RunsOf(b, n) \subseteq SegPages(Seg(b, WindowPages))
<1>1. /\ LayerPages \in Nat \ {0} /\ NLayer \in Nat \ {0} /\ WindowPages \in Nat \ {0}
      /\ WindowPages = NLayer * LayerPages
  BY WindowFacts
<1>2. PICK s \in Nat \ {0} : s = LayerPages BY <1>1
<1>3. n \in Nat \ {0} /\ n <= s BY <1>2
<1> DEFINE seq == LayerRuns(b, n)
<1>4. ASSUME NEW li \in Layers
      PROVE  /\ li \in Nat /\ li < NLayer /\ li * s \in Nat
             /\ LayerRun(b, n, li) \in Run
             /\ \A p : p \in SegPages(LayerRun(b, n, li)) <=> p \in Nat /\ b + li * s <= p /\ p < b + li * s + n
  <2>1. li \in Nat /\ li < NLayer BY <1>1 DEF Layers
  <2>2. PICK o \in Nat : o = li * s BY <1>2, <2>1
  <2>3. LayerRun(b, n, li) = Seg(b + o, n) BY <1>2, <2>2 DEF LayerRun
  <2>4. b + o \in Nat /\ n > 0 /\ n \in Nat BY <1>3, <2>2
  <2>5. Seg(b + o, n) \in Run /\ Seg(b + o, n).base = b + o /\ SegEnd(Seg(b + o, n)) = b + o + n BY <2>4, SegIsRun
  <2>6. \A p : p \in SegPages(Seg(b + o, n)) <=> p \in Nat /\ b + o <= p /\ p < b + o + n BY <2>5, RunFacts
  <2> QED BY <2>1, <2>2, <2>3, <2>5, <2>6
<1>5. /\ seq = [i \in 1..NLayer |-> LayerRun(b, n, i - 1)] /\ \A i \in 1..NLayer : i - 1 \in Layers
  BY <1>1 DEF LayerRuns, Layers
<1> HIDE DEF seq
<1>6. seq \in Seq(Run) /\ Len(seq) = NLayer /\ \A i \in 1..NLayer : seq[i] = LayerRun(b, n, i - 1)
  <2>1. \A i \in 1..NLayer : LayerRun(b, n, i - 1) \in Run BY <1>4, <1>5
  <2>2. seq \in [1..NLayer -> Run] BY <1>5, <2>1
  <2>3. NLayer \in Nat BY <1>1
  <2>4. seq \in Seq(Run) /\ Len(seq) = NLayer BY <2>2, <2>3
  <2> QED BY <1>5, <2>4
<1>7. ASSUME NEW li \in Layers, NEW lj \in Layers, li < lj
      PROVE  SegPages(LayerRun(b, n, li)) \intersect SegPages(LayerRun(b, n, lj)) = {}
  <2>1. li * s + s <= lj * s BY <1>2, <1>4, <1>7, TimesStep
  <2>2. PICK u \in Nat, v \in Nat : u = li * s /\ v = lj * s BY <1>4
  <2>3. ASSUME NEW p \in SegPages(LayerRun(b, n, li)), p \in SegPages(LayerRun(b, n, lj)) PROVE FALSE
    <3>1. p \in Nat /\ p < b + u + n /\ b + v <= p BY <1>4, <2>2, <2>3
    <3>2. u + s <= v BY <2>1, <2>2
    <3> QED BY <1>2, <1>3, <3>1, <3>2
  <2> QED BY <2>3
<1>8. AllDisjoint(seq)
  <2>1. ASSUME NEW i \in 1..NLayer, NEW j \in 1..NLayer, i # j
        PROVE  SegPages(seq[i]) \intersect SegPages(seq[j]) = {}
    <3>1. i - 1 \in Layers /\ j - 1 \in Layers /\ (i - 1 < j - 1 \/ j - 1 < i - 1) BY <1>1, <1>5, <2>1
    <3>2. SegPages(LayerRun(b, n, i - 1)) \intersect SegPages(LayerRun(b, n, j - 1)) = {} BY <1>7, <3>1
    <3> QED BY <1>6, <3>2
  <2> QED BY <1>6, <2>1 DEF AllDisjoint
<1>9. Covered(seq) = RunsOf(b, n)
  <2>1. \A li \in Layers : li + 1 \in 1..NLayer /\ (li + 1) - 1 = li BY <1>1 DEF Layers
  <2>2. ASSUME NEW p PROVE p \in Covered(seq) <=> p \in RunsOf(b, n)
    <3>1. p \in Covered(seq) <=> \E i \in 1..NLayer : p \in SegPages(LayerRun(b, n, i - 1)) BY <1>6 DEF Covered
    <3>2. p \in RunsOf(b, n) <=> \E li \in Layers : p \in SegPages(LayerRun(b, n, li)) BY DEF RunsOf
    <3>3. ASSUME NEW li \in Layers, p \in SegPages(LayerRun(b, n, li))
          PROVE  \E i \in 1..NLayer : p \in SegPages(LayerRun(b, n, i - 1))
      <4>1. li + 1 \in 1..NLayer /\ (li + 1) - 1 = li BY <2>1
      <4>2. p \in SegPages(LayerRun(b, n, (li + 1) - 1)) BY <3>3, <4>1
      <4> QED BY <4>1, <4>2
    <3> QED BY <1>5, <3>1, <3>2, <3>3
  <2> QED BY <2>2
<1>10. RunsOf(b, n) \subseteq SegPages(Seg(b, WindowPages))
  <2>1. ASSUME NEW li \in Layers, NEW p \in SegPages(LayerRun(b, n, li)) PROVE p \in SegPages(Seg(b, WindowPages))
    <3>1. PICK w \in Nat \ {0} : w = WindowPages BY <1>1
    <3>2. li * s + s <= NLayer * s BY <1>1, <1>2, <1>4, TimesStep
    <3>3. PICK u \in Nat : u = li * s BY <1>4
    <3>4. u + s <= w BY <1>1, <1>2, <3>1, <3>2, <3>3
    <3>5. p \in Nat /\ b + u <= p /\ p < b + u + n BY <1>4, <2>1, <3>3
    <3>6. b <= p /\ p < b + w BY <1>2, <1>3, <3>3, <3>4, <3>5
    <3>7. Seg(b, w) \in Run /\ Seg(b, w).base = b /\ SegEnd(Seg(b, w)) = b + w BY <3>1, SegIsRun
    <3>8. p \in SegPages(Seg(b, w)) BY <3>5, <3>6, <3>7, RunFacts
    <3> QED BY <3>1, <3>8
  <2> QED BY <2>1 DEF RunsOf
<1> QED BY <1>6, <1>8, <1>9, <1>10 DEF seq

-----------------------------------------------------------------------------
(* What of an executor the pages are about *)

IsExec(x) == x = [pool |-> x.pool, store |-> x.store, engine |-> x.engine, single |-> x.single]

Keeps(x, y) == IsExec(y) /\ y.pool = x.pool

\* y is x with another part.
Except(x, y) == \E e : y = [x EXCEPT !.store = e] \/ y = [x EXCEPT !.engine = e] \/ y = [x EXCEPT !.single = e]

LEMMA PartKeeps ==
  ASSUME NEW x, IsExec(x), NEW y, Except(x, y) \/ y = x
  PROVE  Keeps(x, y)
<1>1. x = [pool |-> x.pool, store |-> x.store, engine |-> x.engine, single |-> x.single] BY DEF IsExec
<1>2. ASSUME NEW e, y = [x EXCEPT !.store = e] PROVE Keeps(x, y)
  <2>1. y = [pool |-> x.pool, store |-> e, engine |-> x.engine, single |-> x.single] BY <1>1, <1>2
  <2> QED BY <2>1 DEF Keeps, IsExec
<1>3. ASSUME NEW e, y = [x EXCEPT !.engine = e] PROVE Keeps(x, y)
  <2>1. y = [pool |-> x.pool, store |-> x.store, engine |-> e, single |-> x.single] BY <1>1, <1>3
  <2> QED BY <2>1 DEF Keeps, IsExec
<1>4. ASSUME NEW e, y = [x EXCEPT !.single = e] PROVE Keeps(x, y)
  <2>1. y = [pool |-> x.pool, store |-> x.store, engine |-> x.engine, single |-> e] BY <1>1, <1>4
  <2> QED BY <2>1 DEF Keeps, IsExec
<1>5. CASE y = x BY <1>5 DEF Keeps
<1>6. CASE Except(x, y)
  <2>1. PICK e : y = [x EXCEPT !.store = e] \/ y = [x EXCEPT !.engine = e] \/ y = [x EXCEPT !.single = e]
    BY <1>6, Zenon DEF Except
  <2> QED BY <1>2, <1>3, <1>4, <2>1, Zenon
<1> QED BY <1>5, <1>6

LEMMA KeepsOn ==
  ASSUME NEW x, NEW y, NEW z, Keeps(x, y), Keeps(y, z)
  PROVE  Keeps(x, z)
BY DEF Keeps

LEMMA CopyKeeps ==
  ASSUME NEW x, IsExec(x), NEW seg, NEW from, NEW pages
  PROVE  Keeps(x, CopyEngineToPool(x, seg, from, pages)) /\ Keeps(x, CopyPoolToEngine(x, from, pages))
<1>1. Except(x, CopyEngineToPool(x, seg, from, pages)) BY Zenon DEF CopyEngineToPool, Except
<1>2. Except(x, CopyPoolToEngine(x, from, pages)) BY Zenon DEF CopyPoolToEngine, Except
<1> QED BY <1>1, <1>2, PartKeeps

LEMMA SingleKeeps ==
  ASSUME NEW x, IsExec(x), NEW id
  PROVE  Keeps(x, FlushSingleton(x)) /\ Keeps(x, DropSingleton(x, id)) /\ Keeps(x, [x EXCEPT !.single = NoSingle])
<1>1. ASSUME NEW y, IsExec(y) PROVE Keeps(y, [y EXCEPT !.single = NoSingle])
  <2>1. Except(y, [y EXCEPT !.single = NoSingle]) BY Zenon DEF Except
  <2> QED BY <1>1, <2>1, PartKeeps
<1>2. Keeps(x, x) BY PartKeeps
<1>3. Keeps(x, DropSingleton(x, id)) BY <1>1, <1>2 DEF DropSingleton
<1>4. PICK y : y = CopyEngineToPool(x, x.single.seg, 0, PagesFor(x.single.kvLen)) OBVIOUS
<1>5. Keeps(x, y) /\ IsExec(y)
  <2>1. Keeps(x, y) BY <1>4, CopyKeeps
  <2> QED BY <2>1 DEF Keeps
<1>6. Keeps(x, [y EXCEPT !.single = NoSingle]) BY <1>1, <1>5, KeepsOn
<1>7. Keeps(x, FlushSingleton(x)) BY <1>2, <1>4, <1>6 DEF FlushSingleton
<1> QED BY <1>1, <1>3, <1>7

LEMMA PrefillKeeps ==
  ASSUME NEW x, IsExec(x), NEW ids, NEW base, NEW len
  PROVE  Keeps(x, Prefill(x, ids)) /\ Keeps(x, PrefillPrefixHit(x, base, len, ids))
<1>1. PICK y : y = FlushSingleton(x) OBVIOUS
<1>2. Keeps(x, y) /\ IsExec(y)
  <2>1. Keeps(x, y) BY <1>1, SingleKeeps
  <2> QED BY <2>1 DEF Keeps
<1>3. Except(y, Prefill(x, ids)) BY <1>1, Zenon DEF Prefill, Except
<1>4. Keeps(y, Prefill(x, ids)) BY <1>2, <1>3, PartKeeps
<1>5. PICK z : z = CopyPoolToEngine(y, base, len \div Block) OBVIOUS
<1>6. Keeps(y, z) /\ IsExec(z)
  <2>1. Keeps(y, z) BY <1>2, <1>5, CopyKeeps
  <2> QED BY <2>1 DEF Keeps
<1>7. Except(z, PrefillPrefixHit(x, base, len, ids)) BY <1>1, <1>5, Zenon DEF PrefillPrefixHit, Except
<1>8. Keeps(z, PrefillPrefixHit(x, base, len, ids)) BY <1>6, <1>7, PartKeeps
<1>9. Keeps(x, Prefill(x, ids)) BY <1>2, <1>4, KeepsOn
<1>10. Keeps(x, z) BY <1>2, <1>6, KeepsOn
<1> QED BY <1>8, <1>9, <1>10, KeepsOn

LEMMA PlaceKeeps ==
  ASSUME NEW x, IsExec(x), NEW id, NEW seg, NEW start, NEW len
  PROVE  Keeps(x, CommitStage(x, seg, start, len)) /\ Keeps(x, AdoptSingleton(x, id, seg, start, len))
<1>1. Keeps(x, CommitStage(x, seg, start, len)) BY CopyKeeps DEF CommitStage
<1>2. PICK y : y = IF start > 0 THEN CopyPoolToEngine(x, seg.base, PagesFor(start)) ELSE x OBVIOUS
<1>3. Keeps(x, y) /\ IsExec(y)
  <2>1. CASE start > 0
    <3>1. y = CopyPoolToEngine(x, seg.base, PagesFor(start)) BY <1>2, <2>1
    <3>2. Keeps(x, y) BY <3>1, CopyKeeps
    <3> QED BY <3>2 DEF Keeps
  <2>2. CASE ~(start > 0)
    <3>1. y = x BY <1>2, <2>2
    <3> QED BY <3>1, PartKeeps
  <2> QED BY <2>1, <2>2
<1>4. Except(y, AdoptSingleton(x, id, seg, start, len)) BY <1>2, Zenon DEF AdoptSingleton, Except
<1>5. Keeps(y, AdoptSingleton(x, id, seg, start, len)) BY <1>3, <1>4, PartKeeps
<1> QED BY <1>1, <1>3, <1>5, KeepsOn

LEMMA DecodeKeeps ==
  ASSUME NEW x, IsExec(x), NEW rs
  PROVE  Keeps(x, DecodeBatch(x, rs))
<1>1. ASSUME NEW id, NEW r PROVE Keeps(x, DecodeAlone(x, id, r))
  <2>1. PICK y : y = IF x.single.id = id THEN x ELSE CopyPoolToEngine(x, r.seg.base, PagesFor(r.kvLen)) OBVIOUS
  <2>2. Keeps(x, y) /\ IsExec(y)
    <3>1. CASE x.single.id = id
      <4>1. y = x BY <2>1, <3>1
      <4> QED BY <4>1, PartKeeps
    <3>2. CASE x.single.id # id
      <4>1. y = CopyPoolToEngine(x, r.seg.base, PagesFor(r.kvLen)) BY <2>1, <3>2
      <4>2. Keeps(x, y) BY <4>1, CopyKeeps
      <4> QED BY <4>2 DEF Keeps
    <3> QED BY <3>1, <3>2
  <2>3. PICK z : z = DecodeAlone(x, id, r) OBVIOUS
  <2>4. \E kv, n : z = [y EXCEPT !.engine[r.pos] = kv, !.single = n]
    BY <2>1, <2>3, Zenon DEF DecodeAlone
  <2>5. PICK kv, n : z = [y EXCEPT !.engine[r.pos] = kv, !.single = n] BY <2>4
  <2>6. y = [pool |-> y.pool, store |-> y.store, engine |-> y.engine, single |-> y.single] BY <2>2 DEF IsExec
  <2>7. PICK e : e = [y.engine EXCEPT ![r.pos] = kv] OBVIOUS
  <2>8. z = [y EXCEPT !.engine = e, !.single = n] BY <2>5, <2>7, Zenon
  <2>9. z = [pool |-> y.pool, store |-> y.store, engine |-> e, single |-> n] BY <2>6, <2>8
  <2>10. Keeps(y, z) BY <2>9 DEF Keeps, IsExec
  <2> QED BY <2>2, <2>3, <2>10, KeepsOn
<1>2. Keeps(x, DecodeTogether(x, rs))
  <2>1. PICK y : y = FlushSingleton(x) OBVIOUS
  <2>2. Keeps(x, y) /\ IsExec(y)
    <3>1. Keeps(x, y) BY <2>1, SingleKeeps
    <3> QED BY <3>1 DEF Keeps
  <2>3. Except(y, DecodeTogether(x, rs)) BY <2>1, Zenon DEF DecodeTogether, Except
  <2>4. Keeps(y, DecodeTogether(x, rs)) BY <2>2, <2>3, PartKeeps
  <2> QED BY <2>2, <2>4, KeepsOn
<1> QED BY <1>1, <1>2 DEF DecodeBatch

-----------------------------------------------------------------------------
(* What the pages of the pool are for *)

\* The owners: the anchor, the segments of a table, the keys of the cache.
Owners(held, e) == {<<0, 0>>} \union {<<1, d>> : d \in DOMAIN held} \union {<<2, k>> : k \in DOMAIN e}

OwnPages(held, e, o) ==
  IF o[1] = 0 THEN SegPages(Anchor)
  ELSE IF o[1] = 1 THEN SegPages(held[o[2]])
  ELSE RunsOf(e[o[2]], PagesOf(o[2]))

PagesOwned(held, e) == [o \in Owners(held, e) |-> OwnPages(held, e, o)]

Window(s) == \E b \in Nat : s = Seg(b, WindowPages)

\* The pool holds the anchor, the segments of `held` and the runs of the
\* entries `e`, and nothing else.
Holding(x, held, e) ==
  /\ IsExec(x) /\ Pooled(x.pool, PoolPages)
  /\ \A d \in DOMAIN held : Window(held[d])
  /\ \A k \in DOMAIN e : e[k] \in Nat /\ PagesOf(k) \in 1..LayerPages
  /\ Owned(x.pool.refs, PagesOwned(held, e))

LEMMA OwnerFacts ==
  ASSUME NEW held, NEW e, NEW h, h = PagesOwned(held, e)
  PROVE  /\ \A o : o \in DOMAIN h <=> \/ o = <<0, 0>> \/ \E d \in DOMAIN held : o = <<1, d>>
                                      \/ \E k \in DOMAIN e : o = <<2, k>>
         /\ \A d : <<1, d>> \in DOMAIN h <=> d \in DOMAIN held
         /\ \A k : <<2, k>> \in DOMAIN h <=> k \in DOMAIN e
         /\ h[<<0, 0>>] = SegPages(Anchor)
         /\ \A d \in DOMAIN held : h[<<1, d>>] = SegPages(held[d])
         /\ \A k \in DOMAIN e : h[<<2, k>>] = RunsOf(e[k], PagesOf(k))
<1>1. DOMAIN h = Owners(held, e) /\ \A o \in Owners(held, e) : h[o] = OwnPages(held, e, o) BY DEF PagesOwned
<1>2. \A o : o \in DOMAIN h <=> \/ o = <<0, 0>> \/ \E d \in DOMAIN held : o = <<1, d>>
                                \/ \E k \in DOMAIN e : o = <<2, k>>
  BY <1>1 DEF Owners
<1>3. \A d, k, c : <<1, d>> # <<0, 0>> /\ <<2, k>> # <<0, 0>> /\ <<1, d>> # <<2, k>>
                   /\ (<<1, d>> = <<1, c>> => d = c) /\ (<<2, d>> = <<2, c>> => d = c)
  OBVIOUS
<1>4. (\A d : <<1, d>> \in DOMAIN h <=> d \in DOMAIN held) /\ \A k : <<2, k>> \in DOMAIN h <=> k \in DOMAIN e
  BY <1>2, <1>3
<1>5. h[<<0, 0>>] = SegPages(Anchor)
  <2>1. <<0, 0>> \in Owners(held, e) BY <1>1, <1>2
  <2> QED BY <1>1, <2>1 DEF OwnPages
<1>6. ASSUME NEW d \in DOMAIN held PROVE h[<<1, d>>] = SegPages(held[d])
  <2>1. <<1, d>> \in Owners(held, e) BY <1>1, <1>2
  <2> QED BY <1>1, <2>1 DEF OwnPages
<1>7. ASSUME NEW k \in DOMAIN e PROVE h[<<2, k>>] = RunsOf(e[k], PagesOf(k))
  <2>1. <<2, k>> \in Owners(held, e) BY <1>1, <1>2
  <2> QED BY <1>1, <2>1 DEF OwnPages
<1> QED BY <1>2, <1>4, <1>5, <1>6, <1>7

\* Two tables with the same owners but for some give the others the same.
LEMMA SameOwners ==
  ASSUME NEW held, NEW e, NEW g, NEW f, NEW R,
         \A d \in DOMAIN held : d \in DOMAIN g \/ <<1, d>> \in R,
         \A k \in DOMAIN e : k \in DOMAIN f \/ <<2, k>> \in R,
         \A d \in DOMAIN held : <<1, d>> \notin R => g[d] = held[d],
         \A k \in DOMAIN e : <<2, k>> \notin R => f[k] = e[k]
  PROVE  Alike(PagesOwned(held, e), PagesOwned(g, f), DOMAIN PagesOwned(held, e) \ R)
<1> DEFINE h == PagesOwned(held, e)  i == PagesOwned(g, f)
<1> HIDE DEF h, i
<1>1. ASSUME NEW o \in DOMAIN h \ R PROVE i[o] = h[o]
  <2>1. \/ o = <<0, 0>>
        \/ \E d \in DOMAIN held : o = <<1, d>>
        \/ \E k \in DOMAIN e : o = <<2, k>>
    BY OwnerFacts DEF h
  <2>2. CASE o = <<0, 0>>
    <3>1. i[<<0, 0>>] = SegPages(Anchor) BY OwnerFacts DEF i
    <3>2. h[<<0, 0>>] = SegPages(Anchor) BY OwnerFacts DEF h
    <3> QED BY <2>2, <3>1, <3>2
  <2>3. ASSUME NEW d \in DOMAIN held, o = <<1, d>> PROVE i[o] = h[o]
    <3>1. d \in DOMAIN g /\ g[d] = held[d] BY <2>3
    <3>2. i[<<1, d>>] = SegPages(g[d]) BY <3>1, OwnerFacts DEF i
    <3>3. h[<<1, d>>] = SegPages(held[d]) BY OwnerFacts DEF h
    <3> QED BY <2>3, <3>1, <3>2, <3>3
  <2>4. ASSUME NEW k \in DOMAIN e, o = <<2, k>> PROVE i[o] = h[o]
    <3>1. k \in DOMAIN f /\ f[k] = e[k] BY <2>4
    <3>2. i[<<2, k>>] = RunsOf(f[k], PagesOf(k)) BY <3>1, OwnerFacts DEF i
    <3>3. h[<<2, k>>] = RunsOf(e[k], PagesOf(k)) BY OwnerFacts DEF h
    <3> QED BY <2>4, <3>1, <3>2, <3>3
  <2> QED BY <2>1, <2>2, <2>3, <2>4
<1> QED BY <1>1 DEF Alike, h, i

LEMMA WindowIs ==
  ASSUME NEW s, Window(s)
  PROVE  s \in Run /\ s.base \in Nat /\ s.len = WindowPages /\ s = Seg(s.base, WindowPages)
<1>1. PICK b \in Nat : s = Seg(b, WindowPages) BY DEF Window
<1>2. WindowPages \in Nat /\ WindowPages > 0 BY WindowFacts
<1> QED BY <1>1, <1>2, SegIsRun

LEMMA PoolSet ==
  ASSUME NEW x, IsExec(x), NEW q, NEW y, y = [x EXCEPT !.pool = q]
  PROVE  IsExec(y) /\ y.pool = q
<1>1. y = [pool |-> q, store |-> x.store, engine |-> x.engine, single |-> x.single] BY DEF IsExec
<1> QED BY <1>1 DEF IsExec

LEMMA HoldKeep == ASSUME NEW x, NEW held, NEW e, Holding(x, held, e), NEW y, Keeps(x, y) PROVE Holding(y, held, e)
BY DEF Holding, Keeps

\* A window comes.
Grows(held, d, s, g) == /\ d \notin DOMAIN held /\ DOMAIN g = DOMAIN held \union {d}
                        /\ (\A q \in DOMAIN held : g[q] = held[q]) /\ g[d] = s

LEMMA HoldAlloc ==
  ASSUME NEW x, NEW held, NEW e, Holding(x, held, e), CanAlloc(x.pool, WindowPages),
         NEW y, y = [x EXCEPT !.pool = Alloc(x.pool, WindowPages)],
         NEW d, NEW g, Grows(held, d, AllocSeg(x.pool, WindowPages), g)
  PROVE  Holding(y, g, e)
<1>1. PICK q, s : q = Alloc(x.pool, WindowPages) /\ s = AllocSeg(x.pool, WindowPages) OBVIOUS
<1>2. IsExec(x) /\ Pooled(x.pool, PoolPages) BY DEF Holding
<1>3. Grants(x.pool, PoolPages, s, q) /\ s.len = WindowPages
  <2>1. WindowPages \in Nat \ {0} BY WindowFacts
  <2> QED BY <1>1, <1>2, <2>1, AllocGrants
<1>4. IsExec(y) /\ y.pool = q BY <1>1, <1>2, PoolSet
<1>5. Window(s)
  <2>1. s.base \in Nat /\ s = Seg(s.base, s.len) BY <1>3 DEF Grants, Run, Seg
  <2> QED BY <1>3, <2>1 DEF Window
<1>6. \A c \in DOMAIN g : Window(g[c]) BY <1>1, <1>5 DEF Holding, Grows
<1> DEFINE h == PagesOwned(held, e)  i == PagesOwned(g, e)  o == <<1, d>>
<1>7. o \notin DOMAIN h /\ DOMAIN i = DOMAIN h \union {o} /\ i[o] = SegPages(s)
  <2>1. \A c : c \in DOMAIN g <=> c \in DOMAIN held \/ c = d BY DEF Grows
  <2>2. d \notin DOMAIN held /\ d \in DOMAIN g /\ g[d] = s BY <1>1, <2>1 DEF Grows
  <2>3. \A p : p \in DOMAIN h <=> \/ p = <<0, 0>> \/ \E c \in DOMAIN held : p = <<1, c>>
                                  \/ \E k \in DOMAIN e : p = <<2, k>>
    BY OwnerFacts
  <2>4. \A p : p \in DOMAIN i <=> \/ p = <<0, 0>> \/ \E c \in DOMAIN g : p = <<1, c>>
                                  \/ \E k \in DOMAIN e : p = <<2, k>>
    BY OwnerFacts
  <2>5. o \notin DOMAIN h BY <2>2, OwnerFacts
  <2>6. i[<<1, d>>] = SegPages(g[d]) BY <2>2, OwnerFacts
  <2> HIDE DEF h, i
  <2>7. DOMAIN i = DOMAIN h \union {o} BY <2>1, <2>3, <2>4
  <2> QED BY <2>2, <2>5, <2>6, <2>7
<1>8. Alike(h, i, DOMAIN h)
  <2>1. Alike(h, i, DOMAIN h \ {}) BY SameOwners DEF Grows
  <2> QED BY <2>1
<1>9. Owned(x.pool.refs, h) BY DEF Holding
<1>10. /\ SegPages(s) \subseteq PoolPages /\ \A p \in SegPages(s) : x.pool.refs[p] = 0
       /\ \A p \in PoolPages : q.refs[p] = IF p \in SegPages(s) THEN 1 ELSE x.pool.refs[p]
  BY <1>3 DEF Grants
<1> HIDE DEF h, i, o
<1>11. Owned(q.refs, i) BY <1>7, <1>8, <1>9, <1>10, OwnMore
<1>12. Pooled(q, PoolPages) BY <1>3 DEF Grants
<1> QED BY <1>4, <1>6, <1>11, <1>12 DEF Holding, i

\* A window goes.
Shrinks(held, ids, g) == DOMAIN g = DOMAIN held \ ids /\ \A q \in DOMAIN g : g[q] = held[q]

\* The pages of an owner are in the pool, and counted once.
LEMMA OwnedOnce ==
  ASSUME NEW refs, NEW h, Owned(refs, h), NEW o \in DOMAIN h
  PROVE  h[o] \subseteq PoolPages /\ \A p \in h[o] : refs[p] = 1
<1>1. h[o] \subseteq PoolPages BY DEF Owned
<1> QED BY <1>1 DEF Owned

LEMMA HoldFree ==
  ASSUME NEW x, NEW held, NEW e, Holding(x, held, e), NEW d \in DOMAIN held, NEW y, y = FreeSegment(x, held[d]),
         NEW g, Shrinks(held, {d}, g)
  PROVE  Holding(y, g, e)
<1> DEFINE h == PagesOwned(held, e)  i == PagesOwned(g, e)  o == <<1, d>>
<1>1. PICK s : s = held[d] OBVIOUS
<1>2. PICK q : q = Unref(x.pool, s) OBVIOUS
<1>3. IsExec(x) /\ Pooled(x.pool, PoolPages) /\ Owned(x.pool.refs, h) BY DEF Holding
<1>4. o \in DOMAIN h /\ h[o] = SegPages(s) BY <1>1, OwnerFacts
<1>5. IsExec(y) /\ y.pool = q
  <2>1. y = [x EXCEPT !.pool = q] BY <1>1, <1>2 DEF FreeSegment
  <2> QED BY <1>3, <2>1, PoolSet
<1>6. Alike(h, i, DOMAIN h \ {o})
  <2>1. \A c \in DOMAIN held : c \in DOMAIN g \/ <<1, c>> \in {o} BY DEF Shrinks
  <2>2. \A c \in DOMAIN held : <<1, c>> \notin {o} => g[c] = held[c] BY DEF Shrinks
  <2> QED BY <2>1, <2>2, SameOwners
<1>7. DOMAIN i = DOMAIN h \ {o}
  <2>1. \A c : c \in DOMAIN g <=> c \in DOMAIN held /\ c # d BY DEF Shrinks
  <2>2. \A p : p \in DOMAIN h <=> \/ p = <<0, 0>> \/ \E c \in DOMAIN held : p = <<1, c>>
                                  \/ \E k \in DOMAIN e : p = <<2, k>>
    BY OwnerFacts
  <2>3. \A p : p \in DOMAIN i <=> \/ p = <<0, 0>> \/ \E c \in DOMAIN g : p = <<1, c>>
                                  \/ \E k \in DOMAIN e : p = <<2, k>>
    BY OwnerFacts
  <2> HIDE DEF h, i
  <2> QED BY <2>1, <2>2, <2>3
<1> HIDE DEF h, i, o
<1>8. SegPages(s) \subseteq PoolPages /\ \A p \in SegPages(s) : x.pool.refs[p] = 1 BY <1>3, <1>4, OwnedOnce
<1>9. Drops(x.pool, PoolPages, SegPages(s), q)
  <2>1. s \in Run
    <3>1. Window(s) BY <1>1 DEF Holding
    <3> QED BY <3>1, WindowIs
  <2>2. \A p \in SegPages(s) : x.pool.refs[p] >= 1 BY <1>8
  <2> QED BY <1>2, <1>3, <1>8, <2>1, <2>2, UnrefDrops
<1>10. \A p \in PoolPages : q.refs[p] = IF \E r \in {o} : p \in h[r] THEN 0 ELSE x.pool.refs[p]
  BY <1>4, <1>8, <1>9 DEF Drops
<1>11. {o} \in SUBSET DOMAIN h BY <1>4
<1>12. Owned(q.refs, i) BY <1>3, <1>6, <1>7, <1>10, <1>11, OwnLess
<1>13. \A c \in DOMAIN g : Window(g[c]) BY DEF Shrinks, Holding
<1> QED BY <1>5, <1>9, <1>12, <1>13 DEF Holding, Drops, i

\* An entry goes.
LEMMA HoldEvict ==
  ASSUME NEW x, NEW held, NEW e, Holding(x, held, e), NEW k \in DOMAIN e, NEW y, y = UnrefPrefix(x, e[k], PagesOf(k)),
         NEW f, Shrinks(e, {k}, f)
  PROVE  Holding(y, held, f)
<1> DEFINE h == PagesOwned(held, e)  i == PagesOwned(held, f)  o == <<2, k>>
<1>1. PICK runs : runs = LayerRuns(e[k], PagesOf(k)) OBVIOUS
<1>2. PICK q : q = Dereferenced(x.pool, runs) OBVIOUS
<1>3. IsExec(x) /\ Pooled(x.pool, PoolPages) /\ Owned(x.pool.refs, h) /\ e[k] \in Nat /\ PagesOf(k) \in 1..LayerPages
  BY DEF Holding
<1>4. runs \in Seq(Run) /\ AllDisjoint(runs) /\ Covered(runs) = RunsOf(e[k], PagesOf(k)) BY <1>1, <1>3, LayerFacts
<1>5. o \in DOMAIN h /\ h[o] = Covered(runs) BY <1>4, OwnerFacts
<1>6. IsExec(y) /\ y.pool = q
  <2>1. y = [x EXCEPT !.pool = q] BY <1>1, <1>2, Zenon DEF UnrefPrefix, Dereferenced
  <2> QED BY <1>3, <2>1, PoolSet
<1>7. Alike(h, i, DOMAIN h \ {o})
  <2>1. \A c \in DOMAIN e : c \in DOMAIN f \/ <<2, c>> \in {o} BY DEF Shrinks
  <2>2. \A c \in DOMAIN e : <<2, c>> \notin {o} => f[c] = e[c] BY DEF Shrinks
  <2> QED BY <2>1, <2>2, SameOwners
<1>8. DOMAIN i = DOMAIN h \ {o}
  <2>1. \A c : c \in DOMAIN f <=> c \in DOMAIN e /\ c # k BY DEF Shrinks
  <2>2. \A p : p \in DOMAIN h <=> \/ p = <<0, 0>> \/ \E c \in DOMAIN held : p = <<1, c>>
                                  \/ \E c \in DOMAIN e : p = <<2, c>>
    BY OwnerFacts
  <2>3. \A p : p \in DOMAIN i <=> \/ p = <<0, 0>> \/ \E c \in DOMAIN held : p = <<1, c>>
                                  \/ \E c \in DOMAIN f : p = <<2, c>>
    BY OwnerFacts
  <2> HIDE DEF h, i
  <2> QED BY <2>1, <2>2, <2>3
<1> HIDE DEF h, i, o
<1>9. Covered(runs) \subseteq PoolPages /\ \A p \in Covered(runs) : x.pool.refs[p] = 1 BY <1>3, <1>5, OwnedOnce
<1>10. Drops(x.pool, PoolPages, Covered(runs), q)
  <2>1. \A p \in Covered(runs) : x.pool.refs[p] >= 1 BY <1>9
  <2> QED BY <1>2, <1>3, <1>4, <1>9, <2>1, UnrefRuns
<1>11. \A p \in PoolPages : q.refs[p] = IF \E r \in {o} : p \in h[r] THEN 0 ELSE x.pool.refs[p]
  BY <1>5, <1>9, <1>10 DEF Drops
<1>12. {o} \in SUBSET DOMAIN h BY <1>5
<1>13. Owned(q.refs, i) BY <1>3, <1>7, <1>8, <1>11, <1>12, OwnLess
<1>14. \A c \in DOMAIN f : f[c] \in Nat /\ PagesOf(c) \in 1..LayerPages BY DEF Shrinks, Holding
<1>15. \A d \in DOMAIN held : Window(held[d]) BY DEF Holding
<1> QED BY <1>6, <1>10, <1>13, <1>14, <1>15 DEF Holding, Drops, i

\* The prefix of a window that ends stays, for the cache.
LEMMA HoldRefill ==
  ASSUME NEW x, NEW held, NEW e, Holding(x, held, e), NEW d \in DOMAIN held, NEW key, PagesOf(key) \in 1..LayerPages,
         NEW y, y = RefillPrefix(x, d, held[d], PagesOf(key)),
         NEW g, Shrinks(held, {d}, g), NEW f, Grows(e, key, held[d].base, f)
  PROVE  Holding(y, g, f)
<1> DEFINE h == PagesOwned(held, e)  i == PagesOwned(g, f)  o == <<1, d>>  n == <<2, key>>
<1>1. PICK s : s = held[d] OBVIOUS
<1>2. PICK runs : runs = LayerRuns(s.base, PagesOf(key)) OBVIOUS
<1>3. PICK q : q = Referenced(x.pool, runs) OBVIOUS
<1>4. PICK r : r = Unref(q, s) OBVIOUS
<1>5. IsExec(x) /\ Pooled(x.pool, PoolPages) /\ Owned(x.pool.refs, h) BY DEF Holding
<1>6. s \in Run /\ s.base \in Nat /\ s = Seg(s.base, WindowPages)
  <2>1. Window(s) BY <1>1 DEF Holding
  <2> QED BY <2>1, WindowIs
<1>7. /\ runs \in Seq(Run) /\ AllDisjoint(runs) /\ Covered(runs) = RunsOf(s.base, PagesOf(key))
      /\ Covered(runs) \subseteq SegPages(s)
  BY <1>2, <1>6, LayerFacts
<1>8. o \in DOMAIN h /\ h[o] = SegPages(s) BY <1>1, OwnerFacts
<1>9. IsExec(y) /\ y.pool = r
  <2>1. PICK w : w = IF x.single.id = d THEN CopyEngineToPool(x, s, 0, PagesFor(x.single.kvLen)) ELSE x OBVIOUS
  <2>2. Keeps(x, w)
    <3>1. CASE x.single.id = d
      <4>1. w = CopyEngineToPool(x, s, 0, PagesFor(x.single.kvLen)) BY <2>1, <3>1
      <4> QED BY <1>5, <4>1, CopyKeeps
    <3>2. CASE x.single.id # d
      <4>1. w = x BY <2>1, <3>2
      <4> QED BY <1>5, <4>1, PartKeeps
    <3> QED BY <3>1, <3>2
  <2>3. IsExec(w) /\ w.pool = x.pool BY <2>2 DEF Keeps
  <2>4. PICK z : z = [w EXCEPT !.pool = q, !.single = NoSingle] OBVIOUS
  <2>5. IsExec(z) /\ z.pool = q
    <3>1. z = [pool |-> q, store |-> w.store, engine |-> w.engine, single |-> NoSingle] BY <2>3, <2>4 DEF IsExec
    <3> QED BY <3>1 DEF IsExec
  <2>6. z = [w EXCEPT !.pool = FoldLeft(Ref, w.pool, runs), !.single = NoSingle] BY <1>3, <2>3, <2>4 DEF Referenced
  <2>7. y = FreeSegment(z, s) BY <1>1, <1>2, <2>1, <2>6, Zenon DEF RefillPrefix
  <2>8. y = [z EXCEPT !.pool = r] BY <1>4, <2>5, <2>7 DEF FreeSegment
  <2> QED BY <2>5, <2>8, PoolSet
<1>10. Alike(h, i, DOMAIN h \ {o})
  <2>1. \A c \in DOMAIN held : c \in DOMAIN g \/ <<1, c>> \in {o} BY DEF Shrinks
  <2>2. \A c \in DOMAIN held : <<1, c>> \notin {o} => g[c] = held[c] BY DEF Shrinks
  <2>3. \A c \in DOMAIN e : c \in DOMAIN f /\ f[c] = e[c] BY DEF Grows
  <2> QED BY <2>1, <2>2, <2>3, SameOwners
<1>11. n \notin DOMAIN h /\ DOMAIN i = (DOMAIN h \ {o}) \union {n} /\ i[n] = Covered(runs)
  <2>1. \A c : c \in DOMAIN g <=> c \in DOMAIN held /\ c # d BY DEF Shrinks
  <2>2. (\A c : c \in DOMAIN f <=> c \in DOMAIN e \/ c = key) /\ key \notin DOMAIN e /\ f[key] = s.base
    BY <1>1 DEF Grows
  <2>3. n \notin DOMAIN h BY <2>2, OwnerFacts
  <2>4. i[<<2, key>>] = RunsOf(f[key], PagesOf(key)) BY <2>2, OwnerFacts
  <2>5. \A p : p \in DOMAIN h <=> \/ p = <<0, 0>> \/ \E c \in DOMAIN held : p = <<1, c>>
                                  \/ \E c \in DOMAIN e : p = <<2, c>>
    BY OwnerFacts
  <2>6. \A p : p \in DOMAIN i <=> \/ p = <<0, 0>> \/ \E c \in DOMAIN g : p = <<1, c>>
                                  \/ \E c \in DOMAIN f : p = <<2, c>>
    BY OwnerFacts
  <2> HIDE DEF h, i
  <2>7. DOMAIN i = (DOMAIN h \ {o}) \union {n} BY <2>1, <2>2, <2>5, <2>6
  <2> QED BY <1>7, <2>2, <2>3, <2>4, <2>7
<1> HIDE DEF h, i, o, n
<1>12. SegPages(s) \subseteq PoolPages /\ \A p \in SegPages(s) : x.pool.refs[p] = 1 BY <1>5, <1>8, OwnedOnce
<1>13. Refers(x.pool, PoolPages, Covered(runs), q)
  <2>1. Covered(runs) \subseteq PoolPages /\ \A p \in Covered(runs) : x.pool.refs[p] >= 1 BY <1>7, <1>12
  <2> QED BY <1>3, <1>5, <1>7, <2>1, RefRuns
<1>14. \A p \in PoolPages : q.refs[p] = IF p \in Covered(runs) THEN x.pool.refs[p] + 1 ELSE x.pool.refs[p]
  BY <1>13 DEF Refers
<1>15. Drops(q, PoolPages, SegPages(s), r)
  <2>1. \A p \in SegPages(s) : q.refs[p] >= 1 BY <1>12, <1>14
  <2>2. Pooled(q, PoolPages) BY <1>13 DEF Refers
  <2> QED BY <1>4, <1>6, <1>12, <2>1, <2>2, UnrefDrops
<1>16. \A p \in PoolPages : r.refs[p] = IF p \in SegPages(s) THEN q.refs[p] - 1 ELSE q.refs[p] BY <1>15 DEF Drops
<1>17. \A p \in PoolPages : r.refs[p] = IF p \in h[o] /\ p \notin Covered(runs) THEN 0 ELSE x.pool.refs[p]
  <2> TAKE p \in PoolPages
  <2>1. q.refs[p] = IF p \in Covered(runs) THEN x.pool.refs[p] + 1 ELSE x.pool.refs[p] BY <1>14
  <2>2. r.refs[p] = IF p \in SegPages(s) THEN q.refs[p] - 1 ELSE q.refs[p] BY <1>16
  <2>3. p \in SegPages(s) => x.pool.refs[p] = 1 BY <1>12
  <2> QED BY <1>7, <1>8, <2>1, <2>2, <2>3
<1>18. Covered(runs) \subseteq h[o] BY <1>7, <1>8
<1>19. Owned(r.refs, i)
  <2>1. PICK S : S = Covered(runs) OBVIOUS
  <2>2. \A p \in PoolPages : r.refs[p] = IF p \in h[o] /\ p \notin S THEN 0 ELSE x.pool.refs[p] BY <1>17, <2>1
  <2>3. S \subseteq h[o] /\ i[n] = S BY <1>11, <1>18, <2>1
  <2>4. PICK u : u = x.pool.refs OBVIOUS
  <2>5. PICK v : v = r.refs OBVIOUS
  <2>6. Owned(u, h) /\ \A p \in PoolPages : v[p] = IF p \in h[o] /\ p \notin S THEN 0 ELSE u[p]
    BY <1>5, <2>2, <2>4, <2>5
  <2>7. o \in DOMAIN h /\ n \notin DOMAIN h /\ DOMAIN i = (DOMAIN h \ {o}) \union {n} BY <1>8, <1>11
  <2>8. Owned(v, i) BY <1>10, <2>3, <2>6, <2>7, OwnPart
  <2> QED BY <2>5, <2>8
<1>20. \A c \in DOMAIN g : Window(g[c]) BY DEF Shrinks, Holding
<1>21. \A c \in DOMAIN f : f[c] \in Nat /\ PagesOf(c) \in 1..LayerPages BY <1>1, <1>6 DEF Grows, Holding
<1>22. Pooled(r, PoolPages) BY <1>15 DEF Drops
<1> QED BY <1>9, <1>19, <1>20, <1>21, <1>22 DEF Holding, i

\* Tables with the same entries are the same to the pool.
LEMMA HoldSame ==
  ASSUME NEW x, NEW held, NEW e, Holding(x, held, e), NEW g, Shrinks(held, {}, g), NEW f, Shrinks(e, {}, f)
  PROVE  Holding(x, g, f)
<1> DEFINE h == PagesOwned(held, e)  i == PagesOwned(g, f)
<1>1. DOMAIN g = DOMAIN held /\ DOMAIN f = DOMAIN e /\ (\A d \in DOMAIN held : g[d] = held[d]) /\ \A k \in DOMAIN e : f[k] = e[k]
  BY DEF Shrinks
<1>2. \A o \in DOMAIN h : i[o] = h[o]
  <2>1. Alike(h, i, DOMAIN h \ {}) BY <1>1, SameOwners
  <2> QED BY <2>1 DEF Alike
<1>3. DOMAIN i = DOMAIN h BY <1>1 DEF PagesOwned, Owners
<1> HIDE DEF h, i
<1>4. Owned(x.pool.refs, h) BY DEF Holding, h
<1>5. Owned(x.pool.refs, i)
  <2>1. \A p : (\E o \in DOMAIN i : p \in i[o]) <=> (\E o \in DOMAIN h : p \in h[o]) BY <1>2, <1>3
  <2> QED BY <1>2, <1>3, <1>4, <2>1 DEF Owned
<1> QED BY <1>1, <1>5 DEF Holding, i

-----------------------------------------------------------------------------
(* Several entries *)

Unreferencing(e, base, seq) == FoldLeft(LAMBDA x, k : UnrefPrefix(x, e[k], PagesOf(k)), base, seq)

UnreferencesTo(pre, e, base, seq, A) ==
  /\ Along(pre, Len(seq), A, base) /\ Unreferencing(e, base, seq) = pre[Len(seq)]
  /\ \A k \in 1..Len(seq) : pre[k] = UnrefPrefix(pre[k - 1], e[seq[k]], PagesOf(seq[k]))

LEMMA EvictFold ==
  ASSUME NEW A, NEW e, NEW base \in A, NEW S, NEW seq \in Seq(S),
         \A a \in A, i \in 1..Len(seq) : UnrefPrefix(a, e[seq[i]], PagesOf(seq[i])) \in A
  PROVE  \E pre : UnreferencesTo(pre, e, base, seq, A)
<1> DEFINE n == Len(seq)
           step == [i \in 1..n |-> [a \in A |-> UnrefPrefix(a, e[seq[i]], PagesOf(seq[i]))]]
           Fix(f) == f = [T \in SUBSET (1..n) |->
                            IF T = {} THEN base
                            ELSE UnrefPrefix(f[T \ {Max(T)}], e[seq[Max(T)]], PagesOf(seq[Max(T)]))]
           iter == CHOOSE f : Fix(f)
<1>1. n \in Nat /\ DOMAIN seq = 1..n OBVIOUS
<1>2. step \in [1..n -> [A -> A]] /\ \A i \in 1..n, a \in A : step[i][a] = UnrefPrefix(a, e[seq[i]], PagesOf(seq[i]))
  OBVIOUS
<1>3. Unreferencing(e, base, seq) = iter[1..n]
  BY <1>1, Zenon DEF FoldLeft, MapThenFoldSet, Unreferencing
<1> HIDE DEF n, step
<1>4. PICK f : Solves(f, n, A, base, step) BY <1>1, <1>2, FoldExists
<1>5. /\ f \in [SUBSET (1..n) -> A]
      /\ \A T \in SUBSET (1..n) : f[T] = IF T = {} THEN base ELSE step[Max(T)][f[T \ {Max(T)}]]
  BY <1>4 DEF Solves
<1>6. \A T \in SUBSET (1..n) : T # {} => Max(T) \in 1..n /\ T \ {Max(T)} \in SUBSET (1..n)
  BY <1>1, MaxIsIn
<1>7. Fix(iter)
  <2>1. ASSUME NEW T \in SUBSET (1..n)
        PROVE  f[T] = IF T = {} THEN base ELSE UnrefPrefix(f[T \ {Max(T)}], e[seq[Max(T)]], PagesOf(seq[Max(T)]))
    <3>1. T # {} => f[T \ {Max(T)}] \in A BY <1>5, <1>6
    <3> QED BY <1>2, <1>5, <1>6, <3>1
  <2>2. Fix(f) BY <1>5, <2>1
  <2> QED BY <2>2
<1> HIDE DEF iter
<1>8. \A T \in SUBSET (1..n) :
        iter[T] = IF T = {} THEN base ELSE UnrefPrefix(iter[T \ {Max(T)}], e[seq[Max(T)]], PagesOf(seq[Max(T)]))
  BY <1>7
<1> HIDE DEF Fix
<1>9. iter[{}] = base BY <1>8
<1>10. Unwinds(iter, n, A, base, step)
  <2>1. ASSUME NEW T \in SUBSET (1..n), T # {}, iter[T \ {Max(T)}] \in A
        PROVE  iter[T] = step[Max(T)][iter[T \ {Max(T)}]]
    BY <1>2, <1>6, <1>8, <2>1
  <2> QED BY <1>9, <2>1 DEF Unwinds
<1>11. PICK pre : Follows(pre, n, A, base, step) /\ iter[1..n] = pre[n]
  BY <1>1, <1>2, <1>10, PrefixesOf
<1>12. /\ Along(pre, n, A, base) /\ iter[1..n] = pre[n]
       /\ \A k \in 1..n : pre[k] = step[k][pre[k - 1]]
  BY <1>11 DEF Follows
<1>13. \A k \in 1..n : pre[k] = UnrefPrefix(pre[k - 1], e[seq[k]], PagesOf(seq[k]))
  <2> TAKE k \in 1..n
  <2>1. pre[k - 1] \in A BY <1>1, <1>12, PrefixFacts DEF Along
  <2> QED BY <1>2, <1>12, <2>1
<1> QED BY <1>3, <1>12, <1>13 DEF n, UnreferencesTo

\* The executors an eviction leads through.
ExecsOf(x) == [pool : Pools(PoolPages), store : {x.store}, engine : {x.engine}, single : {x.single}]

LEMMA EvictType ==
  ASSUME NEW x, NEW a \in ExecsOf(x), NEW b \in Nat, NEW n \in 1..LayerPages
  PROVE  UnrefPrefix(a, b, n) \in ExecsOf(x)
<1>1. PICK runs : runs = LayerRuns(b, n) OBVIOUS
<1>2. PICK q : q = Dereferenced(a.pool, runs) OBVIOUS
<1>3. a.pool \in Pools(PoolPages) /\ a = [pool |-> a.pool, store |-> x.store, engine |-> x.engine, single |-> x.single]
  BY DEF ExecsOf
<1>4. runs \in Seq(Run) BY <1>1, LayerFacts
<1>5. q \in Pools(PoolPages)
  <2>1. \A i \in 1..Len(runs) : runs[i] \in Run BY <1>4
  <2>2. \A p \in Pools(PoolPages), i \in 1..Len(runs) : Unref(p, runs[i]) \in Pools(PoolPages) BY <2>1, PoolShape
  <2>3. PICK pre : DereferencesTo(pre, a.pool, runs, Pools(PoolPages)) BY <1>3, <1>4, <2>2, UnrefFold
  <2>4. Len(runs) \in Nat BY <1>4
  <2> QED BY <1>2, <2>3, <2>4 DEF DereferencesTo, Along
<1>6. UnrefPrefix(a, b, n) = [a EXCEPT !.pool = q] BY <1>1, <1>2, Zenon DEF UnrefPrefix, Dereferenced
<1>7. UnrefPrefix(a, b, n) = [pool |-> q, store |-> x.store, engine |-> x.engine, single |-> x.single] BY <1>3, <1>6
<1> QED BY <1>5, <1>7 DEF ExecsOf

LEMMA HoldEvictions ==
  ASSUME NEW x, NEW held, NEW e, Holding(x, held, e), NEW seq \in Seq(DOMAIN e), Distinct(seq),
         NEW y, y = Unreferencing(e, x, seq), NEW f, Shrinks(e, Among(seq), f)
  PROVE  Holding(y, held, f)
<1> DEFINE n == Len(seq)
           first(k) == {seq[i] : i \in 1..k}
<1>1. n \in Nat /\ \A k \in 1..n : seq[k] \in DOMAIN e OBVIOUS
<1>2. \A k \in DOMAIN e : e[k] \in Nat /\ PagesOf(k) \in 1..LayerPages BY DEF Holding
<1>3. x \in ExecsOf(x)
  <2>1. x.pool \in Pools(PoolPages) BY PooledIs DEF Holding
  <2> QED BY <2>1 DEF Holding, IsExec, ExecsOf
<1>4. \A a \in ExecsOf(x), i \in 1..Len(seq) : UnrefPrefix(a, e[seq[i]], PagesOf(seq[i])) \in ExecsOf(x)
  BY <1>1, <1>2, EvictType
<1>5. PICK pre : UnreferencesTo(pre, e, x, seq, ExecsOf(x)) BY <1>3, <1>4, EvictFold
<1>6. pre[0] = x /\ y = pre[n] /\ \A k \in 1..n : pre[k] = UnrefPrefix(pre[k - 1], e[seq[k]], PagesOf(seq[k]))
  BY <1>5 DEF UnreferencesTo, Along
<1> DEFINE S == {k \in 0..n : \A w : Shrinks(e, first(k), w) => Holding(pre[k], held, w)}
<1>7. 0 \in S
  <2>1. first(0) = {} OBVIOUS
  <2>2. Shrinks(held, {}, held) BY DEF Shrinks
  <2>3. \A w : Shrinks(e, {}, w) => Holding(x, held, w) BY <2>2, HoldSame
  <2>4. \A w : Shrinks(e, first(0), w) => Holding(pre[0], held, w) BY <1>6, <2>1, <2>3
  <2>5. 0 \in 0..n BY <1>1
  <2> HIDE DEF first
  <2> QED BY <2>4, <2>5
<1>8. ASSUME NEW k \in 1..n, k - 1 \in S PROVE k \in S
  <2>1. ASSUME NEW w, Shrinks(e, first(k), w) PROVE Holding(pre[k], held, w)
    <3>1. PICK key : key = seq[k] OBVIOUS
    <3>2. PICK v : v = Restrict(e, DOMAIN e \ first(k - 1)) OBVIOUS
    <3>3. Shrinks(e, first(k - 1), v) BY <3>2 DEF Shrinks, Restrict
    <3>4. PICK a : a = pre[k - 1] OBVIOUS
    <3>5. Holding(a, held, v) BY <1>8, <3>3, <3>4
    <3>6. first(k) = first(k - 1) \union {key}
      <4>1. 1..k = 1..(k - 1) \union {k} OBVIOUS
      <4> QED BY <3>1, <4>1
    <3>7. key \in DOMAIN e /\ key \notin first(k - 1)
      <4>1. \A i \in 1..(k - 1) : i \in 1..n /\ i # k OBVIOUS
      <4> QED BY <1>1, <3>1, <4>1 DEF Distinct
    <3> HIDE DEF first
    <3>8. key \in DOMAIN v /\ v[key] = e[key] BY <3>3, <3>7 DEF Shrinks
    <3>9. Shrinks(v, {key}, w) BY <2>1, <3>3, <3>6 DEF Shrinks
    <3>10. pre[k] = UnrefPrefix(a, v[key], PagesOf(key)) BY <1>6, <3>1, <3>4, <3>8
    <3> QED BY <3>5, <3>8, <3>9, <3>10, HoldEvict
  <2> QED BY <1>1, <2>1
<1>9. n \in S
  <2> HIDE DEF S
  <2>1. \A k \in 0..n : k \in S BY <1>1, <1>7, <1>8, PrefixInduction
  <2> QED BY <1>1, <2>1
<1>10. first(n) = Among(seq) BY DEF Among
<1> QED BY <1>6, <1>9, <1>10

-----------------------------------------------------------------------------
(* The pool at start *)

\* The anchor, the first window of a new pool.
LEMMA AnchorIs ==
  ASSUME NEW new, new = NewPool(KvPages), NEW q, q = AllocFromEnd(new, WindowPages)
  PROVE  Grants(new, PoolPages, Anchor, q) /\ Anchor.len = WindowPages /\ \A p \in PoolPages : new.refs[p] = 0
<1>1. PICK kp \in Nat \ {0} : kp = KvPages BY WindowFacts
<1>2. PICK w \in Nat \ {0} : w = WindowPages /\ w <= kp BY <1>1, WindowFacts
<1>3. new = NewPool(kp) BY <1>1
<1>4. new = [refs |-> [p \in 0..kp - 1 |-> 0], free |-> <<Seg(0, kp)>>] BY <1>1, <1>3 DEF NewPool
<1>5. new.refs = [p \in 0..kp - 1 |-> 0] /\ new.free = <<Seg(0, kp)>> BY <1>4
<1>6. PoolPages = 0..kp - 1 BY <1>1 DEF PoolPages
<1>7. Seg(0, kp) \in Run /\ Seg(0, kp).len = kp /\ SegPages(Seg(0, kp)) = PoolPages
  <2>1. 0 \in Nat /\ kp > 0 OBVIOUS
  <2>2. Seg(0, kp) \in Run /\ Seg(0, kp).len = kp /\ Seg(0, kp).base = 0 /\ SegEnd(Seg(0, kp)) = 0 + kp BY <2>1, SegIsRun
  <2> QED BY <1>6, <2>2 DEF SegPages
<1>8. Pooled(new, PoolPages)
  <2>1. new.free \in Seq(Run) /\ Len(new.free) = 1 /\ new.free[1] = Seg(0, kp) BY <1>5, <1>7
  <2>2. AllApart(new.free) BY <2>1 DEF AllApart
  <2>3. Covered(new.free) = PoolPages BY <1>7, <2>1 DEF Covered
  <2>4. {p \in PoolPages : new.refs[p] = 0} = PoolPages BY <1>5, <1>6
  <2>5. new.refs \in [PoolPages -> Nat] BY <1>5, <1>6
  <2>6. PoolPages \subseteq Nat BY <1>6
  <2> QED BY <1>4, <1>5, <2>1, <2>2, <2>3, <2>4, <2>5, <2>6 DEF Pooled, Stretches
<1>9. LastFit(new, w) # 0
  <2> DEFINE I == {i \in 1..Len(new.free) : new.free[i].len >= w}
  <2>1. LastFit(new, w) = IF I # {} THEN Max(I) ELSE 0 BY Zenon DEF LastFit, SelectLastInSeq
  <2>2. Len(new.free) = 1 /\ new.free[1].len >= w BY <1>2, <1>5, <1>7
  <2>3. 1 \in I /\ I \in SUBSET (1..1) BY <2>2
  <2> HIDE DEF I
  <2>4. 1 \in Nat OBVIOUS
  <2>5. Max(I) \in 1..1 BY <2>3, <2>4, MaxIsIn
  <2> QED BY <2>1, <2>3, <2>5
<1>10. q = AllocFromEnd(new, w) BY <1>2
<1>11. Grants(new, PoolPages, EndSeg(new, w), q) /\ EndSeg(new, w).len = w BY <1>8, <1>9, <1>10, EndGrants
<1>12. EndSeg(new, w) = Anchor BY <1>1, <1>2, <1>3 DEF Anchor
<1>13. \A p \in PoolPages : new.refs[p] = 0 BY <1>5, <1>6
<1> QED BY <1>2, <1>11, <1>12, <1>13

LEMMA NewExecHolds ==
  ASSUME NEW held, DOMAIN held = {}, NEW e, DOMAIN e = {}
  PROVE  Holding(NewExec, held, e)
<1> DEFINE h == PagesOwned(held, e)
<1>1. PICK new : new = NewPool(KvPages) OBVIOUS
<1>2. PICK q : q = AllocFromEnd(new, WindowPages) OBVIOUS
<1>3. Grants(new, PoolPages, Anchor, q) /\ \A p \in PoolPages : new.refs[p] = 0 BY <1>1, <1>2, AnchorIs
<1>4. IsExec(NewExec) /\ NewExec.pool = q BY <1>1, <1>2 DEF NewExec, IsExec
<1>5. DOMAIN h = {<<0, 0>>} /\ h[<<0, 0>>] = SegPages(Anchor)
  <2>1. \A o : o \in DOMAIN h <=> o = <<0, 0>> BY OwnerFacts
  <2>2. h[<<0, 0>>] = SegPages(Anchor) BY OwnerFacts
  <2> QED BY <2>1, <2>2
<1> HIDE DEF h
<1>6. SegPages(Anchor) \subseteq PoolPages /\ \A p \in PoolPages : q.refs[p] = IF p \in SegPages(Anchor) THEN 1 ELSE new.refs[p]
  BY <1>3 DEF Grants
<1>7. Owned(q.refs, h) BY <1>3, <1>5, <1>6 DEF Owned
<1>8. Pooled(q, PoolPages) BY <1>3 DEF Grants
<1> QED BY <1>4, <1>7, <1>8 DEF Holding, h

-----------------------------------------------------------------------------
(* Slots *)

Page(s) == s \div Block

\* A slot is on the page of its layer that its position is on.
LEMMA SlotPage ==
  ASSUME NEW b \in Nat, NEW li \in Layers, NEW i \in Nat
  PROVE  SlotOf(b, li, i) \in Nat /\ Page(SlotOf(b, li, i)) = b + li * LayerPages + (i \div Block)
<1>1. LayerPages \in Nat /\ NLayer \in Nat \ {0} /\ Block \in Nat \ {0} BY WindowFacts, ConfigAssumption
<1>2. li \in Nat BY <1>1 DEF Layers
<1>3. PICK l \in Nat, k \in Nat \ {0} : l = LayerPages /\ k = Block BY <1>1
<1>4. PICK u \in Nat : u = li * l BY <1>2
<1>5. PICK o \in Nat : o = b + u OBVIOUS
<1>6. PICK q \in Nat, r \in 0..(k - 1) : i = q * k + r /\ q = i \div k BY DivMod
<1>7. SlotOf(b, li, i) = o * k + i BY <1>3, <1>4, <1>5 DEF SlotOf
<1>8. PICK t \in Nat : t = o + q OBVIOUS
<1>9. t * k = o * k + q * k /\ o * k \in Nat /\ q * k \in Nat BY <1>8
<1>10. PICK s \in Nat : s = o * k + i BY <1>9
<1>11. s = t * k + r BY <1>6, <1>9, <1>10
<1>12. s \div k = t
  <2>1. PICK v \in Nat, w \in 0..(k - 1) : s = v * k + w /\ v = s \div k BY DivMod
  <2>2. CASE v < t
    <3>1. v * k + k <= t * k /\ v * k \in Nat /\ t * k \in Nat BY <2>2, TimesStep
    <3> QED BY <1>11, <2>1, <3>1
  <2>3. CASE t < v
    <3>1. t * k + k <= v * k /\ v * k \in Nat /\ t * k \in Nat BY <2>3, TimesStep
    <3> QED BY <1>11, <2>1, <3>1
  <2> QED BY <2>1, <2>2, <2>3
<1> QED BY <1>3, <1>4, <1>5, <1>6, <1>7, <1>8, <1>10, <1>12 DEF Page

\* The slots of the first n pages of every layer.
LEMMA SlotIn ==
  ASSUME NEW b \in Nat, NEW n \in 1..LayerPages, NEW li \in Layers, NEW i \in Nat, i < n * Block
  PROVE  /\ SlotOf(b, li, i) \in Nat
         /\ Page(SlotOf(b, li, i)) \in RunsOf(b, n)
         /\ Page(SlotOf(b, li, i)) \in SegPages(Seg(b, WindowPages))
<1>1. LayerPages \in Nat /\ NLayer \in Nat \ {0} /\ Block \in Nat \ {0} BY WindowFacts, ConfigAssumption
<1>2. li \in Nat /\ n \in Nat /\ n > 0 BY <1>1 DEF Layers
<1>3. PICK k \in Nat \ {0} : k = Block BY <1>1
<1>4. PICK q \in Nat, r \in 0..(k - 1) : i = q * k + r /\ q = i \div k BY DivMod
<1>5. q < n
  <2>1. CASE n < q
    <3>1. n * k + k <= q * k /\ n * k \in Nat /\ q * k \in Nat BY <1>2, <2>1, TimesStep
    <3> QED BY <1>3, <1>4, <3>1
  <2>2. CASE n = q BY <1>3, <1>4, <2>2
  <2> QED BY <1>2, <2>1, <2>2
<1>6. PICK u \in Nat : u = b + li * LayerPages BY <1>1, <1>2
<1>7. SlotOf(b, li, i) \in Nat /\ Page(SlotOf(b, li, i)) = u + q
  <2>1. SlotOf(b, li, i) \in Nat /\ Page(SlotOf(b, li, i)) = b + li * LayerPages + (i \div Block) BY SlotPage
  <2>2. i \div Block = q BY <1>3, <1>4
  <2> QED BY <1>6, <2>1, <2>2
<1>8. Seg(u, n) \in Run /\ Seg(u, n).base = u /\ SegEnd(Seg(u, n)) = u + n BY <1>2, SegIsRun
<1>9. u + q \in SegPages(Seg(u, n)) BY <1>2, <1>5, <1>8, RunFacts
<1>10. u + q \in RunsOf(b, n) BY <1>6, <1>9 DEF RunsOf, LayerRun
<1>11. RunsOf(b, n) \subseteq SegPages(Seg(b, WindowPages)) BY LayerFacts
<1> QED BY <1>7, <1>10, <1>11

\* A slot of a window is one position of one layer.
LEMMA SlotsApart ==
  ASSUME NEW b \in Nat, NEW li \in Layers, NEW lj \in Layers, NEW i \in Nat, NEW j \in Nat,
         i < LayerPages * Block, j < LayerPages * Block, SlotOf(b, li, i) = SlotOf(b, lj, j)
  PROVE  li = lj /\ i = j
<1>1. LayerPages \in Nat /\ NLayer \in Nat \ {0} /\ Block \in Nat \ {0} BY WindowFacts, ConfigAssumption
<1>2. li \in Nat /\ lj \in Nat BY <1>1 DEF Layers
<1>3. PICK l \in Nat, k \in Nat \ {0} : l = LayerPages /\ k = Block BY <1>1
<1>4. PICK w \in Nat : w = l * k OBVIOUS
<1>5. \A m \in Nat, p \in Nat : (b + m * l) * k + p = b * k + m * w + p
  <2> TAKE m \in Nat, p \in Nat
  <2>1. PICK u \in Nat : u = m * l OBVIOUS
  <2>2. (b + u) * k = b * k + u * k OBVIOUS
  <2>3. u * k = m * w BY <1>4, <2>1
  <2>4. b * k \in Nat /\ u * k \in Nat OBVIOUS
  <2> QED BY <2>1, <2>2, <2>3, <2>4
<1>6. SlotOf(b, li, i) = b * k + li * w + i /\ SlotOf(b, lj, j) = b * k + lj * w + j
  BY <1>2, <1>3, <1>5 DEF SlotOf
<1>7. PICK c \in Nat : c = b * k OBVIOUS
<1>8. i < w /\ j < w BY <1>3, <1>4
<1>9. PICK u \in Nat, v \in Nat : u = li * w /\ v = lj * w BY <1>2
<1>10. c + u + i = c + v + j BY <1>6, <1>7, <1>9
<1>11. ~(li < lj)
  <2>1. SUFFICES ASSUME li < lj PROVE FALSE OBVIOUS
  <2>2. u + w <= v BY <1>2, <1>9, <2>1, TimesStep
  <2> QED BY <1>8, <1>10, <2>2
<1>12. ~(lj < li)
  <2>1. SUFFICES ASSUME lj < li PROVE FALSE OBVIOUS
  <2>2. v + w <= u BY <1>2, <1>9, <2>1, TimesStep
  <2> QED BY <1>8, <1>10, <2>2
<1>13. li = lj BY <1>2, <1>11, <1>12
<1> QED BY <1>9, <1>10, <1>13

LEMMA SlotThere ==
  ASSUME NEW s \in Nat, Page(s) \in PoolPages
  PROVE  s \in 0..KvPages * Block - 1
<1>1. KvPages \in Nat \ {0} /\ Block \in Nat \ {0} BY WindowFacts, ConfigAssumption
<1>2. PICK k \in Nat \ {0}, p \in Nat \ {0} : k = Block /\ p = KvPages BY <1>1
<1>3. PICK q \in Nat, r \in 0..(k - 1) : s = q * k + r /\ q = s \div k BY DivMod
<1>4. q < p BY <1>2, <1>3 DEF Page, PoolPages
<1>5. q * k + k <= p * k /\ q * k \in Nat /\ p * k \in Nat BY <1>4, TimesStep
<1>6. s < p * k BY <1>3, <1>5
<1> QED BY <1>2, <1>5, <1>6

\* The pages a number of tokens takes.
LEMMA PagesFacts ==
  ASSUME NEW n \in Nat, n <= MaxLen
  PROVE  PagesFor(n) \in 0..LayerPages /\ n <= PagesFor(n) * Block /\ PagesFor(n) * Block <= LayerPages * Block
         /\ PagesFor(n) * Block \in Nat
<1>1. MaxLen \in Nat \ {0} /\ Block \in Nat \ {0} BY ConfigAssumption
<1>2. PICK k \in Nat \ {0}, m \in Nat : k = Block /\ m = MaxLen BY <1>1
<1>3. PICK a \in Nat, b \in Nat : a = n + k - 1 /\ b = m + k - 1 BY <1>2
<1>4. PICK p \in Nat, r \in 0..(k - 1) : a = p * k + r /\ p = a \div k BY DivMod
<1>5. PICK q \in Nat, s \in 0..(k - 1) : b = q * k + s /\ q = b \div k BY DivMod
<1>6. PagesFor(n) = p /\ LayerPages = q BY <1>2, <1>3, <1>4, <1>5 DEF PagesFor, LayerPages
<1>7. p * k \in Nat /\ q * k \in Nat OBVIOUS
<1>8. n <= p * k BY <1>2, <1>3, <1>4, <1>7
<1>9. p <= q
  <2>1. CASE q < p
    <3>1. q * k + k <= p * k BY <2>1, TimesStep
    <3> QED BY <1>2, <1>3, <1>4, <1>5, <1>7, <3>1
  <2> QED BY <2>1
<1>10. p * k <= q * k
  <2>1. CASE p < q
    <3>1. p * k + k <= q * k BY <2>1, TimesStep
    <3> QED BY <1>7, <3>1
  <2> QED BY <1>9, <2>1
<1> QED BY <1>2, <1>6, <1>7, <1>8, <1>9, <1>10

-----------------------------------------------------------------------------
(* What is in them *)

\* The engine pool, a window or a cached run holds the KV of a sequence.
HeldBy(engine, seq) == \A i \in 1..Len(seq) : engine[i - 1] = SubSeq(seq, 1, i)

Filled(store, base, seq) ==
  \A li \in Layers, i \in 1..Len(seq) : store[SlotOf(base, li, i - 1)] = SubSeq(seq, 1, i)

\* Nothing but pages of P is written.
Spares(st, tt, P) == DOMAIN tt = DOMAIN st /\ \A s \in DOMAIN st : Page(s) \notin P => tt[s] = st[s]

LEMMA MemoryWide == LayerPages * Block \in Nat
BY WindowFacts, ConfigAssumption

\* A write elsewhere leaves a run or a window as it is.
LEMMA FilledOn ==
  ASSUME NEW st, DOMAIN st = 0..KvPages * Block - 1, NEW tt, NEW P, Spares(st, tt, P),
         NEW b \in Nat, NEW n \in 1..LayerPages, RunsOf(b, n) \subseteq PoolPages, RunsOf(b, n) \intersect P = {},
         NEW seq, Len(seq) \in Nat, Len(seq) <= n * Block, Filled(st, b, seq)
  PROVE  Filled(tt, b, seq)
<1>1. ASSUME NEW li \in Layers, NEW i \in 1..Len(seq) PROVE tt[SlotOf(b, li, i - 1)] = SubSeq(seq, 1, i)
  <2>1. n * Block \in Nat BY WindowFacts, ConfigAssumption
  <2>2. PICK j \in Nat : j = i - 1 /\ j < n * Block BY <2>1
  <2>3. PICK s : s = SlotOf(b, li, j) OBVIOUS
  <2>4. s \in Nat /\ Page(s) \in RunsOf(b, n) BY <2>2, <2>3, SlotIn
  <2>5. s \in DOMAIN st BY <2>4, SlotThere
  <2>6. tt[s] = st[s] BY <2>4, <2>5 DEF Spares
  <2> QED BY <2>2, <2>3, <2>6 DEF Filled
<1> QED BY <1>1 DEF Filled

RunOf(e, k) == RunsOf(e[k], PagesOf(k))

\* Who has pages has them alone.
Tables(held, e) ==
  /\ \A d \in DOMAIN held : /\ Window(held[d]) /\ SegPages(held[d]) \subseteq PoolPages
                            /\ SegPages(held[d]) \intersect SegPages(Anchor) = {}
  /\ \A c, d \in DOMAIN held : c # d => SegPages(held[c]) \intersect SegPages(held[d]) = {}
  /\ \A k \in DOMAIN e : /\ k \in Seq(Nat) /\ Len(k) = PagesOf(k) * Block
                         /\ e[k] \in Nat /\ PagesOf(k) \in 1..LayerPages
                         /\ RunOf(e, k) \subseteq PoolPages /\ RunOf(e, k) \intersect SegPages(Anchor) = {}
  /\ \A d \in DOMAIN held, k \in DOMAIN e : SegPages(held[d]) \intersect RunOf(e, k) = {}

\* Nobody's pages.
Unowned(held, e, seg) ==
  /\ \A d \in DOMAIN held : SegPages(seg) \intersect SegPages(held[d]) = {}
  /\ \A k \in DOMAIN e : SegPages(seg) \intersect RunOf(e, k) = {}

\* kv[c] is the sequence of the tokens whose KV the request has: in the engine
\* pool for the singleton, in its window for the others.  An entry has the KV
\* of its key.
Has(x, held, c, seq) ==
  IF x.single.id = c
  THEN x.single.seg = held[c] /\ Len(seq) <= x.single.kvLen /\ HeldBy(x.engine, seq)
  ELSE Filled(x.store, held[c].base, seq)

LEMMA SegOn ==
  ASSUME NEW st, DOMAIN st = 0..KvPages * Block - 1, NEW tt, NEW P, Spares(st, tt, P),
         NEW seg, Window(seg), SegPages(seg) \subseteq PoolPages, SegPages(seg) \intersect P = {},
         NEW seq, Len(seq) \in Nat, Len(seq) <= MaxLen, Filled(st, seg.base, seq)
  PROVE  Filled(tt, seg.base, seq)
<1>1. seg.base \in Nat /\ seg = Seg(seg.base, WindowPages) BY WindowIs
<1>2. PICK b \in Nat : b = seg.base BY <1>1
<1>3. LayerPages \in 1..LayerPages BY WindowFacts
<1>4. RunsOf(b, LayerPages) \subseteq SegPages(seg) BY <1>1, <1>2, <1>3, LayerFacts
<1>5. RunsOf(b, LayerPages) \subseteq PoolPages /\ RunsOf(b, LayerPages) \intersect P = {} BY <1>4
<1>6. Len(seq) <= LayerPages * Block
  <2>1. PICK n \in Nat : n = Len(seq) OBVIOUS
  <2>2. n <= PagesFor(n) * Block /\ PagesFor(n) * Block <= LayerPages * Block /\ PagesFor(n) * Block \in Nat
    BY <2>1, PagesFacts
  <2>3. LayerPages * Block \in Nat BY WindowFacts, ConfigAssumption
  <2> QED BY <2>1, <2>2, <2>3
<1>7. Filled(st, b, seq) BY <1>2
<1>8. Filled(tt, b, seq) BY <1>3, <1>5, <1>6, <1>7, FilledOn
<1> QED BY <1>2, <1>8

LEMMA RunOn ==
  ASSUME NEW held, NEW e, Tables(held, e), NEW st, DOMAIN st = 0..KvPages * Block - 1, NEW tt, NEW P, Spares(st, tt, P),
         NEW k \in DOMAIN e, RunOf(e, k) \intersect P = {}, Filled(st, e[k], k)
  PROVE  Filled(tt, e[k], k)
<1>1. /\ k \in Seq(Nat) /\ Len(k) = PagesOf(k) * Block /\ e[k] \in Nat /\ PagesOf(k) \in 1..LayerPages
      /\ RunsOf(e[k], PagesOf(k)) \subseteq PoolPages
  BY DEF Tables, RunOf
<1>2. PICK b \in Nat, n \in 1..LayerPages : b = e[k] /\ n = PagesOf(k) BY <1>1
<1>3. RunsOf(b, n) \subseteq PoolPages /\ RunsOf(b, n) \intersect P = {} BY <1>1, <1>2 DEF RunOf
<1>4. Len(k) \in Nat /\ Len(k) = n * Block BY <1>1, <1>2
<1>5. Len(k) <= n * Block BY <1>4
<1>6. Filled(st, b, k) BY <1>2
<1>7. Filled(tt, b, k) BY <1>3, <1>4, <1>5, <1>6, FilledOn
<1> QED BY <1>2, <1>7

-----------------------------------------------------------------------------
(* One more token *)

LEMMA KvAfterIs ==
  ASSUME NEW T, NEW seq \in Seq(T), NEW token \in T, NEW kv, HeldBy(kv, seq)
  PROVE  KvAfter(kv, Len(seq), token) = Append(seq, token)
<1>1. PICK n \in Nat : n = Len(seq) OBVIOUS
<1>2. CASE n = 0
  <2>1. KvAfter(kv, n, token) = <<token>> BY <1>2 DEF KvAfter
  <2>2. seq = <<>>
    <3>0. <<>> \in Seq(T) OBVIOUS
    <3>1. PICK none \in Seq(T) : none = <<>> BY <3>0, Zenon
    <3>2. Len(none) = 0 /\ Len(seq) = 0 BY <1>1, <1>2, <3>1
    <3>3. Len(none) = Len(seq) /\ \A i \in 1..Len(none) : none[i] = seq[i] BY <3>2
    <3>4. none = seq BY ONLY <3>3, SameSeq
    <3> QED BY <3>1, <3>4
  <2> QED BY <1>1, <2>1, <2>2
<1>3. CASE n > 0
  <2>1. \A i \in 1..n : kv[i - 1] = SubSeq(seq, 1, i) BY <1>1 DEF HeldBy
  <2>2. SubSeq(seq, 1, n) = seq
    <3>1. SubSeq(seq, 1, n) \in Seq(T) /\ Len(SubSeq(seq, 1, n)) = n /\ \A i \in 1..n : SubSeq(seq, 1, n)[i] = seq[i]
      BY <1>1, CutFacts
    <3> QED BY <1>1, <3>1, SameSeq
  <2>3. kv[n - 1] = seq BY <1>3, <2>1, <2>2
  <2>4. \A i \in 0..n - 1 : kv[i] = SubSeq(seq, 1, i + 1)
    <3> TAKE i \in 0..n - 1
    <3>1. i + 1 \in 1..n /\ (i + 1) - 1 = i OBVIOUS
    <3> QED BY <2>1, <3>1
  <2> QED BY <1>1, <1>3, <2>3, <2>4 DEF KvAfter
<1> QED BY <1>2, <1>3

LEMMA OneMore ==
  ASSUME NEW T, NEW seq \in Seq(T), NEW token \in T, NEW en, Len(seq) \in DOMAIN en, HeldBy(en, seq),
         NEW fn, fn = [en EXCEPT ![Len(seq)] = KvAfter(en, Len(seq), token)]
  PROVE  HeldBy(fn, Append(seq, token))
<1>1. PICK n \in Nat : n = Len(seq) OBVIOUS
<1>2. PICK more : more = Append(seq, token) OBVIOUS
<1>3. /\ Len(more) = n + 1 /\ SubSeq(more, 1, n + 1) = more
      /\ \A i \in 1..n : SubSeq(more, 1, i) = SubSeq(seq, 1, i)
  BY <1>1, <1>2, MoreCuts
<1>4. KvAfter(en, n, token) = more BY <1>1, <1>2, KvAfterIs
<1>5. n \in DOMAIN en /\ fn = [en EXCEPT ![n] = more] BY <1>1, <1>4
<1>6. fn[n] = more /\ \A i \in 1..n : fn[i - 1] = en[i - 1]
  <2>1. DOMAIN fn = DOMAIN en /\ fn[n] = more BY <1>5
  <2>2. \A i : i # n => fn[i] = en[i]
    <3> TAKE i
    <3>1. CASE i \in DOMAIN en BY <1>5, <3>1
    <3>2. CASE i \notin DOMAIN en BY <1>5, <3>2
    <3> QED BY <3>1, <3>2
  <2> QED BY <2>1, <2>2
<1>7. \A i \in 1..n : en[i - 1] = SubSeq(seq, 1, i) BY <1>1 DEF HeldBy
<1>8. ASSUME NEW i \in 1..n + 1 PROVE fn[i - 1] = SubSeq(more, 1, i)
  <2>1. CASE i = n + 1
    <3>1. i - 1 = n BY <2>1
    <3> QED BY <1>3, <1>6, <2>1, <3>1
  <2>2. CASE i \in 1..n BY <1>3, <1>6, <1>7, <2>2
  <2> QED BY <2>1, <2>2
<1> QED BY <1>2, <1>3, <1>8 DEF HeldBy

\* The steps of a prefill after the first k positions.
StepAt(a, k, suffix, j) == [a EXCEPT ![k + j - 1] = KvAfter(a, k + j - 1, suffix[j])]

Stepped(k, suffix, base, seq) == FoldLeft(LAMBDA a, j : StepAt(a, k, suffix, j), base, seq)

StepsTo(pre, k, suffix, base, seq, A) ==
  /\ Along(pre, Len(seq), A, base) /\ Stepped(k, suffix, base, seq) = pre[Len(seq)]
  /\ \A j \in 1..Len(seq) : pre[j] = StepAt(pre[j - 1], k, suffix, seq[j])

LEMMA StepsFold ==
  ASSUME NEW A, NEW from, NEW suffix, NEW base \in A, NEW S, NEW seq \in Seq(S),
         \A a \in A, i \in 1..Len(seq) : StepAt(a, from, suffix, seq[i]) \in A
  PROVE  \E pre : StepsTo(pre, from, suffix, base, seq, A)
<1> DEFINE n == Len(seq)
           step == [i \in 1..n |-> [a \in A |-> StepAt(a, from, suffix, seq[i])]]
           Fix(f) == f = [T \in SUBSET (1..n) |->
                            IF T = {} THEN base
                            ELSE StepAt(f[T \ {Max(T)}], from, suffix, seq[Max(T)])]
           iter == CHOOSE f : Fix(f)
<1>1. n \in Nat /\ DOMAIN seq = 1..n OBVIOUS
<1>2. step \in [1..n -> [A -> A]] /\ \A i \in 1..n, a \in A : step[i][a] = StepAt(a, from, suffix, seq[i])
  OBVIOUS
<1>3. Stepped(from, suffix, base, seq) = iter[1..n]
  BY <1>1, Zenon DEF FoldLeft, MapThenFoldSet, Stepped
<1> HIDE DEF n, step
<1>4. PICK f : Solves(f, n, A, base, step) BY <1>1, <1>2, FoldExists
<1>5. /\ f \in [SUBSET (1..n) -> A]
      /\ \A T \in SUBSET (1..n) : f[T] = IF T = {} THEN base ELSE step[Max(T)][f[T \ {Max(T)}]]
  BY <1>4 DEF Solves
<1>6. \A T \in SUBSET (1..n) : T # {} => Max(T) \in 1..n /\ T \ {Max(T)} \in SUBSET (1..n)
  BY <1>1, MaxIsIn
<1>7. Fix(iter)
  <2>1. ASSUME NEW T \in SUBSET (1..n)
        PROVE  f[T] = IF T = {} THEN base ELSE StepAt(f[T \ {Max(T)}], from, suffix, seq[Max(T)])
    <3>1. T # {} => f[T \ {Max(T)}] \in A BY <1>5, <1>6
    <3> QED BY <1>2, <1>5, <1>6, <3>1
  <2>2. Fix(f) BY <1>5, <2>1
  <2> QED BY <2>2
<1> HIDE DEF iter
<1>8. \A T \in SUBSET (1..n) :
        iter[T] = IF T = {} THEN base ELSE StepAt(iter[T \ {Max(T)}], from, suffix, seq[Max(T)])
  BY <1>7
<1> HIDE DEF Fix
<1>9. iter[{}] = base BY <1>8
<1>10. Unwinds(iter, n, A, base, step)
  <2>1. ASSUME NEW T \in SUBSET (1..n), T # {}, iter[T \ {Max(T)}] \in A
        PROVE  iter[T] = step[Max(T)][iter[T \ {Max(T)}]]
    BY <1>2, <1>6, <1>8, <2>1
  <2> QED BY <1>9, <2>1 DEF Unwinds
<1>11. PICK pre : Follows(pre, n, A, base, step) /\ iter[1..n] = pre[n]
  <2>1. n \in Nat BY <1>1
  <2>2. step \in [1..n -> [A -> A]] BY <1>2
  <2>3. base \in A OBVIOUS
  <2>4. \E pre : Follows(pre, n, A, base, step) /\ iter[1..n] = pre[n] BY <1>10, <2>1, <2>2, <2>3, PrefixesOf
  <2> QED BY <2>4
<1>12. /\ Along(pre, n, A, base) /\ iter[1..n] = pre[n]
       /\ \A j \in 1..n : pre[j] = step[j][pre[j - 1]]
  BY <1>11 DEF Follows
<1>13. \A j \in 1..n : pre[j] = StepAt(pre[j - 1], from, suffix, seq[j])
  <2> TAKE j \in 1..n
  <2>1. pre[j - 1] \in A BY <1>1, <1>12, PrefixFacts DEF Along
  <2> QED BY <1>2, <1>12, <2>1
<1> QED BY <1>3, <1>12, <1>13 DEF n, StepsTo

LEMMA RunsPart ==
  ASSUME NEW b \in Nat, NEW n \in 1..LayerPages, NEW m \in 1..LayerPages, n <= m
  PROVE  RunsOf(b, n) \subseteq RunsOf(b, m)
<1>1. LayerPages \in Nat BY WindowFacts
<1>2. n \in Nat /\ m \in Nat /\ n > 0 /\ m > 0 BY <1>1
<1>3. ASSUME NEW li \in Layers PROVE SegPages(LayerRun(b, n, li)) \subseteq SegPages(LayerRun(b, m, li))
  <2>1. li \in Nat BY WindowFacts DEF Layers
  <2>2. PICK u \in Nat : u = b + li * LayerPages BY <1>1, <2>1
  <2>3. Seg(u, n) \in Run /\ Seg(u, n).base = u /\ SegEnd(Seg(u, n)) = u + n BY <1>2, SegIsRun
  <2>4. Seg(u, m) \in Run /\ Seg(u, m).base = u /\ SegEnd(Seg(u, m)) = u + m BY <1>2, SegIsRun
  <2>5. SegPages(Seg(u, n)) \subseteq SegPages(Seg(u, m))
    <3>1. ASSUME NEW p \in SegPages(Seg(u, n)) PROVE p \in SegPages(Seg(u, m))
      <4>1. p \in Nat /\ u <= p /\ p < u + n BY <2>3, RunFacts
      <4>2. p < u + m BY <1>2, <4>1
      <4> QED BY <2>4, <4>1, <4>2, RunFacts
    <3> QED BY <3>1
  <2> QED BY <2>2, <2>5 DEF LayerRun
<1> QED BY <1>3 DEF RunsOf

LEMMA HitIs ==
  ASSUME NEW x, NEW b, NEW k, NEW suffix
  PROVE  PrefillPrefixHit(x, b, k, suffix) =
           [CopyPoolToEngine(FlushSingleton(x), b, k \div Block) EXCEPT
              !.engine = Stepped(k, suffix, @, [j \in 1..Len(suffix) |-> j])]
BY Zenon DEF PrefillPrefixHit, Stepped, StepAt

-----------------------------------------------------------------------------
(* A batch of several *)

\* What r writes in a layer.
LayerKv(st, r, li) == [i \in 0..r.pos |-> st[SlotOf(r.seg.base, li, i)]]

Write(st, r, li) == <<SlotOf(r.seg.base, li, r.pos), KvAfter(LayerKv(st, r, li), r.pos, r.token)>>

Writes(st, W) == {Write(st, r, li) : r \in W, li \in Layers}

Apply(st, writes) ==
  [s \in DOMAIN st |-> IF \E w \in writes : w[1] = s THEN (CHOOSE w \in writes : w[1] = s)[2] ELSE st[s]]

LEMMA WideEnough == MaxLen \in Nat /\ MaxLen <= LayerPages * Block /\ LayerPages * Block \in Nat
<1>1. MaxLen \in Nat BY ConfigAssumption
<1>2. MaxLen <= PagesFor(MaxLen) * Block /\ PagesFor(MaxLen) * Block <= LayerPages * Block /\ PagesFor(MaxLen) * Block \in Nat
  BY <1>1, PagesFacts
<1> QED BY <1>1, <1>2, MemoryWide

LEMMA WindowSlot ==
  ASSUME NEW seg, Window(seg), SegPages(seg) \subseteq PoolPages, NEW li \in Layers, NEW i \in Nat, i < LayerPages * Block
  PROVE  /\ seg.base \in Nat /\ SlotOf(seg.base, li, i) \in 0..KvPages * Block - 1
         /\ Page(SlotOf(seg.base, li, i)) \in SegPages(seg)
<1>1. seg.base \in Nat /\ seg = Seg(seg.base, WindowPages) BY WindowIs
<1>2. PICK b \in Nat : b = seg.base BY <1>1
<1>3. LayerPages \in 1..LayerPages BY WindowFacts
<1>4. SlotOf(b, li, i) \in Nat /\ Page(SlotOf(b, li, i)) \in SegPages(Seg(b, WindowPages)) BY <1>3, SlotIn
<1>5. Page(SlotOf(b, li, i)) \in PoolPages BY <1>1, <1>2, <1>4
<1>6. SlotOf(b, li, i) \in 0..KvPages * Block - 1 BY <1>4, <1>5, SlotThere
<1> QED BY <1>1, <1>2, <1>4, <1>6

LEMMA AnchorWindow == Window(Anchor) /\ SegPages(Anchor) \subseteq PoolPages
<1>1. PICK new : new = NewPool(KvPages) OBVIOUS
<1>2. PICK q : q = AllocFromEnd(new, WindowPages) OBVIOUS
<1>3. Anchor \in Run /\ SegPages(Anchor) \subseteq PoolPages /\ Anchor.len = WindowPages BY <1>1, <1>2, AnchorIs DEF Grants
<1>4. Anchor = Seg(Anchor.base, WindowPages) /\ Anchor.base \in Nat BY <1>3 DEF Run, Seg
<1> QED BY <1>3, <1>4 DEF Window

Phantom == [token |-> PhantomToken, pos |-> 0, kvLen |-> 1, seg |-> Anchor]

Batch(rs) == {rs[id] : id \in DOMAIN rs} \union {Phantom}

LEMMA TogetherIs ==
  ASSUME NEW x, NEW rs, NEW z, z = FlushSingleton(x)
  PROVE  DecodeTogether(x, rs) = [z EXCEPT !.store = Apply(@, Writes(z.store, Batch(rs)))]
<1>1. ASSUME NEW st PROVE BatchWrites(st, rs) = Writes(st, Batch(rs))
  <2>1. ASSUME NEW w PROVE w \in BatchWrites(st, rs) <=> w \in Writes(st, Batch(rs))
    BY SMT DEF BatchWrites, Writes, Write, LayerKv, Batch, Phantom
  <2>2. \A w : w \in BatchWrites(st, rs) => w \in Writes(st, Batch(rs)) BY <2>1
  <2>3. \A w : w \in Writes(st, Batch(rs)) => w \in BatchWrites(st, rs) BY <2>1
  <2> QED BY <2>2, <2>3, Zenon
<1>2. BatchWrites(z.store, rs) = Writes(z.store, Batch(rs)) BY <1>1
<1>3. DecodeTogether(x, rs) = [z EXCEPT !.store = Apply(@, BatchWrites(z.store, rs))] BY Zenon DEF DecodeTogether, Apply
<1> QED BY <1>2, <1>3

LEMMA PoolOnly ==
  ASSUME NEW x, IsExec(x), NEW q, NEW y, y = [x EXCEPT !.pool = q]
  PROVE  IsExec(y) /\ y.store = x.store /\ y.engine = x.engine /\ y.single = x.single
<1>1. y = [pool |-> q, store |-> x.store, engine |-> x.engine, single |-> x.single] BY DEF IsExec
<1> QED BY <1>1 DEF IsExec

LEMMA SingleOnly ==
  ASSUME NEW x, IsExec(x), NEW s, NEW y, y = [x EXCEPT !.single = s]
  PROVE  IsExec(y) /\ y.store = x.store /\ y.engine = x.engine /\ y.single = s
<1>1. y = [pool |-> x.pool, store |-> x.store, engine |-> x.engine, single |-> s] BY DEF IsExec
<1> QED BY <1>1 DEF IsExec

\* An eviction touches the pool only.
LEMMA EvictMemory ==
  ASSUME NEW x, NEW held, NEW e, Holding(x, held, e), NEW seq \in Seq(DOMAIN e), NEW y, y = Unreferencing(e, x, seq)
  PROVE  IsExec(y) /\ y.store = x.store /\ y.engine = x.engine /\ y.single = x.single
<1>1. Len(seq) \in Nat /\ \A k \in 1..Len(seq) : seq[k] \in DOMAIN e OBVIOUS
<1>2. \A k \in DOMAIN e : e[k] \in Nat /\ PagesOf(k) \in 1..LayerPages BY DEF Holding
<1>3. x \in ExecsOf(x)
  <2>1. x.pool \in Pools(PoolPages) BY PooledIs DEF Holding
  <2> QED BY <2>1 DEF Holding, IsExec, ExecsOf
<1>4. \A a \in ExecsOf(x), i \in 1..Len(seq) : UnrefPrefix(a, e[seq[i]], PagesOf(seq[i])) \in ExecsOf(x)
  BY <1>1, <1>2, EvictType
<1>5. PICK pre : UnreferencesTo(pre, e, x, seq, ExecsOf(x)) BY <1>3, <1>4, EvictFold
<1>6. PICK n \in Nat : n = Len(seq) BY <1>1
<1>7. pre \in [0..n -> ExecsOf(x)] /\ y = pre[n] BY <1>5, <1>6 DEF UnreferencesTo, Along
<1>8. y \in ExecsOf(x)
  <2>1. n \in 0..n OBVIOUS
  <2> QED BY <1>7, <2>1
<1> QED BY <1>8 DEF ExecsOf, IsExec

\* What is owned by someone is nobody else's.
LEMMA TablesHold ==
  ASSUME NEW x, NEW held, NEW e, Holding(x, held, e), \A k \in DOMAIN e : k \in Seq(Nat) /\ Len(k) = PagesOf(k) * Block
  PROVE  Tables(held, e)
<1>1. PICK h : h = PagesOwned(held, e) OBVIOUS
<1>2. Owned(x.pool.refs, h) BY <1>1 DEF Holding
<1>3. /\ <<0, 0>> \in DOMAIN h /\ h[<<0, 0>>] = SegPages(Anchor)
      /\ \A d \in DOMAIN held : <<1, d>> \in DOMAIN h /\ h[<<1, d>>] = SegPages(held[d])
      /\ \A k \in DOMAIN e : <<2, k>> \in DOMAIN h /\ h[<<2, k>>] = RunOf(e, k)
  BY <1>1, OwnerFacts DEF RunOf
<1>4. \A o \in DOMAIN h : h[o] \subseteq PoolPages BY <1>2 DEF Owned
<1>5. \A o, q \in DOMAIN h : o # q => h[o] \intersect h[q] = {} BY <1>2 DEF Owned
<1>6. \A c, d : <<0, 0>> # <<1, d>> /\ <<0, 0>> # <<2, d>> /\ <<1, c>> # <<2, d>> /\ (c # d => <<1, c>> # <<1, d>>)
  OBVIOUS
<1>7. ASSUME NEW d \in DOMAIN held
      PROVE  Window(held[d]) /\ SegPages(held[d]) \subseteq PoolPages /\ SegPages(held[d]) \intersect SegPages(Anchor) = {}
  <2>1. Window(held[d]) BY DEF Holding
  <2>2. SegPages(held[d]) \subseteq PoolPages BY <1>3, <1>4
  <2>3. h[<<1, d>>] \intersect h[<<0, 0>>] = {} BY <1>3, <1>5, <1>6
  <2> QED BY <1>3, <2>1, <2>2, <2>3
<1>8. ASSUME NEW c \in DOMAIN held, NEW d \in DOMAIN held, c # d PROVE SegPages(held[c]) \intersect SegPages(held[d]) = {}
  <2>1. <<1, c>> # <<1, d>> BY <1>6, <1>8
  <2>2. h[<<1, c>>] \intersect h[<<1, d>>] = {} BY <1>3, <1>5, <2>1
  <2> QED BY <1>3, <2>2
<1>9. ASSUME NEW k \in DOMAIN e
      PROVE  /\ k \in Seq(Nat) /\ Len(k) = PagesOf(k) * Block
             /\ e[k] \in Nat /\ PagesOf(k) \in 1..LayerPages
             /\ RunOf(e, k) \subseteq PoolPages /\ RunOf(e, k) \intersect SegPages(Anchor) = {}
  <2>1. e[k] \in Nat /\ PagesOf(k) \in 1..LayerPages BY DEF Holding
  <2>2. RunOf(e, k) \subseteq PoolPages BY <1>3, <1>4
  <2>3. h[<<2, k>>] \intersect h[<<0, 0>>] = {} BY <1>3, <1>5, <1>6
  <2> QED BY <1>3, <2>1, <2>2, <2>3
<1>10. ASSUME NEW d \in DOMAIN held, NEW k \in DOMAIN e PROVE SegPages(held[d]) \intersect RunOf(e, k) = {}
  <2>1. h[<<1, d>>] \intersect h[<<2, k>>] = {} BY <1>3, <1>5, <1>6
  <2> QED BY <1>3, <2>1
<1> QED BY <1>7, <1>8, <1>9, <1>10 DEF Tables
=============================================================================
