-------------------------- MODULE SchedLoop_proofs --------------------------
(***************************************************************************)
(* Proofs about SchedLoop, for every value of the constants: the books     *)
(* agree (TablesAgree), the ledger balances (NoTokenLost), the clients are *)
(* told (ClientsAreTold), the loop never panics (NeverPanics), the pages   *)
(* of the pool are accounted for (PagesAreAccounted,                       *)
(* ScarcityIsConsistent), and what a request or the cache has in them is   *)
(* its own (KvIsFaithful, CacheIsFaithful, AmplePoolsKeepKv).              *)
(*                                                                         *)
(* One invariant, Inv, gives the first three. First come the facts it      *)
(* needs about the operators of the model: sums over sets of requests,     *)
(* folds over the queue, what an operation does to a record, what a        *)
(* selection returns. Then Inv, the ways a request leaves the tables,      *)
(* which are one argument (LeavingKeeps), and the actions, one lemma each. *)
(*                                                                         *)
(* The pages need a second invariant over Inv, PagesOK: the pool holds the *)
(* anchor, a window for every segment and the runs of every cached key,    *)
(* apart from each other, and nothing else (Holding), and the cache is     *)
(* sound (CacheOK). What an operation of the executor does to Holding is a *)
(* lemma of CacheOps_proofs (HoldAlloc, HoldFree, HoldEvict, HoldRefill);  *)
(* each action is then a few of them.                                      *)
(*                                                                         *)
(* The third invariant, KvOK, is about what the pages hold. Kvs is the     *)
(* sequence of tokens of each request whose KV it has, KvOf that its KV is *)
(* where it should be and the runs of the cache hold their keys. KvOf is   *)
(* kept by every operation of the executor (FlushKv, PrefillKv, HitKv,     *)
(* CommitKv, AdoptKv, DecodeAloneKv, DecodeTogetherKv, RefillKv) because   *)
(* those who have pages have them alone (Tables, from PagesOK); with what  *)
(* a request has in its record (Grounded) it makes KvOK. It holds while no *)
(* chunk continues a prompt (WholePrefills).                               *)
(*                                                                         *)
(* Last, Whole: in a pool that holds all requests at their longest (Ample) *)
(* the budget of a step never cuts a prompt, so that WholePrefills holds   *)
(* in every behaviour of the loop.                                         *)
(***************************************************************************)
EXTENDS SchedLoop, CacheOps_proofs

-----------------------------------------------------------------------------
(* Sums of device tokens *)

\* What a sum over S is defined by, and what it amounts to.
Summing(f, rs, S) ==
  /\ f \in [SUBSET S -> Nat]
  /\ \A s \in SUBSET S :
       f[s] = IF s = {} THEN 0
              ELSE rs[CHOOSE x \in s : TRUE].device + f[s \ {CHOOSE x \in s : TRUE}]

LEMMA SumExists ==
  ASSUME NEW S, IsFiniteSet(S), NEW rs, \A c \in S : rs[c].device \in Nat
  PROVE  \E f : Summing(f, rs, S)
<1> DEFINE n == Cardinality(S)
           pick(s) == CHOOSE x \in s : TRUE
           next(f, s) == IF s = {} THEN 0 ELSE rs[pick(s)].device + f[s \ {pick(s)}]
           Upto(k, f) == /\ f \in [SUBSET S -> Nat]
                         /\ \A s \in SUBSET S : Cardinality(s) <= k => f[s] = next(f, s)
           P == {k \in 0..n : \E f : Upto(k, f)}
<1>0. n \in Nat BY FS_CardinalityType
<1>1. \A s \in SUBSET S : /\ IsFiniteSet(s) /\ Cardinality(s) \in 0..n
                          /\ s # {} => pick(s) \in s
  <2> TAKE s \in SUBSET S
  <2>1. IsFiniteSet(s) /\ Cardinality(s) <= n BY FS_Subset
  <2>2. Cardinality(s) \in Nat BY <2>1, FS_CardinalityType
  <2> QED BY <1>0, <2>1, <2>2
<1> HIDE DEF n, pick
<1>2. 0 \in P
  <2> DEFINE f == [s \in SUBSET S |-> 0]
  <2>1. \A s \in SUBSET S : Cardinality(s) <= 0 => s = {}
    <3> TAKE s \in SUBSET S
    <3>1. Cardinality(s) \in 0..n /\ IsFiniteSet(s) BY <1>1
    <3>2. Cardinality(s) <= 0 => Cardinality(s) = 0 BY <1>0, <3>1
    <3> QED BY <3>1, <3>2, FS_EmptySet
  <2>2. Upto(0, f) BY <2>1
  <2>3. \E g : Upto(0, g) BY <2>2
  <2> HIDE DEF Upto
  <2> QED BY <1>0, <2>3
<1>3. ASSUME NEW k \in 1..n, k - 1 \in P PROVE k \in P
  <2>1. PICK f : Upto(k - 1, f) BY <1>3
  <2> DEFINE g == [s \in SUBSET S |-> next(f, s)]
  <2>2. \A s \in SUBSET S : next(f, s) \in Nat
    <3> TAKE s \in SUBSET S
    <3>1. CASE s = {} BY <3>1
    <3>2. CASE s # {}
      <4>1. pick(s) \in S /\ s \ {pick(s)} \in SUBSET S BY <1>1, <3>2
      <4>2. rs[pick(s)].device \in Nat /\ f[s \ {pick(s)}] \in Nat BY <2>1, <4>1
      <4> QED BY <3>2, <4>2
    <3> QED BY <3>1, <3>2
  <2>3. ASSUME NEW s \in SUBSET S, Cardinality(s) <= k PROVE g[s] = next(g, s)
    <3>1. CASE s = {} BY <3>1
    <3>2. CASE s # {}
      <4> DEFINE t == s \ {pick(s)}
      <4>1. t \in SUBSET S /\ Cardinality(t) <= k - 1
        <5>1. Cardinality(t) = Cardinality(s) - 1 /\ Cardinality(s) \in Nat
          BY <1>1, <3>2, FewerLeft
        <5> HIDE DEF t
        <5>2. Cardinality(t) <= k - 1 BY <2>3, <5>1
        <5> QED BY <5>2 DEF t
      <4>2. f[t] = next(f, t) BY <2>1, <4>1
      <4>3. g[t] = f[t] BY <4>1, <4>2
      <4>4. g[s] = next(f, s) OBVIOUS
      <4> QED BY <3>2, <4>3, <4>4
    <3> QED BY <3>1, <3>2
  <2>4. g \in [SUBSET S -> Nat] BY <2>2
  <2> HIDE DEF g, next
  <2>5. Upto(k, g) BY <2>3, <2>4
  <2>6. k \in 0..n BY <1>0
  <2> HIDE DEF Upto
  <2> QED BY <2>5, <2>6
<1>4. n \in P
  <2> HIDE DEF P
  <2>1. \A k \in 0..n : k \in P BY <1>0, <1>2, <1>3, PrefixInduction
  <2> QED BY <1>0, <2>1
<1>5. PICK f : Upto(n, f) BY <1>4
<1>6. \A s \in SUBSET S : Cardinality(s) <= n BY <1>0, <1>1
<1> QED BY <1>5, <1>6 DEF Summing, pick

\* A sum is the sum its definition asks for.
LEMMA SumIs ==
  ASSUME NEW S, IsFiniteSet(S), NEW rs, \A c \in S : rs[c].device \in Nat
  PROVE  \E f : Summing(f, rs, S) /\ DeviceOf(rs, S) = f[S]
<1> DEFINE Fix(f) == f = [s \in SUBSET S |->
                            IF s = {} THEN 0
                            ELSE rs[CHOOSE x \in s : TRUE].device + f[s \ {CHOOSE x \in s : TRUE}]]
           iter == CHOOSE f : Fix(f)
<1>1. DeviceOf(rs, S) = iter[S]
  BY Zenon DEF DeviceOf, SumOver, MapThenSumSet, MapThenFoldSet
<1>2. PICK f : Summing(f, rs, S) BY SumExists
<1>3. Fix(f) BY <1>2 DEF Summing
<1>4. Fix(iter) BY <1>3
<1> HIDE DEF iter
<1>5. iter = f
  <2> DEFINE P == {k \in 0..Cardinality(S) : \A s \in SUBSET S : Cardinality(s) = k => iter[s] = f[s]}
  <2>0. \A s \in SUBSET S : IsFiniteSet(s) /\ Cardinality(s) \in 0..Cardinality(S)
    <3> TAKE s \in SUBSET S
    <3>1. IsFiniteSet(s) /\ Cardinality(s) <= Cardinality(S) BY FS_Subset
    <3>2. Cardinality(s) \in Nat /\ Cardinality(S) \in Nat BY <3>1, FS_CardinalityType
    <3> QED BY <3>1, <3>2
  <2>1. Cardinality(S) \in Nat BY FS_CardinalityType
  <2>2. 0 \in P
    <3>1. ASSUME NEW s \in SUBSET S, Cardinality(s) = 0 PROVE iter[s] = f[s]
      <4>1. s = {} BY <2>0, <3>1, FS_EmptySet
      <4> QED BY <1>3, <1>4, <4>1
    <3> QED BY <2>1, <3>1
  <2>3. ASSUME NEW k \in 1..Cardinality(S), k - 1 \in P PROVE k \in P
    <3>1. ASSUME NEW s \in SUBSET S, Cardinality(s) = k PROVE iter[s] = f[s]
      <4>1. s # {}
        <5>1. Cardinality(s) # 0 BY <3>1
        <5> QED BY <5>1, FS_EmptySet
      <4> DEFINE x == CHOOSE y \in s : TRUE
      <4>2. x \in s BY <4>1
      <4> HIDE DEF x
      <4>3. Cardinality(s \ {x}) = k - 1 /\ s \ {x} \in SUBSET S BY <2>0, <3>1, <4>2, FewerLeft
      <4>4. iter[s \ {x}] = f[s \ {x}] BY <2>3, <4>3
      <4> QED BY <1>3, <1>4, <4>1, <4>4 DEF x
    <3> QED BY <2>1, <3>1
  <2>4. \A k \in 0..Cardinality(S) : k \in P
    <3> HIDE DEF P
    <3> QED BY <2>1, <2>2, <2>3, PrefixInduction
  <2>5. \A s \in SUBSET S : iter[s] = f[s] BY <2>0, <2>4
  <2>6. iter = [s \in SUBSET S |-> iter[s]] /\ f = [s \in SUBSET S |-> f[s]] BY <1>3, <1>4
  <2> QED BY <2>5, <2>6
<1> QED BY <1>1, <1>2, <1>5

\* Any member may be taken first.
LEMMA SumTakes ==
  ASSUME NEW S, IsFiniteSet(S), NEW rs, \A c \in S : rs[c].device \in Nat,
         NEW f, Summing(f, rs, S)
  PROVE  \A s \in SUBSET S, x \in S : x \in s => f[s] = rs[x].device + f[s \ {x}]
<1> DEFINE P == {k \in 0..Cardinality(S) :
                   \A s \in SUBSET S, x \in S : Cardinality(s) = k /\ x \in s => f[s] = rs[x].device + f[s \ {x}]}
<1>0. /\ Cardinality(S) \in Nat
      /\ \A s \in SUBSET S : IsFiniteSet(s) /\ Cardinality(s) \in 0..Cardinality(S)
      /\ \A s \in SUBSET S : f[s] \in Nat
  <2>1. Cardinality(S) \in Nat BY FS_CardinalityType
  <2>2. ASSUME NEW s \in SUBSET S PROVE IsFiniteSet(s) /\ Cardinality(s) \in 0..Cardinality(S)
    <3>1. IsFiniteSet(s) /\ Cardinality(s) <= Cardinality(S) BY FS_Subset
    <3>2. Cardinality(s) \in Nat BY <3>1, FS_CardinalityType
    <3> QED BY <2>1, <3>1, <3>2
  <2> QED BY <2>1, <2>2 DEF Summing
<1>1. 0 \in P
  <2>1. \A s \in SUBSET S : Cardinality(s) = 0 => s = {} BY <1>0, FS_EmptySet
  <2> QED BY <1>0, <2>1
<1>2. ASSUME NEW k \in 1..Cardinality(S), k - 1 \in P PROVE k \in P
  <2>1. ASSUME NEW s \in SUBSET S, NEW x \in S, Cardinality(s) = k, x \in s
        PROVE  f[s] = rs[x].device + f[s \ {x}]
    <3>1. PICK y : y = CHOOSE z \in s : TRUE OBVIOUS
    <3>2. y \in s /\ f[s] = rs[y].device + f[s \ {y}] BY <2>1, <3>1 DEF Summing
    <3>3. CASE x = y BY <3>2, <3>3
    <3>4. CASE x # y
      <4>1. Cardinality(s \ {y}) = k - 1 /\ Cardinality(s \ {x}) = k - 1
        BY <1>0, <2>1, <3>2, FewerLeft
      <4>2. f[s \ {y}] = rs[x].device + f[(s \ {y}) \ {x}]
        BY <1>2, <2>1, <3>4, <4>1
      <4>3. f[s \ {x}] = rs[y].device + f[(s \ {x}) \ {y}]
        BY <1>2, <2>1, <3>2, <3>4, <4>1
      <4>4. (s \ {y}) \ {x} = (s \ {x}) \ {y} OBVIOUS
      <4>5. PICK r : r = f[(s \ {x}) \ {y}] OBVIOUS
      <4>6. r \in Nat BY <1>0, <4>5
      <4>7. rs[x].device \in Nat /\ rs[y].device \in Nat BY <2>1, <3>2
      <4>8. f[s] = rs[y].device + (rs[x].device + r) BY <3>2, <4>2, <4>4, <4>5
      <4>9. f[s \ {x}] = rs[y].device + r BY <4>3, <4>5
      <4> QED BY <4>6, <4>7, <4>8, <4>9
    <3> QED BY <3>3, <3>4
  <2> QED BY <1>0, <2>1
<1>3. \A k \in 0..Cardinality(S) : k \in P
  <2> HIDE DEF P
  <2> QED BY <1>0, <1>1, <1>2, PrefixInduction
<1> QED BY <1>0, <1>3

\* Two sums that add the same for each member of T agree on T.
LEMMA SumsAgree ==
  ASSUME NEW S, NEW R, IsFiniteSet(S), IsFiniteSet(R), NEW rs, NEW qs, NEW f, NEW g,
         Summing(f, rs, S), Summing(g, qs, R), NEW T \in SUBSET (S \intersect R),
         \A c \in T : rs[c].device = qs[c].device
  PROVE  f[T] = g[T]
<1> DEFINE P == {k \in 0..Cardinality(T) : \A s \in SUBSET T : Cardinality(s) = k => f[s] = g[s]}
<1>0. /\ Cardinality(T) \in Nat /\ IsFiniteSet(T)
      /\ \A s \in SUBSET T : IsFiniteSet(s) /\ s \in SUBSET S /\ s \in SUBSET R
  <2>1. IsFiniteSet(T) BY FS_Subset
  <2> QED BY <2>1, FS_Subset, FS_CardinalityType
<1>1. 0 \in P
  <2>1. \A s \in SUBSET T : Cardinality(s) = 0 => s = {} BY <1>0, FS_EmptySet
  <2> QED BY <1>0, <2>1 DEF Summing
<1>2. ASSUME NEW k \in 1..Cardinality(T), k - 1 \in P PROVE k \in P
  <2>1. ASSUME NEW s \in SUBSET T, Cardinality(s) = k PROVE f[s] = g[s]
    <3>1. s # {}
      <4>1. Cardinality(s) # 0 BY <2>1
      <4> QED BY <4>1, FS_EmptySet
    <3>2. PICK y : y = CHOOSE z \in s : TRUE OBVIOUS
    <3>3. y \in s BY <3>1, <3>2
    <3>4. f[s] = rs[y].device + f[s \ {y}] BY <1>0, <3>1, <3>2 DEF Summing
    <3>5. g[s] = qs[y].device + g[s \ {y}] BY <1>0, <3>1, <3>2 DEF Summing
    <3>6. Cardinality(s \ {y}) = k - 1 BY <1>0, <2>1, <3>3, FewerLeft
    <3>7. f[s \ {y}] = g[s \ {y}] BY <1>2, <3>6
    <3> QED BY <3>3, <3>4, <3>5, <3>7
  <2> QED BY <1>0, <2>1
<1>3. \A k \in 0..Cardinality(T) : k \in P
  <2> HIDE DEF P
  <2> QED BY <1>0, <1>1, <1>2, PrefixInduction
<1>4. Cardinality(T) \in P BY <1>0, <1>3
<1> QED BY <1>4

\* What the proofs use of sums.
LEMMA DeviceType ==
  ASSUME NEW S, IsFiniteSet(S), NEW rs, \A c \in S : rs[c].device \in Nat
  PROVE  DeviceOf(rs, S) \in Nat
<1>1. PICK f : Summing(f, rs, S) /\ DeviceOf(rs, S) = f[S] BY SumIs
<1> QED BY <1>1 DEF Summing

LEMMA DeviceNone == ASSUME NEW rs PROVE DeviceOf(rs, {}) = 0
<1>1. IsFiniteSet({}) /\ \A c \in {} : rs[c].device \in Nat BY FS_EmptySet
<1>2. PICK f : Summing(f, rs, {}) /\ DeviceOf(rs, {}) = f[{}] BY <1>1, SumIs
<1> QED BY <1>2 DEF Summing

LEMMA DeviceSame ==
  ASSUME NEW S, IsFiniteSet(S), NEW rs, NEW qs, \A c \in S : rs[c].device \in Nat,
         \A c \in S : qs[c].device = rs[c].device
  PROVE  DeviceOf(qs, S) = DeviceOf(rs, S)
<1>1. \A c \in S : qs[c].device \in Nat OBVIOUS
<1>2. PICK f : Summing(f, rs, S) /\ DeviceOf(rs, S) = f[S] BY SumIs
<1>3. PICK g : Summing(g, qs, S) /\ DeviceOf(qs, S) = g[S] BY <1>1, SumIs
<1>4. S \in SUBSET (S \intersect S) OBVIOUS
<1>5. g[S] = f[S] BY <1>2, <1>3, <1>4, SumsAgree
<1> QED BY <1>2, <1>3, <1>5

LEMMA DeviceLess ==
  ASSUME NEW S, IsFiniteSet(S), NEW rs, \A c \in S : rs[c].device \in Nat, NEW x \in S
  PROVE  DeviceOf(rs, S) = rs[x].device + DeviceOf(rs, S \ {x})
<1> DEFINE R == S \ {x}
<1>1. IsFiniteSet(R) /\ \A c \in R : rs[c].device \in Nat BY FS_Subset
<1>2. PICK f : Summing(f, rs, S) /\ DeviceOf(rs, S) = f[S] BY SumIs
<1>3. PICK g : Summing(g, rs, R) /\ DeviceOf(rs, R) = g[R] BY <1>1, SumIs
<1>4. f[S] = rs[x].device + f[R] BY <1>2, SumTakes
<1>5. R \in SUBSET (S \intersect R) OBVIOUS
<1> HIDE DEF R
<1>6. f[R] = g[R] BY <1>1, <1>2, <1>3, <1>5, SumsAgree
<1>7. DeviceOf(rs, S) = rs[x].device + DeviceOf(rs, R) BY <1>2, <1>3, <1>4, <1>6
<1> QED BY <1>7 DEF R

LEMMA DeviceSplit ==
  ASSUME NEW S, IsFiniteSet(S), NEW rs, \A c \in S : rs[c].device \in Nat, NEW T \in SUBSET S
  PROVE  DeviceOf(rs, S) = DeviceOf(rs, T) + DeviceOf(rs, S \ T)
<1> DEFINE sum(s) == DeviceOf(rs, s)
           P == {k \in 0..Cardinality(T) :
                   \A t \in SUBSET T : Cardinality(t) = k => sum(S) = sum(t) + sum(S \ t)}
<1>0. /\ Cardinality(T) \in Nat
      /\ \A s \in SUBSET S : IsFiniteSet(s) /\ sum(s) \in Nat
  <2>1. IsFiniteSet(T) BY FS_Subset
  <2>2. ASSUME NEW s \in SUBSET S PROVE IsFiniteSet(s) /\ sum(s) \in Nat
    BY FS_Subset, DeviceType
  <2> QED BY <2>1, <2>2, FS_CardinalityType
<1>1. 0 \in P
  <2>1. ASSUME NEW t \in SUBSET T, Cardinality(t) = 0 PROVE sum(S) = sum(t) + sum(S \ t)
    <3>1. t = {} BY <1>0, <2>1, FS_EmptySet
    <3>2. sum(t) = 0 /\ S \ t = S /\ sum(S) \in Nat BY <1>0, <3>1, DeviceNone
    <3> HIDE DEF sum
    <3> QED BY <3>2
  <2> HIDE DEF sum
  <2> QED BY <1>0, <2>1
<1>2. ASSUME NEW k \in 1..Cardinality(T), k - 1 \in P PROVE k \in P
  <2>1. ASSUME NEW t \in SUBSET T, Cardinality(t) = k PROVE sum(S) = sum(t) + sum(S \ t)
    <3>1. t # {}
      <4>1. Cardinality(t) # 0 BY <2>1
      <4> QED BY <4>1, FS_EmptySet
    <3>2. PICK x : x \in t BY <3>1
    <3>3. IsFiniteSet(t) /\ t \ {x} \in SUBSET T /\ t \in SUBSET S /\ x \in S BY <1>0, <3>2
    <3>4. Cardinality(t \ {x}) = k - 1 BY <2>1, <3>2, <3>3, FewerLeft
    <3>5. sum(S) = sum(t \ {x}) + sum(S \ (t \ {x}))
      <4> HIDE DEF sum
      <4> QED BY <1>2, <3>3, <3>4
    <3>6. sum(t) = rs[x].device + sum(t \ {x})
      <4>1. \A c \in t : rs[c].device \in Nat BY <3>3
      <4> QED BY <3>2, <3>3, <4>1, DeviceLess
    <3>7. sum(S \ (t \ {x})) = rs[x].device + sum(S \ t)
      <4> DEFINE u == S \ (t \ {x})
      <4>1. u \in SUBSET S /\ x \in u /\ u \ {x} = S \ t BY <3>2, <3>3
      <4>2. IsFiniteSet(u) /\ \A c \in u : rs[c].device \in Nat BY <1>0, <4>1
      <4>3. sum(u) = rs[x].device + sum(u \ {x})
        <5> HIDE DEF u
        <5> QED BY <4>1, <4>2, DeviceLess
      <4> HIDE DEF sum
      <4> QED BY <4>1, <4>3
    <3>8. sum(t \ {x}) \in Nat /\ sum(S \ t) \in Nat /\ rs[x].device \in Nat
      BY <1>0, <3>3
    <3> HIDE DEF sum
    <3> QED BY <3>5, <3>6, <3>7, <3>8
  <2> HIDE DEF sum
  <2> QED BY <1>0, <2>1
<1>3. \A k \in 0..Cardinality(T) : k \in P
  <2> HIDE DEF P
  <2> QED BY <1>0, <1>1, <1>2, PrefixInduction
<1>4. Cardinality(T) \in P BY <1>0, <1>3
<1> HIDE DEF sum
<1>5. sum(S) = sum(T) + sum(S \ T) BY <1>4
<1> QED BY <1>5 DEF sum

LEMMA DeviceOne == ASSUME NEW rs, NEW x, rs[x].device \in Nat PROVE DeviceOf(rs, {x}) = rs[x].device
<1>1. IsFiniteSet({x}) /\ \A c \in {x} : rs[c].device \in Nat BY FS_Singleton
<1>2. DeviceOf(rs, {x}) = rs[x].device + DeviceOf(rs, {x} \ {x}) BY <1>1, DeviceLess
<1>3. {x} \ {x} = {} OBVIOUS
<1>4. DeviceOf(rs, {}) = 0 BY DeviceNone
<1> QED BY <1>2, <1>3, <1>4

LEMMA DeviceZero ==
  ASSUME NEW S, IsFiniteSet(S), NEW rs, \A c \in S : rs[c].device = 0
  PROVE  DeviceOf(rs, S) = 0
<1>1. \A c \in S : rs[c].device \in Nat OBVIOUS
<1>2. PICK f : Summing(f, rs, S) /\ DeviceOf(rs, S) = f[S] BY <1>1, SumIs
<1> DEFINE P == {k \in 0..Cardinality(S) : \A s \in SUBSET S : Cardinality(s) = k => f[s] = 0}
<1>3. /\ Cardinality(S) \in Nat
      /\ \A s \in SUBSET S : IsFiniteSet(s)
  BY FS_Subset, FS_CardinalityType
<1>4. 0 \in P
  <2>1. \A s \in SUBSET S : Cardinality(s) = 0 => s = {} BY <1>3, FS_EmptySet
  <2> QED BY <1>2, <1>3, <2>1 DEF Summing
<1>5. ASSUME NEW k \in 1..Cardinality(S), k - 1 \in P PROVE k \in P
  <2>1. ASSUME NEW s \in SUBSET S, Cardinality(s) = k PROVE f[s] = 0
    <3>1. s # {}
      <4>1. Cardinality(s) # 0 BY <2>1
      <4> QED BY <4>1, FS_EmptySet
    <3>2. PICK y : y = CHOOSE z \in s : TRUE OBVIOUS
    <3>3. y \in s BY <3>1, <3>2
    <3>4. f[s] = rs[y].device + f[s \ {y}] BY <1>2, <3>1, <3>2 DEF Summing
    <3>5. Cardinality(s \ {y}) = k - 1 BY <1>3, <2>1, <3>3, FewerLeft
    <3>6. f[s \ {y}] = 0 BY <1>5, <3>5
    <3> QED BY <3>3, <3>4, <3>6
  <2> QED BY <1>3, <2>1
<1>6. \A k \in 0..Cardinality(S) : k \in P
  <2> HIDE DEF P
  <2> QED BY <1>3, <1>4, <1>5, PrefixInduction
<1>7. Cardinality(S) \in P BY <1>3, <1>6
<1> QED BY <1>2, <1>7

\* When only members of T change, so does the sum by what they hold.
Moves(rs, S, qs, R, T) ==
  /\ IsFiniteSet(S) /\ \A c \in S : rs[c].device \in Nat
  /\ IsFiniteSet(R) /\ \A c \in R : qs[c].device \in Nat
  /\ S \ T = R \ T /\ \A c \in S \ T : qs[c].device = rs[c].device

MovesBy(rs, S, qs, R, T) ==
  DeviceOf(qs, R) - DeviceOf(qs, R \intersect T) = DeviceOf(rs, S) - DeviceOf(rs, S \intersect T)

LEMMA DeviceMoves ==
  ASSUME NEW S, NEW rs, NEW R, NEW qs, NEW T, Moves(rs, S, qs, R, T)
  PROVE  MovesBy(rs, S, qs, R, T)
<1>0. /\ IsFiniteSet(S) /\ \A c \in S : rs[c].device \in Nat
      /\ IsFiniteSet(R) /\ \A c \in R : qs[c].device \in Nat
      /\ S \ T = R \ T /\ \A c \in S \ T : qs[c].device = rs[c].device
  BY DEF Moves
<1> DEFINE ST == S \intersect T
           RT == R \intersect T
           U == S \ T
<1>1. S \ ST = U /\ R \ RT = U /\ ST \in SUBSET S /\ RT \in SUBSET R /\ U \subseteq S BY <1>0
<1> HIDE DEF ST, RT
<1>2. DeviceOf(rs, S) = DeviceOf(rs, ST) + DeviceOf(rs, S \ ST) BY <1>0, <1>1, DeviceSplit
<1>3. DeviceOf(qs, R) = DeviceOf(qs, RT) + DeviceOf(qs, R \ RT) BY <1>0, <1>1, DeviceSplit
<1>4. /\ IsFiniteSet(U) /\ IsFiniteSet(ST) /\ IsFiniteSet(RT)
      /\ \A c \in U : rs[c].device \in Nat /\ qs[c].device = rs[c].device
      /\ \A c \in ST : rs[c].device \in Nat
      /\ \A c \in RT : qs[c].device \in Nat
  BY <1>0, <1>1, FS_Subset
<1> HIDE DEF U
<1>5. DeviceOf(qs, U) = DeviceOf(rs, U) BY <1>4, DeviceSame
<1>6. DeviceOf(rs, U) \in Nat /\ DeviceOf(rs, ST) \in Nat /\ DeviceOf(qs, RT) \in Nat
  BY <1>4, DeviceType
<1>7. PICK a \in Nat, b \in Nat, d \in Nat :
        DeviceOf(rs, U) = a /\ DeviceOf(rs, ST) = b /\ DeviceOf(qs, RT) = d
  BY <1>6
<1>8. DeviceOf(rs, S) = b + a /\ DeviceOf(qs, R) = d + a
  BY <1>1, <1>2, <1>3, <1>5, <1>7
<1>9. DeviceOf(qs, R) - DeviceOf(qs, RT) = DeviceOf(rs, S) - DeviceOf(rs, ST)
  BY <1>7, <1>8
<1> QED BY <1>9 DEF ST, RT, MovesBy

-----------------------------------------------------------------------------
(* The folds of the loop, under a name each *)

Considered(base, seq) == FoldLeft(Consider, base, seq)

Taken(base, seq) == FoldLeft(TakeChunk, base, seq)

ConsidersTo(pre, base, seq, A) ==
  /\ Along(pre, Len(seq), A, base)
  /\ Considered(base, seq) = pre[Len(seq)]
  /\ \A k \in 1..Len(seq) : pre[k] = Consider(pre[k - 1], seq[k])

TakesTo(pre, base, seq, A) ==
  /\ Along(pre, Len(seq), A, base)
  /\ Taken(base, seq) = pre[Len(seq)]
  /\ \A k \in 1..Len(seq) : pre[k] = TakeChunk(pre[k - 1], seq[k])

LEMMA ConsiderFold ==
  ASSUME NEW A, NEW base \in A, NEW S, NEW seq \in Seq(S),
         \A a \in A, i \in 1..Len(seq) : Consider(a, seq[i]) \in A
  PROVE  \E pre : ConsidersTo(pre, base, seq, A)
<1> DEFINE n == Len(seq)
           step == [i \in 1..n |-> [a \in A |-> Consider(a, seq[i])]]
           Fix(f) == f = [T \in SUBSET (1..n) |->
                            IF T = {} THEN base
                            ELSE Consider(f[T \ {Max(T)}], seq[Max(T)])]
           iter == CHOOSE f : Fix(f)
<1>1. n \in Nat /\ DOMAIN seq = 1..n OBVIOUS
<1>2. step \in [1..n -> [A -> A]] /\ \A i \in 1..n, a \in A : step[i][a] = Consider(a, seq[i])
  OBVIOUS
<1>3. Considered(base, seq) = iter[1..n]
  BY <1>1, Zenon DEF FoldLeft, MapThenFoldSet, Considered
<1> HIDE DEF n, step
<1>4. PICK f : Solves(f, n, A, base, step) BY <1>1, <1>2, FoldExists
<1>5. /\ f \in [SUBSET (1..n) -> A]
      /\ \A T \in SUBSET (1..n) : f[T] = IF T = {} THEN base ELSE step[Max(T)][f[T \ {Max(T)}]]
  BY <1>4 DEF Solves
<1>6. \A T \in SUBSET (1..n) : T # {} => Max(T) \in 1..n /\ T \ {Max(T)} \in SUBSET (1..n)
  BY <1>1, MaxIsIn
<1>7. Fix(iter)
  <2>1. ASSUME NEW T \in SUBSET (1..n)
        PROVE  f[T] = IF T = {} THEN base ELSE Consider(f[T \ {Max(T)}], seq[Max(T)])
    <3>1. T # {} => f[T \ {Max(T)}] \in A BY <1>5, <1>6
    <3> QED BY <1>2, <1>5, <1>6, <3>1
  <2>2. Fix(f) BY <1>5, <2>1
  <2> QED BY <2>2
<1> HIDE DEF iter
<1>8. \A T \in SUBSET (1..n) :
        iter[T] = IF T = {} THEN base ELSE Consider(iter[T \ {Max(T)}], seq[Max(T)])
  BY <1>7
<1> HIDE DEF Fix
<1>9. iter[{}] = base BY <1>8
<1>10. Unwinds(iter, n, A, base, step)
  <2>1. ASSUME NEW T \in SUBSET (1..n), T # {}, iter[T \ {Max(T)}] \in A
        PROVE  iter[T] = step[Max(T)][iter[T \ {Max(T)}]]
    BY <1>2, <1>6, <1>8, <2>1
  <2> QED BY <1>9, <2>1 DEF Unwinds
<1>11. PICK pre : Follows(pre, n, A, base, step) /\ iter[1..n] = pre[n]
  BY <1>1, <1>2, <1>10, PrefixesOf
<1>12. /\ Along(pre, n, A, base) /\ iter[1..n] = pre[n]
       /\ \A k \in 1..n : pre[k] = step[k][pre[k - 1]]
  BY <1>11 DEF Follows
<1>13. \A k \in 1..n : pre[k] = Consider(pre[k - 1], seq[k])
  <2> TAKE k \in 1..n
  <2>1. pre[k - 1] \in A BY <1>1, <1>12, PrefixFacts DEF Along
  <2> QED BY <1>2, <1>12, <2>1
<1> QED BY <1>3, <1>12, <1>13 DEF n, ConsidersTo

LEMMA TakeFold ==
  ASSUME NEW A, NEW base \in A, NEW S, NEW seq \in Seq(S),
         \A a \in A, i \in 1..Len(seq) : TakeChunk(a, seq[i]) \in A
  PROVE  \E pre : TakesTo(pre, base, seq, A)
<1> DEFINE n == Len(seq)
           step == [i \in 1..n |-> [a \in A |-> TakeChunk(a, seq[i])]]
           Fix(f) == f = [T \in SUBSET (1..n) |->
                            IF T = {} THEN base
                            ELSE TakeChunk(f[T \ {Max(T)}], seq[Max(T)])]
           iter == CHOOSE f : Fix(f)
<1>1. n \in Nat /\ DOMAIN seq = 1..n OBVIOUS
<1>2. step \in [1..n -> [A -> A]] /\ \A i \in 1..n, a \in A : step[i][a] = TakeChunk(a, seq[i])
  OBVIOUS
<1>3. Taken(base, seq) = iter[1..n]
  BY <1>1, Zenon DEF FoldLeft, MapThenFoldSet, Taken
<1> HIDE DEF n, step
<1>4. PICK f : Solves(f, n, A, base, step) BY <1>1, <1>2, FoldExists
<1>5. /\ f \in [SUBSET (1..n) -> A]
      /\ \A T \in SUBSET (1..n) : f[T] = IF T = {} THEN base ELSE step[Max(T)][f[T \ {Max(T)}]]
  BY <1>4 DEF Solves
<1>6. \A T \in SUBSET (1..n) : T # {} => Max(T) \in 1..n /\ T \ {Max(T)} \in SUBSET (1..n)
  BY <1>1, MaxIsIn
<1>7. Fix(iter)
  <2>1. ASSUME NEW T \in SUBSET (1..n)
        PROVE  f[T] = IF T = {} THEN base ELSE TakeChunk(f[T \ {Max(T)}], seq[Max(T)])
    <3>1. T # {} => f[T \ {Max(T)}] \in A BY <1>5, <1>6
    <3> QED BY <1>2, <1>5, <1>6, <3>1
  <2>2. Fix(f) BY <1>5, <2>1
  <2> QED BY <2>2
<1> HIDE DEF iter
<1>8. \A T \in SUBSET (1..n) :
        iter[T] = IF T = {} THEN base ELSE TakeChunk(iter[T \ {Max(T)}], seq[Max(T)])
  BY <1>7
<1> HIDE DEF Fix
<1>9. iter[{}] = base BY <1>8
<1>10. Unwinds(iter, n, A, base, step)
  <2>1. ASSUME NEW T \in SUBSET (1..n), T # {}, iter[T \ {Max(T)}] \in A
        PROVE  iter[T] = step[Max(T)][iter[T \ {Max(T)}]]
    BY <1>2, <1>6, <1>8, <2>1
  <2> QED BY <1>9, <2>1 DEF Unwinds
<1>11. PICK pre : Follows(pre, n, A, base, step) /\ iter[1..n] = pre[n]
  BY <1>1, <1>2, <1>10, PrefixesOf
<1>12. /\ Along(pre, n, A, base) /\ iter[1..n] = pre[n]
       /\ \A k \in 1..n : pre[k] = step[k][pre[k - 1]]
  BY <1>11 DEF Follows
<1>13. \A k \in 1..n : pre[k] = TakeChunk(pre[k - 1], seq[k])
  <2> TAKE k \in 1..n
  <2>1. pre[k - 1] \in A BY <1>1, <1>12, PrefixFacts DEF Along
  <2> QED BY <1>2, <1>12, <2>1
<1> QED BY <1>3, <1>12, <1>13 DEF n, TakesTo

-----------------------------------------------------------------------------
(* Plans *)

Jobs == [id : Client, start : Nat, end : Nat]

\* The plan has a chunk for some of the first k of the order, at most one each.
ChunkOf(job, w) == job.id = w.id /\ job.start = w.cached /\ job.end <= w.prompt

PlanFrom(jobs, order, k) ==
  /\ \A j \in 1..Len(jobs) : \E i \in 1..k : ChunkOf(jobs[j], order[i])
  /\ \A i, j \in 1..Len(jobs) : jobs[i].id = jobs[j].id => i = j

LEMMA TakeStep ==
  ASSUME NEW acc \in [left : Int, plan : Seq(Jobs)], NEW w, w.id \in Client,
         w.cached \in Nat, w.prompt \in Nat
  PROVE  /\ TakeChunk(acc, w) \in [left : Int, plan : Seq(Jobs)]
         /\ \/ TakeChunk(acc, w) = acc
            \/ \E job \in Jobs : ChunkOf(job, w) /\ TakeChunk(acc, w).plan = Append(acc.plan, job)
<1>1. PICK chunk : chunk = Min({w.prompt - w.cached, ChunkSize, acc.left}) OBVIOUS
<1>2. chunk \in Int /\ chunk <= w.prompt - w.cached
  <2>1. w.prompt - w.cached \in Int /\ ChunkSize \in Int /\ acc.left \in Int BY ConfigAssumption
  <2>2. PICK a \in Int, b \in Int, d \in Int : a = w.prompt - w.cached /\ b = ChunkSize /\ d = acc.left
    BY <2>1
  <2> QED BY <1>1, <2>2, MinOfThree
<1>3. CASE chunk <= 0
  <2>1. TakeChunk(acc, w) = acc BY <1>1, <1>3 DEF TakeChunk
  <2> QED BY <2>1
<1>4. CASE ~(chunk <= 0)
  <2>1. PICK job : job = [id |-> w.id, start |-> w.cached, end |-> w.cached + chunk] OBVIOUS
  <2>2. TakeChunk(acc, w) = [left |-> acc.left - chunk, plan |-> Append(acc.plan, job)]
    BY <1>1, <1>4, <2>1 DEF TakeChunk
  <2>3. w.cached + chunk \in Nat /\ w.cached + chunk <= w.prompt BY <1>2, <1>4
  <2>4. job \in Jobs /\ ChunkOf(job, w) BY <2>1, <2>3 DEF Jobs, ChunkOf
  <2>5. Append(acc.plan, job) \in Seq(Jobs) /\ acc.left - chunk \in Int BY <1>2, <2>4
  <2> QED BY <2>2, <2>4, <2>5
<1> QED BY <1>3, <1>4

LEMMA PlanOfOrder ==
  ASSUME NEW S, NEW order \in Seq(S), NEW budget \in Int,
         \A w \in S : w.id \in Client /\ w.cached \in Nat /\ w.prompt \in Nat,
         \A i, j \in 1..Len(order) : order[i].id = order[j].id => i = j,
         NEW jobs, jobs = Taken([left |-> budget, plan |-> <<>>], order).plan
  PROVE  jobs \in Seq(Jobs) /\ PlanFrom(jobs, order, Len(order))
<1> DEFINE A == [left : Int, plan : Seq(Jobs)]
           base == [left |-> budget, plan |-> <<>>]
<1>1. PICK n \in Nat : n = Len(order) OBVIOUS
<1>2. \A k \in 1..n : order[k] \in S BY <1>1
<1>3. PICK pre : TakesTo(pre, base, order, A)
  <2>1. \A a \in A, i \in 1..Len(order) : TakeChunk(a, order[i]) \in A
    BY <1>1, <1>2, TakeStep
  <2>2. base \in A OBVIOUS
  <2> HIDE DEF A, base
  <2> QED BY <2>1, <2>2, TakeFold
<1>4. /\ pre \in [0..n -> A] /\ pre[0] = base /\ jobs = pre[n].plan
      /\ \A k \in 1..n : pre[k] = TakeChunk(pre[k - 1], order[k])
  BY <1>1, <1>3 DEF TakesTo, Along
<1> DEFINE P == {k \in 0..n : PlanFrom(pre[k].plan, order, k)}
<1>5. 0 \in P
  <2>1. pre[0].plan = <<>> BY <1>4
  <2>2. PlanFrom(<<>>, order, 0) BY DEF PlanFrom
  <2> HIDE DEF base
  <2> QED BY <1>1, <2>1, <2>2
<1>6. ASSUME NEW k \in 1..n, k - 1 \in P PROVE k \in P
  <2>1. k \in 0..n /\ k - 1 \in 0..n /\ order[k] \in S BY <1>2
  <2>2. PICK old : old = pre[k - 1].plan OBVIOUS
  <2>3. PICK new : new = pre[k].plan OBVIOUS
  <2>4. pre[k - 1] \in A /\ old \in Seq(Jobs) BY <1>4, <2>1, <2>2
  <2>5. new = old \/ \E job \in Jobs : ChunkOf(job, order[k]) /\ new = Append(old, job)
    <3>1. PICK acc \in A : acc = pre[k - 1] BY <2>4
    <3>2. PICK w \in S : w = order[k] BY <2>1
    <3>3. pre[k] = TakeChunk(acc, w) BY <1>4, <3>1, <3>2
    <3>4. w.id \in Client /\ w.cached \in Nat /\ w.prompt \in Nat OBVIOUS
    <3>5. \/ TakeChunk(acc, w) = acc
          \/ \E job \in Jobs : ChunkOf(job, w) /\ TakeChunk(acc, w).plan = Append(acc.plan, job)
      BY <3>4, TakeStep
    <3> HIDE DEF A
    <3> QED BY <2>2, <2>3, <3>1, <3>2, <3>3, <3>5
  <2>6. PlanFrom(old, order, k - 1) BY <1>6, <2>2
  <2>7. \A i \in 1..(k - 1) : i \in 1..k /\ i # k /\ i \in 1..n OBVIOUS
  <2>8. CASE new = old
    <3>1. PlanFrom(new, order, k) BY <2>6, <2>7, <2>8 DEF PlanFrom
    <3> QED BY <2>1, <2>3, <3>1
  <2>9. CASE new # old
    <3>1. PICK job \in Jobs : ChunkOf(job, order[k]) /\ new = Append(old, job) BY <2>5, <2>9
    <3>2. PICK m \in Nat : m = Len(old) BY <2>4
    <3>3. /\ Len(new) = m + 1 /\ \A j \in 1..m : new[j] = old[j]
          /\ new[m + 1] = job
      BY <2>4, <3>1, <3>2, AppendProperties
    <3>4. \A j \in 1..(m + 1) : j = m + 1 \/ j \in 1..m BY <3>2
    <3>5. \A j \in 1..m : \E i \in 1..k : ChunkOf(new[j], order[i]) /\ i # k
      BY <2>6, <2>7, <3>2, <3>3 DEF PlanFrom
    <3>6. k \in 1..k OBVIOUS
    <3>7. \A j \in 1..(m + 1) : \E i \in 1..k : ChunkOf(new[j], order[i])
      BY <3>1, <3>3, <3>4, <3>5, <3>6
    <3>8. \A j \in 1..m : new[j].id # job.id
      <4> TAKE j \in 1..m
      <4>1. PICK i \in 1..k : ChunkOf(new[j], order[i]) /\ i # k BY <3>5
      <4>2. i \in 1..Len(order) /\ k \in 1..Len(order) BY <1>1
      <4>3. order[i].id # order[k].id BY <4>1, <4>2
      <4> QED BY <3>1, <4>1, <4>3 DEF ChunkOf
    <3>9. \A i, j \in 1..m : new[i].id = new[j].id => i = j
      BY <2>6, <3>2, <3>3 DEF PlanFrom
    <3>10. \A i, j \in 1..(m + 1) : new[i].id = new[j].id => i = j
      BY <3>3, <3>4, <3>8, <3>9
    <3>11. PlanFrom(new, order, k) BY <3>3, <3>7, <3>10 DEF PlanFrom
    <3> QED BY <2>1, <2>3, <3>11
  <2> QED BY <2>8, <2>9
<1>7. n \in P
  <2> HIDE DEF P
  <2>1. \A k \in 0..n : k \in P BY <1>5, <1>6, PrefixInduction
  <2> QED BY <2>1
<1>8. jobs \in Seq(Jobs)
  <2>1. pre[n] \in A BY <1>4
  <2> QED BY <1>4, <2>1
<1> QED BY <1>1, <1>4, <1>7, <1>8

-----------------------------------------------------------------------------
(* The invariant *)

Frames == [kind : {"token", "done", "error"}, n : Vocab \union Nat]

Cmds == [op : {"submit", "abort", "shutdown"}, id : Client \union {"none"}]

Points == {"cmds", "prefill", "confirm", "stopped", "panicked"}

Shape ==
  /\ cmds \in Seq(Cmds) /\ chan \in [Client -> Seq(Frames)]
  /\ submitted \subseteq Client /\ Accepted \subseteq submitted /\ Live \subseteq Accepted
  /\ arrivals \in Seq(Accepted) /\ Range(arrivals) = Accepted
  /\ \A i, j \in DOMAIN arrivals : arrivals[i] = arrivals[j] => i = j
  /\ reqs \in [Accepted -> Request]
  /\ \A c \in Live : meta[c] = [gen |-> meta[c].gen, cur |-> meta[c].cur] /\ meta[c].gen \in Seq(Vocab)
  /\ ledger \in [dispatched : Nat, returned : Nat]
  /\ pc \in Points /\ faults \in 0 .. MaxFaults
  /\ plan \in Seq(Jobs) /\ waiting \in Seq(Client)

\* A live request is in a state between two confirmations and holds on the
\* device what is confirmed.  A dead one is terminal, or never became live.
LiveOK(c) ==
  /\ reqs[c].st \in {"Waiting", "Chunked", "Preempted", "Decode"}
  /\ reqs[c].device = reqs[c].cached
  /\ reqs[c].st \in {"Waiting", "Preempted"} => reqs[c].cached = 0
  /\ reqs[c].prompt <= Len(Prompt[c])

DeadOK(c) == Terminal(reqs[c]) \/ (c \in BadParams /\ reqs[c].device = 0)

RecordsOK == \A c \in Accepted : IF c \in Live THEN LiveOK(c) ELSE DeadOK(c)

Queued == {c \in Live : reqs[c].st # "Decode"}

TablesOK ==
  /\ \A i, j \in DOMAIN waiting : waiting[i] = waiting[j] => i = j
  /\ Range(waiting) = Queued
  /\ decoding = Live \ Queued
  /\ DOMAIN segs = {c \in Live : reqs[c].st \in {"Chunked", "Decode"}}
  /\ DOMAIN estimates \subseteq Live
  /\ batch \subseteq decoding
  /\ pc \in {"cmds", "prefill", "stopped"} => batch = {}

\* The assignments left are for queued requests, each once, and start where
\* the request is.
PlanOK ==
  /\ pc # "prefill" => plan = <<>>
  /\ \A i, j \in DOMAIN plan : plan[i].id = plan[j].id => i = j
  /\ \A i \in DOMAIN plan : /\ plan[i].id \in Queued
                            /\ plan[i].start = reqs[plan[i].id].cached
                            /\ plan[i].end <= Len(Prompt[plan[i].id])

\* Commands left are news: a submit of a request nobody has answered, once.
CmdsOK ==
  /\ \A i \in DOMAIN cmds :
       /\ cmds[i].op = "submit" => cmds[i].id \in submitted \ Accepted /\ chan[cmds[i].id] = <<>>
       /\ cmds[i].op = "abort" => cmds[i].id \in aborted
  /\ \A i, j \in DOMAIN cmds :
       cmds[i].op = "submit" /\ cmds[j].op = "submit" /\ cmds[i].id = cmds[j].id => i = j
  /\ \A c \in Client \ submitted : chan[c] = <<>>

\* A live request has had token frames only, one for each token it made unless
\* its client has gone.
TokensOnly(c) == /\ \A i \in DOMAIN chan[c] : chan[c][i].kind = "token"
                 /\ c \notin gone => Len(chan[c]) = Len(meta[c].gen)

\* One terminal frame at most, the last, which counts the others.
EndsRight(c) == /\ Terminals(c) \subseteq {Len(chan[c])}
                /\ \A i \in Terminals(c) : chan[c][i].kind = "done" => chan[c][i].n = i - 1

FramesOK ==
  /\ \A c \in Live : TokensOnly(c)
  /\ \A c \in Client : EndsRight(c)
  /\ \A c \in Accepted \ Live : Terminals(c) # {} \/ c \in aborted \union gone

Inv == Shape /\ RecordsOK /\ TablesOK /\ PlanOK /\ CmdsOK /\ FramesOK /\ LedgerBalanced

\* The sequences of the loop, by their elements.
LEMMA Views ==
  ASSUME Shape
  PROVE  /\ Len(waiting) \in Nat /\ DOMAIN waiting = 1..Len(waiting) /\ Range(waiting) = Among(waiting)
         /\ Len(plan) \in Nat /\ DOMAIN plan = 1..Len(plan)
         /\ Len(cmds) \in Nat /\ DOMAIN cmds = 1..Len(cmds)
         /\ Len(arrivals) \in Nat /\ DOMAIN arrivals = 1..Len(arrivals)
         /\ Range(arrivals) = Among(arrivals)
         /\ \A c \in Client : Len(chan[c]) \in Nat /\ DOMAIN chan[c] = 1..Len(chan[c])
                              /\ chan[c] \in Seq(Frames)
         /\ \A c \in Accepted : reqs[c] \in Request
         /\ Live \subseteq Client /\ Accepted \subseteq Client
         /\ IsFiniteSet(Client) /\ IsFiniteSet(Accepted) /\ IsFiniteSet(Live)
<1>1. /\ waiting \in Seq(Client) /\ plan \in Seq(Jobs) /\ cmds \in Seq(Cmds)
      /\ arrivals \in Seq(Accepted) /\ \A c \in Client : chan[c] \in Seq(Frames)
      /\ \A c \in Accepted : reqs[c] \in Request
      /\ Live \subseteq Client /\ Accepted \subseteq Client
  BY DEF Shape
<1>2. IsFiniteSet(Client) BY LoopAssumption
<1>3. IsFiniteSet(Accepted) /\ IsFiniteSet(Live) BY <1>1, <1>2, FS_Subset
<1> QED BY <1>1, <1>2, <1>3, SeqFacts

\* A frame that may end a stream of token frames: an error, or a count of them.
Final(fs, f) == f \in Frames /\ (f.kind = "error" \/ (f.kind = "done" /\ f.n = Len(fs)))

Ended(fs, gs) == \E f : Final(fs, f) /\ gs = Append(fs, f)

LEMMA FinalFrame ==
  ASSUME NEW fs \in Seq(Frames), \A i \in DOMAIN fs : fs[i].kind = "token",
         NEW gs, Ended(fs, gs)
  PROVE  /\ gs \in Seq(Frames) /\ Len(gs) = Len(fs) + 1
         /\ {i \in DOMAIN gs : gs[i].kind # "token"} = {Len(gs)}
         /\ gs[Len(gs)].kind = "done" => gs[Len(gs)].n = Len(gs) - 1
<1>1. PICK f : Final(fs, f) /\ gs = Append(fs, f) BY DEF Ended
<1>2. f \in Frames BY <1>1 DEF Final
<1>3. PICK n \in Nat : n = Len(fs) OBVIOUS
<1>4. /\ gs \in Seq(Frames) /\ Len(gs) = n + 1
      /\ \A i \in 1..n : gs[i] = fs[i]
      /\ gs[n + 1] = f
  BY <1>1, <1>2, <1>3, AppendProperties
<1>5. DOMAIN gs = 1..(n + 1) /\ DOMAIN fs = 1..n BY <1>3, <1>4
<1>6. f.kind # "token" /\ (f.kind = "done" => f.n = n) BY <1>1, <1>3 DEF Final
<1>7. \A i \in 1..(n + 1) : i = n + 1 \/ i \in 1..n BY <1>3
<1>8. {i \in DOMAIN gs : gs[i].kind # "token"} = {n + 1} BY <1>4, <1>5, <1>6, <1>7
<1>9. (n + 1) - 1 = n BY <1>3
<1> QED BY <1>3, <1>4, <1>6, <1>8, <1>9

-----------------------------------------------------------------------------
(* Requests that end *)

\* Live requests leave the loop's tables, on whatever way out: their records
\* become terminal, and each client that is there and has not aborted is told.
Leaves(ids) ==
  /\ ids \subseteq Live
  /\ reqs' \in [Accepted -> Request]
  /\ \A c \in Accepted : IF c \in ids THEN Terminal(reqs'[c]) ELSE reqs'[c] = reqs[c]
  /\ Forget(ids)
  /\ UNCHANGED <<arrivals, clients>>

Told(ids) ==
  /\ chan' = [c \in Client |-> chan'[c]]
  /\ \A c \in Client : \/ chan'[c] = chan[c] /\ (c \in ids => c \in aborted \union gone)
                       \/ c \in ids /\ Ended(chan[c], chan'[c])

StepsOn(ids) ==
  /\ cmds' = cmds \/ (cmds # <<>> /\ cmds' = Tail(cmds))
  /\ \/ plan' = <<>>
     \/ plan # <<>> /\ plan' = Tail(plan) /\ ids = {Head(plan).id} /\ pc' = "prefill"
  /\ batch' \subseteq batch \ ids
  /\ pc' \in Points /\ (pc' \in {"cmds", "prefill", "stopped"} => batch' = {})
  /\ faults' \in 0 .. MaxFaults

Settles(ids) ==
  /\ ledger' \in [dispatched : Nat, returned : Nat]
  /\ ledger'.dispatched - ledger'.returned =
       ledger.dispatched - ledger.returned - DeviceOf(reqs, ids)

Leaving(ids) == Leaves(ids) /\ Told(ids) /\ StepsOn(ids) /\ Settles(ids)

LEMMA LeavingQueue ==
  ASSUME Inv, NEW ids, Forget(ids)
  PROVE  /\ waiting' \in Seq(Client) /\ Distinct(waiting') /\ Among(waiting') = Queued \ ids
         /\ decoding' = decoding \ ids /\ DOMAIN segs' = DOMAIN segs \ ids
         /\ DOMAIN estimates' \subseteq Live \ ids
         /\ DOMAIN meta' = Live \ ids /\ \A c \in DOMAIN meta' : meta'[c] = meta[c]
<1>1. Distinct(waiting) /\ waiting \in Seq(Client) /\ Among(waiting) = Queued
  BY Views DEF Inv, Shape, TablesOK, Distinct
<1>2. waiting' = Without(waiting, ids) BY DEF Forget, RemoveFromWaiting
<1>3. waiting' \in Seq(Client) /\ Distinct(waiting') /\ Among(waiting') = Among(waiting) \ ids
  BY <1>1, <1>2, WithoutKeeps
<1>4. /\ decoding' = decoding \ ids /\ DOMAIN segs' = DOMAIN segs \ ids
      /\ DOMAIN meta' = Live \ ids /\ \A c \in DOMAIN meta' : meta'[c] = meta[c]
  BY DEF Forget, Restrict, Live
<1>5. DOMAIN estimates' \subseteq Live \ ids
  BY DEF Forget, EstimatesWithout, Restrict, Inv, TablesOK
<1> QED BY <1>1, <1>3, <1>4, <1>5

LEMMA LeavingTables ==
  ASSUME Inv, NEW ids, Leaves(ids), StepsOn(ids)
  PROVE  RecordsOK' /\ TablesOK' /\ Accepted' = Accepted /\ Live' = Live \ ids
<1>1. Accepted' = Accepted BY DEF Leaves, Accepted
<1>2. Live' = Live \ ids BY LeavingQueue DEF Leaves, Live
<1>3. \A c \in Accepted \ ids : reqs'[c] = reqs[c] BY DEF Leaves
<1>4. ids \subseteq Live /\ Live \subseteq Accepted BY DEF Leaves, Inv, Shape
<1>5. RecordsOK'
  <2> SUFFICES ASSUME NEW c \in Accepted PROVE IF c \in Live' THEN LiveOK(c)' ELSE DeadOK(c)'
    BY <1>1 DEF RecordsOK
  <2>1. IF c \in Live THEN LiveOK(c) ELSE DeadOK(c) BY DEF Inv, RecordsOK
  <2>2. CASE c \in ids BY <1>2, <2>2 DEF DeadOK, Leaves
  <2>3. CASE c \notin ids BY <1>2, <1>3, <2>1, <2>3 DEF DeadOK, LiveOK
  <2> QED BY <2>2, <2>3
<1>6. Queued' = Queued \ ids BY <1>2, <1>3, <1>4 DEF Queued
<1>7. TablesOK'
  <2>1. waiting' \in Seq(Client) /\ Distinct(waiting') /\ Among(waiting') = Queued \ ids
    BY LeavingQueue DEF Leaves
  <2>2. DOMAIN waiting' = 1..Len(waiting') /\ Range(waiting') = Queued' BY <1>6, <2>1, SeqFacts
  <2>3. /\ decoding' = decoding \ ids /\ DOMAIN segs' = DOMAIN segs \ ids
        /\ DOMAIN estimates' \subseteq Live \ ids
    BY LeavingQueue DEF Leaves
  <2>4. decoding' = Live' \ Queued' BY <1>2, <1>6, <2>3 DEF Inv, TablesOK
  <2>5. DOMAIN segs' = {c \in Live' : reqs'[c].st \in {"Chunked", "Decode"}}
    BY <1>2, <1>3, <1>4, <2>3 DEF Inv, TablesOK
  <2>6. batch' \subseteq decoding' BY <2>3 DEF StepsOn, Inv, TablesOK
  <2>7. pc' \in {"cmds", "prefill", "stopped"} => batch' = {} BY DEF StepsOn
  <2> QED BY <1>2, <2>1, <2>2, <2>3, <2>4, <2>5, <2>6, <2>7 DEF TablesOK, Distinct
<1> QED BY <1>1, <1>2, <1>5, <1>7

Held == {c \in Accepted : ~Terminal(reqs[c])}

LEMMA LedgerIs ==
  /\ LedgerBalanced <=> ledger.dispatched - ledger.returned = DeviceOf(reqs, Held)
  /\ LedgerBalanced' <=> ledger'.dispatched - ledger'.returned = DeviceOf(reqs', Held')
BY DEF LedgerBalanced, Device, Held

LEMMA HeldFacts ==
  ASSUME Inv
  PROVE  /\ IsFiniteSet(Held) /\ Live \subseteq Held /\ Held \subseteq Accepted
         /\ \A c \in Accepted : reqs[c].device \in Nat
         /\ \A c \in Held \ Live : reqs[c].device = 0
<1>1. Shape BY DEF Inv
<1>2. IsFiniteSet(Accepted) /\ \A c \in Accepted : reqs[c] \in Request BY <1>1, Views
<1>3. \A c \in Accepted : reqs[c].device \in Nat BY <1>2, RequestFields
<1>4. IsFiniteSet(Held) /\ Held \subseteq Accepted BY <1>2, FS_Subset DEF Held
<1>5. Live \subseteq Held BY <1>1 DEF Inv, RecordsOK, LiveOK, Terminal, Held, Shape
<1>6. \A c \in Held \ Live : reqs[c].device = 0 BY <1>1 DEF Inv, RecordsOK, DeadOK, Held
<1> QED BY <1>3, <1>4, <1>5, <1>6

\* Tokens dispatched and returned, when the sums of what is held differ as they do.
LEMMA LedgerMoves ==
  ASSUME Inv, ledger' \in [dispatched : Nat, returned : Nat],
         NEW d \in Int, DeviceOf(reqs', Held') = DeviceOf(reqs, Held) + d,
         ledger'.dispatched - ledger'.returned = ledger.dispatched - ledger.returned + d
  PROVE  LedgerBalanced'
<1>1. ledger.dispatched \in Nat /\ ledger.returned \in Nat BY DEF Inv, Shape
<1>2. ledger.dispatched - ledger.returned = DeviceOf(reqs, Held) BY LedgerIs DEF Inv
<1>3. ledger'.dispatched - ledger'.returned = DeviceOf(reqs', Held') BY <1>1, <1>2
<1> QED BY <1>3, LedgerIs

LEMMA LeavingLedger ==
  ASSUME Inv, NEW ids, Leaves(ids), Settles(ids)
  PROVE  LedgerBalanced'
<1>1. /\ IsFiniteSet(Held) /\ Live \subseteq Held /\ Held \subseteq Accepted
      /\ \A c \in Held : reqs[c].device \in Nat
  BY HeldFacts
<1>2. Held' = Held \ ids BY <1>1 DEF Leaves, Held, Accepted
<1>3. /\ IsFiniteSet(Held') /\ Held \ ids = Held' \ ids
      /\ \A c \in Held' : reqs'[c].device = reqs[c].device /\ reqs'[c].device \in Nat
  BY <1>1, <1>2, FS_Subset DEF Leaves
<1>4. DeviceOf(reqs', Held') - DeviceOf(reqs', Held' \intersect ids)
        = DeviceOf(reqs, Held) - DeviceOf(reqs, Held \intersect ids)
  <2>1. Moves(reqs, Held, reqs', Held', ids) BY <1>1, <1>2, <1>3 DEF Moves
  <2> QED BY <2>1, DeviceMoves DEF MovesBy
<1>5. Held' \intersect ids = {} /\ Held \intersect ids = ids BY <1>1, <1>2 DEF Leaves
<1>6. DeviceOf(reqs', {}) = 0 BY DeviceNone
<1>7. /\ DeviceOf(reqs, Held) \in Nat /\ DeviceOf(reqs', Held') \in Nat
      /\ DeviceOf(reqs, ids) \in Nat
  <2>1. IsFiniteSet(ids) /\ ids \subseteq Held BY <1>1, FS_Subset DEF Leaves
  <2> QED BY <1>1, <1>3, <2>1, DeviceType
<1>8. PICK a \in Nat, b \in Nat, e \in Nat :
        a = DeviceOf(reqs, Held) /\ b = DeviceOf(reqs', Held') /\ e = DeviceOf(reqs, ids)
  BY <1>7
<1>9. b = a + (0 - e)
  <2>1. b - 0 = a - e BY <1>4, <1>5, <1>6, <1>8
  <2> QED BY <1>8, <2>1
<1>10. PICK u \in Nat, v \in Nat : u = ledger.dispatched /\ v = ledger.returned
  BY DEF Inv, Shape
<1>11. /\ ledger' \in [dispatched : Nat, returned : Nat]
       /\ ledger'.dispatched - ledger'.returned = u - v - e
  BY <1>8, <1>10 DEF Settles
<1>12. ledger'.dispatched - ledger'.returned = ledger.dispatched - ledger.returned + (0 - e)
  BY <1>10, <1>11
<1>13. 0 - e \in Int /\ DeviceOf(reqs', Held') = DeviceOf(reqs, Held) + (0 - e) BY <1>8, <1>9
<1> QED BY <1>11, <1>12, <1>13, LedgerMoves

\* The plan left after the first assignment, when only its request changes.
LEMMA PlanTail ==
  ASSUME Inv, plan # <<>>, plan' = Tail(plan), pc' = "prefill", NEW c, c = Head(plan).id,
         Queued \ {c} \subseteq Queued', \A d \in Queued \ {c} : reqs'[d] = reqs[d]
  PROVE  PlanOK' /\ plan' \in Seq(Jobs)
<1>1. plan \in Seq(Jobs) /\ DOMAIN plan = 1..Len(plan) /\ Len(plan) \in Nat
  BY Views DEF Inv, Shape
<1>2. PICK n \in Nat : n = Len(plan) BY <1>1
<1>3. /\ plan' \in Seq(Jobs) /\ Len(plan') = n - 1 /\ Head(plan) = plan[1] /\ n # 0
      /\ \A i \in 1..(n - 1) : plan'[i] = plan[i + 1] /\ i + 1 \in 1..n /\ i + 1 # 1
  BY <1>1, <1>2, TailFacts
<1>4. DOMAIN plan' = 1..(n - 1) /\ 1 \in 1..n BY <1>2, <1>3
<1>5. /\ \A i, j \in 1..n : plan[i].id = plan[j].id => i = j
      /\ \A i \in 1..n : /\ plan[i].id \in Queued /\ plan[i].start = reqs[plan[i].id].cached
                         /\ plan[i].end <= Len(Prompt[plan[i].id])
  BY <1>1, <1>2 DEF Inv, PlanOK
<1>6. \A i \in 1..(n - 1) : plan'[i].id # c BY <1>3, <1>4, <1>5
<1>7. \A i, j \in 1..(n - 1) : plan'[i].id = plan'[j].id => i = j
  <2> TAKE i, j \in 1..(n - 1)
  <2> HAVE plan'[i].id = plan'[j].id
  <2>1. i + 1 = j + 1 BY <1>3, <1>5
  <2> QED BY <1>2, <2>1
<1>8. \A i \in 1..(n - 1) : /\ plan'[i].id \in Queued'
                            /\ plan'[i].start = reqs'[plan'[i].id].cached
                            /\ plan'[i].end <= Len(Prompt[plan'[i].id])
  BY <1>3, <1>5, <1>6
<1> QED BY <1>3, <1>4, <1>7, <1>8 DEF PlanOK

LEMMA LeavingPlan ==
  ASSUME Inv, NEW ids, Leaves(ids), StepsOn(ids)
  PROVE  PlanOK' /\ plan' \in Seq(Jobs)
<1>1. CASE plan' = <<>> BY <1>1 DEF PlanOK
<1>2. CASE plan # <<>> /\ plan' = Tail(plan) /\ ids = {Head(plan).id} /\ pc' = "prefill"
  <2>1. Queued \ ids \subseteq Queued' /\ \A d \in Queued \ ids : reqs'[d] = reqs[d]
    <3>1. Live' = Live \ ids BY LeavingTables
    <3>2. Live \subseteq Accepted BY DEF Inv, Shape
    <3> QED BY <3>1, <3>2 DEF Queued, Leaves
  <2> QED BY <1>2, <2>1, PlanTail
<1> QED BY <1>1, <1>2 DEF StepsOn

LEMMA LeavingCmds ==
  ASSUME Inv, NEW ids, Leaves(ids), Told(ids), StepsOn(ids)
  PROVE  CmdsOK' /\ cmds' \in Seq(Cmds)
<1>1. cmds \in Seq(Cmds) /\ DOMAIN cmds = 1..Len(cmds) /\ Len(cmds) \in Nat BY Views DEF Inv, Shape
<1>2. /\ submitted' = submitted /\ aborted' = aborted /\ Accepted' = Accepted
      /\ \A c \in Client \ Accepted : chan'[c] = chan[c]
      /\ submitted \subseteq Client /\ Accepted \subseteq submitted
  BY DEF Leaves, Told, Accepted, clients, Inv, Shape
<1>3. CASE cmds' = cmds BY <1>1, <1>2, <1>3 DEF Inv, CmdsOK
<1>4. CASE cmds # <<>> /\ cmds' = Tail(cmds)
  <2>1. PICK n \in Nat : n = Len(cmds) BY <1>1
  <2>2. /\ cmds' \in Seq(Cmds) /\ Len(cmds') = n - 1 /\ n # 0
        /\ \A i \in 1..(n - 1) : cmds'[i] = cmds[i + 1] /\ i + 1 \in 1..n
    BY <1>1, <1>4, <2>1, TailFacts
  <2>3. DOMAIN cmds' = 1..(n - 1) BY <2>1, <2>2
  <2>4. /\ \A i \in 1..n :
             /\ cmds[i].op = "submit" => cmds[i].id \in submitted \ Accepted /\ chan[cmds[i].id] = <<>>
             /\ cmds[i].op = "abort" => cmds[i].id \in aborted
        /\ \A i, j \in 1..n :
             cmds[i].op = "submit" /\ cmds[j].op = "submit" /\ cmds[i].id = cmds[j].id => i = j
        /\ \A c \in Client \ submitted : chan[c] = <<>>
    BY <1>1, <2>1 DEF Inv, CmdsOK
  <2>5. \A i \in 1..(n - 1) :
          /\ cmds'[i].op = "submit" => /\ cmds'[i].id \in submitted' \ Accepted'
                                       /\ chan'[cmds'[i].id] = <<>>
          /\ cmds'[i].op = "abort" => cmds'[i].id \in aborted'
    BY <1>2, <2>2, <2>4
  <2>6. \A i, j \in 1..(n - 1) :
          cmds'[i].op = "submit" /\ cmds'[j].op = "submit" /\ cmds'[i].id = cmds'[j].id => i = j
    <3> TAKE i, j \in 1..(n - 1)
    <3> HAVE cmds'[i].op = "submit" /\ cmds'[j].op = "submit" /\ cmds'[i].id = cmds'[j].id
    <3>1. i + 1 = j + 1 BY <2>2, <2>4
    <3> QED BY <2>1, <3>1
  <2>7. \A c \in Client \ submitted' : chan'[c] = <<>> BY <1>2, <2>4
  <2> QED BY <2>2, <2>3, <2>5, <2>6, <2>7 DEF CmdsOK
<1> QED BY <1>1, <1>3, <1>4 DEF StepsOn

LEMMA LeavingFrames ==
  ASSUME Inv, NEW ids, Leaves(ids), Told(ids), StepsOn(ids)
  PROVE  FramesOK' /\ chan' \in [Client -> Seq(Frames)]
<1>1. /\ Accepted' = Accepted /\ Live' = Live \ ids /\ gone' = gone /\ aborted' = aborted
      /\ ids \subseteq Live /\ Live \subseteq Client /\ Accepted \subseteq Client
      /\ \A c \in Live \ ids : meta'[c] = meta[c]
  BY LeavingTables, LeavingQueue DEF Leaves, clients, Inv, Shape, Live
<1>2. \A c \in Client : chan[c] \in Seq(Frames) BY DEF Inv, Shape
<1>3. \A c \in Client : \/ chan'[c] = chan[c] /\ (c \in ids => c \in aborted \union gone)
                        \/ c \in ids /\ Ended(chan[c], chan'[c])
  BY DEF Told
<1>4. ASSUME NEW c \in ids, Ended(chan[c], chan'[c])
      PROVE  /\ chan'[c] \in Seq(Frames) /\ Terminals(c)' = {Len(chan'[c])}
             /\ chan'[c][Len(chan'[c])].kind = "done" => chan'[c][Len(chan'[c])].n = Len(chan'[c]) - 1
  <2>1. \A i \in DOMAIN chan[c] : chan[c][i].kind = "token" BY <1>1 DEF Inv, FramesOK, TokensOnly
  <2>2. chan[c] \in Seq(Frames) BY <1>1, <1>2
  <2>3. PICK gs : gs = chan'[c] OBVIOUS
  <2>4. /\ gs \in Seq(Frames) /\ {i \in DOMAIN gs : gs[i].kind # "token"} = {Len(gs)}
        /\ gs[Len(gs)].kind = "done" => gs[Len(gs)].n = Len(gs) - 1
    BY <1>4, <2>1, <2>2, <2>3, FinalFrame
  <2>5. Terminals(c)' = {i \in DOMAIN gs : gs[i].kind # "token"} BY <2>3 DEF Terminals
  <2> QED BY <2>3, <2>4, <2>5
<1>5. \A c \in Live' : TokensOnly(c)'
  <2> TAKE c \in Live'
  <2>1. chan'[c] = chan[c] /\ meta'[c] = meta[c] /\ c \in Live BY <1>1, <1>3
  <2>2. TokensOnly(c) BY <2>1 DEF Inv, FramesOK
  <2> QED BY <1>1, <2>1, <2>2 DEF TokensOnly
<1>6. \A c \in Client : EndsRight(c)'
  <2> TAKE c \in Client
  <2>1. CASE chan'[c] = chan[c]
    <3>1. EndsRight(c) BY DEF Inv, FramesOK
    <3> QED BY <2>1, <3>1 DEF EndsRight, Terminals
  <2>2. CASE c \in ids /\ Ended(chan[c], chan'[c]) BY <1>4, <2>2 DEF EndsRight
  <2> QED BY <1>3, <2>1, <2>2
<1>7. \A c \in Accepted' \ Live' : Terminals(c)' # {} \/ c \in aborted' \union gone'
  <2> TAKE c \in Accepted' \ Live'
  <2>1. CASE c \in ids /\ Ended(chan[c], chan'[c]) BY <1>4, <2>1
  <2>2. CASE chan'[c] = chan[c] /\ (c \in ids => c \in aborted \union gone)
    <3>1. c \notin ids => Terminals(c) # {} \/ c \in aborted \union gone
      BY <1>1 DEF Inv, FramesOK
    <3>2. Terminals(c)' = Terminals(c) BY <2>2 DEF Terminals
    <3> QED BY <1>1, <2>2, <3>1, <3>2
  <2> QED BY <1>1, <1>3, <2>1, <2>2
<1>8. chan' \in [Client -> Seq(Frames)]
  <2>1. chan' = [c \in Client |-> chan'[c]] BY DEF Told
  <2>2. \A c \in Client : chan'[c] \in Seq(Frames) BY <1>2, <1>3, <1>4
  <2> QED BY <2>1, <2>2
<1> QED BY <1>5, <1>6, <1>7, <1>8 DEF FramesOK

LEMMA LeavingKeeps == ASSUME Inv, NEW ids, Leaving(ids) PROVE Inv'
<1>1. Leaves(ids) /\ Told(ids) /\ StepsOn(ids) /\ Settles(ids) BY DEF Leaving
<1>2. RecordsOK' /\ TablesOK' /\ Accepted' = Accepted /\ Live' = Live \ ids
  BY <1>1, LeavingTables
<1>3. waiting' \in Seq(Client) /\ \A c \in DOMAIN meta' : meta'[c] = meta[c]
  BY <1>1, LeavingQueue DEF Leaves
<1>4. Shape'
  <2>1. cmds' \in Seq(Cmds) BY <1>1, LeavingCmds
  <2>2. chan' \in [Client -> Seq(Frames)] BY <1>1, LeavingFrames
  <2>3. plan' \in Seq(Jobs) BY <1>1, LeavingPlan
  <2>4. /\ submitted' = submitted /\ arrivals' = arrivals /\ reqs' \in [Accepted -> Request]
    BY <1>1 DEF Leaves, clients
  <2>5. Live' \subseteq Accepted' BY <1>2 DEF Inv, Shape
  <2>6. \A c \in Live' : /\ meta'[c] = [gen |-> meta'[c].gen, cur |-> meta'[c].cur]
                         /\ meta'[c].gen \in Seq(Vocab)
    BY <1>2, <1>3 DEF Inv, Shape, Live
  <2>7. ledger' \in [dispatched : Nat, returned : Nat] BY <1>1 DEF Settles
  <2>8. pc' \in Points /\ faults' \in 0 .. MaxFaults BY <1>1 DEF StepsOn
  <2>9. /\ submitted \subseteq Client /\ Accepted \subseteq submitted /\ arrivals \in Seq(Accepted)
        /\ Range(arrivals) = Accepted
        /\ \A i, j \in DOMAIN arrivals : arrivals[i] = arrivals[j] => i = j
    BY DEF Inv, Shape
  <2> HIDE DEF Inv
  <2> QED BY <1>2, <1>3, <2>1, <2>2, <2>3, <2>4, <2>5, <2>6, <2>7, <2>8, <2>9 DEF Shape
<1> QED BY <1>1, <1>2, <1>4, LeavingPlan, LeavingCmds, LeavingFrames, LeavingLedger DEF Inv

LEMMA AbortLeaves ==
  ASSUME Inv, NEW ids \in SUBSET Live, NEW rs \in [Accepted -> Request],
         \A c \in Accepted \ ids : rs[c] = reqs[c],
         AbortReqs(ids, rs), UNCHANGED <<arrivals, clients>>
  PROVE  Leaves(ids)
<1>1. reqs' = [c \in Accepted |-> IF c \in ids THEN Abort(rs[c]) ELSE rs[c]]
  BY DEF AbortReqs
<1>2. \A c \in Accepted : rs[c] \in Request OBVIOUS
<1>3. \A c \in Accepted : Abort(rs[c]) \in Request /\ Terminal(Abort(rs[c])) BY <1>2, AbortFields
<1>4. reqs' \in [Accepted -> Request] BY <1>1, <1>2, <1>3
<1>5. \A c \in Accepted : IF c \in ids THEN Terminal(reqs'[c]) ELSE reqs'[c] = reqs[c]
  BY <1>1, <1>3
<1> QED BY <1>4, <1>5 DEF AbortReqs, Leaves

LEMMA SendTold ==
  ASSUME Inv, NEW ids \in SUBSET Live, NEW kind, NEW n, chan' = Send(ids, Frame(kind, n)),
         \A c \in ids \ gone : Final(chan[c], Frame(kind, n))
  PROVE  Told(ids)
<1>1. chan' = [c \in Client |-> IF c \in ids \ gone THEN Append(chan[c], Frame(kind, n)) ELSE chan[c]]
  BY DEF Send
<1>2. chan' = [c \in Client |-> chan'[c]] BY <1>1
<1>3. \A c \in Client : \/ chan'[c] = chan[c] /\ (c \in ids => c \in aborted \union gone)
                        \/ c \in ids /\ Ended(chan[c], chan'[c])
  <2> TAKE c \in Client
  <2>1. CASE c \in ids \ gone
    <3>1. chan'[c] = Append(chan[c], Frame(kind, n)) BY <1>1, <2>1
    <3> QED BY <2>1, <3>1 DEF Ended
  <2>2. CASE c \notin ids \ gone
    <3>1. chan'[c] = chan[c] BY <1>1, <2>2
    <3> QED BY <2>2, <3>1
  <2> QED BY <2>1, <2>2
<1> QED BY <1>2, <1>3 DEF Told

LEMMA ErrorTold ==
  ASSUME Inv, NEW ids \in SUBSET Live, chan' = SendError(ids)
  PROVE  Told(ids)
<1>1. \A fs : Final(fs, Frame("error", 0)) BY DEF Final, Frame, Frames
<1> QED BY <1>1, SendTold DEF SendError

\* The tokens of those that leave are returned, with what was dispatched last.
LEMMA LeavingSettles ==
  ASSUME Inv, NEW ids \in SUBSET Live, NEW d \in Nat, NEW r \in Nat,
         r = DeviceOf(reqs, ids) + d,
         ledger' = [dispatched |-> ledger.dispatched + d, returned |-> ledger.returned + r]
  PROVE  Settles(ids)
<1>1. PICK u \in Nat, v \in Nat : u = ledger.dispatched /\ v = ledger.returned
  BY DEF Inv, Shape
<1>2. DeviceOf(reqs, ids) \in Nat
  <2>1. IsFiniteSet(Accepted) /\ ids \subseteq Accepted BY Views DEF Inv, Shape
  <2>2. IsFiniteSet(ids) BY <2>1, FS_Subset
  <2>3. \A c \in ids : reqs[c].device \in Nat BY <2>1, HeldFacts
  <2> QED BY <2>2, <2>3, DeviceType
<1>3. PICK e \in Nat : e = DeviceOf(reqs, ids) BY <1>2
<1>4. ledger'.dispatched = u + d /\ ledger'.returned = v + (e + d) BY <1>1, <1>3
<1>5. ledger' \in [dispatched : Nat, returned : Nat] BY <1>1
<1>6. ledger'.dispatched - ledger'.returned = u - v - e BY <1>3, <1>4
<1> QED BY <1>1, <1>3, <1>5, <1>6 DEF Settles

LEMMA ReturnedSettles ==
  ASSUME Inv, NEW ids \in SUBSET Live, Returned(DeviceOf(reqs, ids))
  PROVE  Settles(ids)
<1>1. ledger \in [dispatched : Nat, returned : Nat] BY DEF Inv, Shape
<1>2. PICK r : r = DeviceOf(reqs, ids) OBVIOUS
<1>3. r \in Nat
  <2>1. IsFiniteSet(Accepted) /\ ids \subseteq Accepted BY Views DEF Inv, Shape
  <2>2. IsFiniteSet(ids) BY <2>1, FS_Subset
  <2>3. \A c \in ids : reqs[c].device \in Nat BY <2>1, HeldFacts
  <2> QED BY <1>2, <2>2, <2>3, DeviceType
<1>4. ledger' = [dispatched |-> ledger.dispatched + 0, returned |-> ledger.returned + r]
  <2>1. ledger' = [ledger EXCEPT !.returned = @ + r] BY <1>2 DEF Returned
  <2> QED BY <1>1, <2>1
<1>5. r = DeviceOf(reqs, ids) + 0 BY <1>2, <1>3
<1>6. 0 \in Nat OBVIOUS
<1> HIDE DEF Inv
<1> QED BY <1>3, <1>4, <1>5, <1>6, LeavingSettles

LEMMA AlignFacts ==
  ASSUME NEW end \in Nat, NEW len \in Nat
  PROVE  AlignChunkEnd(end, len) \in Nat /\ AlignChunkEnd(end, len) <= len
<1>1. Block \in Nat \ {0} BY ConfigAssumption
<1>2. (end \div Block) * Block \in Nat /\ (end \div Block) * Block <= end BY <1>1
<1> QED BY <1>2 DEF AlignChunkEnd

LEMMA JobFacts ==
  ASSUME Inv, pc = "prefill", plan # <<>>
  PROVE  /\ Job \in Jobs /\ Job.id \in Queued /\ Job.id \in Live /\ Job.id \in Accepted
         /\ Job.start = reqs[Job.id].device /\ Job.start = reqs[Job.id].cached
         /\ JobEnd \in Nat /\ JobEnd <= Len(Prompt[Job.id])
         /\ reqs[Job.id].st \in {"Waiting", "Chunked", "Preempted"}
         /\ Starting => Job.start = 0
<1>1. plan \in Seq(Jobs) /\ DOMAIN plan = 1..Len(plan) BY Views DEF Inv, Shape
<1>2. Job = plan[1] /\ Job \in Jobs /\ 1 \in DOMAIN plan BY <1>1, TailFacts DEF Job
<1>3. /\ Job.id \in Queued /\ Job.start = reqs[Job.id].cached
  BY <1>2 DEF Inv, PlanOK
<1>4. Job.id \in Live /\ Job.id \in Accepted /\ reqs[Job.id].st # "Decode"
  BY <1>3 DEF Queued, Inv, Shape
<1>5. LiveOK(Job.id) BY <1>4 DEF Inv, RecordsOK
<1>6. JobEnd \in Nat /\ JobEnd <= Len(Prompt[Job.id])
  <2>1. Job.end \in Nat /\ Len(Prompt[Job.id]) \in Nat BY <1>2, LoopAssumption DEF Jobs
  <2> QED BY <2>1, AlignFacts DEF JobEnd
<1> QED BY <1>2, <1>3, <1>4, <1>5, <1>6 DEF LiveOK, Starting

\* The request of a job that runs has the chunk in flight.
LEMMA JobReqFacts ==
  ASSUME Inv, pc = "prefill", plan # <<>>, JobEnd > Job.start
  PROVE  /\ JobReq \in Request /\ JobReq.device = JobEnd
         /\ JobReq.prompt <= Len(Prompt[Job.id])
         /\ JobReq.st \in {"Chunked", "Prefill"}
         /\ JobReq.st = "Prefill" => JobReq.device >= JobReq.prompt
         /\ Confirm(JobReq) \in Request /\ Confirm(JobReq).device = JobEnd
         /\ Confirm(JobReq).cached = JobEnd /\ Confirm(JobReq).prompt <= Len(Prompt[Job.id])
         /\ Confirm(JobReq).st \in {"Chunked", "Decode"}
<1> DEFINE len == Len(Prompt[Job.id])
<1>1. /\ Job \in Jobs /\ Job.id \in Accepted /\ reqs[Job.id] \in Request
      /\ Job.start = reqs[Job.id].cached /\ JobEnd \in Nat /\ JobEnd <= len
      /\ reqs[Job.id].st \in {"Waiting", "Chunked", "Preempted"}
      /\ Starting => Job.start = 0
      /\ len \in Nat /\ MaxTokens[Job.id] \in Nat
  <2>1. /\ Job \in Jobs /\ Job.id \in Accepted /\ reqs[Job.id] \in Request
        /\ Job.start = reqs[Job.id].cached /\ JobEnd \in Nat /\ JobEnd <= len
        /\ reqs[Job.id].st \in {"Waiting", "Chunked", "Preempted"}
        /\ Starting => Job.start = 0
    BY JobFacts DEF Inv, Shape, Jobs
  <2>2. Job.id \in Client BY <2>1 DEF Inv, Shape
  <2>3. Prompt[Job.id] \in Seq(Nat) /\ MaxTokens[Job.id] \in Nat BY <2>2, LoopAssumption
  <2> QED BY <2>1, <2>3
<1>2. LiveOK(Job.id) BY JobFacts DEF Inv, RecordsOK
<1>3. /\ JobReq \in Request /\ JobReq.device = JobEnd /\ JobReq.prompt <= len
      /\ JobReq.st \in {"Chunked", "Prefill"}
      /\ JobReq.st = "Prefill" => JobReq.device >= JobReq.prompt
  <2>1. PICK r \in Request : r = reqs[Job.id] BY <1>1
  <2>2. PICK e \in Nat, l \in Nat, m \in Nat : e = JobEnd /\ l = len /\ m = MaxTokens[Job.id] BY <1>1
  <2>3. CASE Starting
    <3>1. JobEnd - Job.start = e BY <1>1, <2>2, <2>3
    <3>2. JobReq = StartPrefill(r, l, m, e) BY <2>1, <2>2, <2>3, <3>1 DEF JobReq
    <3>3. /\ StartPrefill(r, l, m, e) \in Request
          /\ StartPrefill(r, l, m, e).prompt = l
          /\ StartPrefill(r, l, m, e).device = IF e < l THEN e ELSE l
          /\ StartPrefill(r, l, m, e).st = IF e < l THEN "Chunked" ELSE "Prefill"
      BY StartPrefillFields
    <3>4. e <= l BY <1>1, <2>2
    <3> QED BY <2>2, <3>2, <3>3, <3>4
  <2>4. CASE ~Starting
    <3>1. JobReq = DispatchChunk(r, e) BY <2>1, <2>2, <2>4 DEF JobReq
    <3>2. /\ DispatchChunk(r, e) \in Request /\ DispatchChunk(r, e).device = e
          /\ DispatchChunk(r, e).st = r.st /\ DispatchChunk(r, e).prompt = r.prompt
      BY DispatchChunkFields
    <3>3. r.st = "Chunked" BY <1>1, <2>1, <2>4 DEF Starting
    <3>4. r.prompt <= len BY <1>2, <2>1 DEF LiveOK
    <3> QED BY <2>2, <3>1, <3>2, <3>3, <3>4
  <2> QED BY <2>3, <2>4
<1>4. /\ Confirm(JobReq) \in Request /\ Confirm(JobReq).cached = JobEnd
      /\ Confirm(JobReq).device = JobEnd /\ Confirm(JobReq).prompt = JobReq.prompt
      /\ Confirm(JobReq).st = IF JobEnd >= JobReq.prompt THEN "Decode" ELSE JobReq.st
  BY <1>3, ConfirmFields
<1> HIDE DEF len
<1>5. Confirm(JobReq).st \in {"Chunked", "Decode"} BY <1>3, <1>4
<1> QED BY <1>3, <1>4, <1>5 DEF len

LEMMA AbortCmdKeeps ==
  ASSUME Inv, pc = "cmds", cmds # <<>>, Head(cmds).op = "abort", NEW c, c = Head(cmds).id,
         c \in Live, AbortCmd(c), UNCHANGED <<chan, pc>>, cmds' = Tail(cmds),
         UNCHANGED <<clients, cache, plan, batch, faults>>
  PROVE  Inv'
<1>1. AbortReqs({c}, reqs) /\ Returned(reqs[c].device) /\ UNCHANGED <<arrivals, clients>>
  BY DEF AbortCmd, Live
<1>2. {c} \in SUBSET Live /\ reqs \in [Accepted -> Request] /\ c \in Accepted
  BY DEF Inv, Shape
<1>3. Leaves({c}) BY <1>1, <1>2, AbortLeaves
<1>4. c \in aborted
  <2>1. cmds \in Seq(Cmds) /\ DOMAIN cmds = 1..Len(cmds) BY Views DEF Inv, Shape
  <2>2. Head(cmds) = cmds[1] /\ 1 \in DOMAIN cmds BY <2>1, TailFacts
  <2> QED BY <2>2 DEF Inv, CmdsOK
<1>5. Told({c})
  <2>1. chan = [d \in Client |-> chan[d]] BY DEF Inv, Shape
  <2> QED BY <1>4, <2>1 DEF Told
<1>6. StepsOn({c}) BY DEF StepsOn, Inv, PlanOK, TablesOK, Shape, Points
<1>7. Settles({c})
  <2>1. reqs[c].device \in Nat BY <1>2, HeldFacts
  <2>2. DeviceOf(reqs, {c}) = reqs[c].device BY <2>1, DeviceOne
  <2>3. Returned(DeviceOf(reqs, {c})) BY <1>1, <2>2 DEF Returned
  <2> QED BY <1>2, <2>3, ReturnedSettles
<1> QED BY <1>3, <1>5, <1>6, <1>7, LeavingKeeps DEF Leaving

LEMMA BatchFailKeeps == ASSUME Inv, DecodeBatchFails PROVE Inv'
<1> DEFINE ids == decoding
<1>1. /\ AbortReqs(ids, reqs) /\ Returned(Device(ids)) /\ UNCHANGED <<arrivals, clients>>
      /\ pc = "prefill" /\ plan = <<>> /\ chan' = SendError(ids)
      /\ cmds' = cmds /\ plan' = plan /\ batch' = batch /\ pc' = "cmds" /\ faults < MaxFaults
      /\ faults' = faults + 1
  BY DEF DecodeBatchFails, DecodeStart, Fails
<1>2. ids \in SUBSET Live /\ reqs \in [Accepted -> Request] BY DEF Inv, Shape, TablesOK
<1>3. Leaves(ids) BY <1>1, <1>2, AbortLeaves
<1>4. Told(ids) BY <1>1, <1>2, ErrorTold
<1>5. faults' \in 0 .. MaxFaults
  <2>1. faults \in 0 .. MaxFaults /\ MaxFaults \in Nat BY LoopAssumption DEF Inv, Shape
  <2> QED BY <1>1, <2>1
<1>6. batch = {} BY <1>1 DEF Inv, TablesOK
<1>7. StepsOn(ids) BY <1>1, <1>5, <1>6 DEF StepsOn, Points
<1>8. Settles(ids) BY <1>1, <1>2, ReturnedSettles DEF Device
<1> QED BY <1>3, <1>4, <1>7, <1>8, LeavingKeeps DEF Leaving

\* What a confirmation of c leaves to say.
LEMMA ConfirmSteps ==
  ASSUME Inv, NEW c, ConfirmOf(c), pc' = "panicked" \/ StepOver, cmds' = cmds,
         faults' \in {faults} \union {f \in {faults + 1} : faults < MaxFaults}
  PROVE  /\ c \in decoding /\ c \in Live /\ c \in Accepted /\ c \in Client /\ {c} \in SUBSET Live
         /\ reqs[c] \in Request /\ reqs[c].st = "Decode" /\ reqs[c].device = reqs[c].cached
         /\ reqs[c].device \in Nat /\ DeviceOf(reqs, {c}) = reqs[c].device
         /\ plan = <<>> /\ plan' = <<>> /\ StepsOn({c})
<1>1. pc = "confirm" /\ c \in batch /\ batch' = batch \ {c} /\ plan' = plan BY DEF ConfirmOf
<1>2. c \in decoding /\ c \in Live /\ c \in Accepted /\ c \in Client /\ {c} \in SUBSET Live
  BY <1>1 DEF Inv, TablesOK, Shape
<1>3. reqs[c].st = "Decode" /\ reqs[c].device = reqs[c].cached
  BY <1>2 DEF Inv, TablesOK, Queued, RecordsOK, LiveOK
<1>4. reqs[c] \in Request /\ reqs[c].device \in Nat BY <1>2, HeldFacts DEF Inv, Shape
<1>5. DeviceOf(reqs, {c}) = reqs[c].device BY <1>4, DeviceOne
<1>6. plan = <<>> /\ plan' = <<>> BY <1>1 DEF Inv, PlanOK
<1>7. faults' \in 0 .. MaxFaults
  <2>1. faults \in 0 .. MaxFaults /\ MaxFaults \in Nat BY LoopAssumption DEF Inv, Shape
  <2> QED BY <2>1
<1>8. StepsOn({c})
  <2>1. pc' \in {"panicked", "confirm"} \/ (pc' = "cmds" /\ batch' = {}) BY DEF StepOver
  <2> QED BY <1>1, <1>6, <1>7, <2>1 DEF StepsOn, Points
<1> QED BY <1>2, <1>3, <1>4, <1>5, <1>6, <1>8

LEMMA SampleFailKeeps == ASSUME Inv, NEW c, SampleFails(c) PROVE Inv'
<1>1. /\ ConfirmOf(c) /\ StepOver /\ chan' = SendError({c}) /\ AbortReqs({c}, reqs)
      /\ Returned(reqs[c].device)
      /\ faults' \in {faults} \union {f \in {faults + 1} : faults < MaxFaults}
      /\ UNCHANGED <<cmds, clients, arrivals>>
  BY DEF SampleFails, Fails, ConfirmOf
<1>2. {c} \in SUBSET Live /\ StepsOn({c}) /\ DeviceOf(reqs, {c}) = reqs[c].device
  BY <1>1, ConfirmSteps
<1>3. Leaves({c})
  <2>1. reqs \in [Accepted -> Request] BY DEF Inv, Shape
  <2> QED BY <1>1, <1>2, <2>1, AbortLeaves
<1>4. Told({c}) BY <1>1, <1>2, ErrorTold
<1>5. Settles({c})
  <2>1. Returned(DeviceOf(reqs, {c})) BY <1>1, <1>2 DEF Returned
  <2> QED BY <1>2, <2>1, ReturnedSettles
<1> QED BY <1>2, <1>3, <1>4, <1>5, LeavingKeeps DEF Leaving

LEMMA EndKeeps ==
  ASSUME Inv, NEW c, NEW kind, Ends(c, kind)
  PROVE  Inv'
<1> DEFINE d == DecodeStep(reqs[c], kind)
<1>1. /\ ConfirmOf(c) /\ DecodeEvent(reqs[c], kind) # "confirmed"
      /\ reqs' = [reqs EXCEPT ![c] = TakeRelease(d)]
      /\ ledger' = [dispatched |-> ledger.dispatched + 1, returned |-> ledger.returned + d.device]
      /\ chan' = Send({c}, Frame("done", Len(meta[c].gen)))
      /\ Forget({c}) /\ Released(c)
      /\ UNCHANGED <<cmds, clients, arrivals>>
  BY DEF Ends, ConfirmOf
<1>2. /\ pc' = "panicked" \/ StepOver
      /\ faults' \in {faults} \union {f \in {faults + 1} : faults < MaxFaults}
  BY <1>1 DEF Released, RefillCopyFails
<1>3. /\ c \in Live /\ c \in Accepted /\ {c} \in SUBSET Live /\ c \in Client
      /\ reqs[c] \in Request /\ reqs[c].device = reqs[c].cached /\ reqs[c].device \in Nat
      /\ DeviceOf(reqs, {c}) = reqs[c].device /\ StepsOn({c})
  BY <1>1, <1>2, ConfirmSteps
<1>4. TakeRelease(d) \in Request /\ Terminal(TakeRelease(d)) /\ d.device = reqs[c].cached + 1
  BY <1>1, <1>3, EndFields
<1> HIDE DEF d
<1>5. Leaves({c})
  <2>1. reqs \in [Accepted -> Request] BY DEF Inv, Shape
  <2>2. reqs' \in [Accepted -> Request] BY <1>1, <1>4, <2>1
  <2>3. \A e \in Accepted : IF e \in {c} THEN Terminal(reqs'[e]) ELSE reqs'[e] = reqs[e]
    BY <1>1, <1>3, <1>4, <2>1
  <2> QED BY <1>1, <1>3, <2>2, <2>3 DEF Leaves
<1>6. Told({c})
  <2>1. TokensOnly(c) /\ meta[c].gen \in Seq(Vocab) /\ chan[c] \in Seq(Frames)
    BY <1>3 DEF Inv, FramesOK, Shape
  <2>2. \A e \in {c} \ gone : Final(chan[e], Frame("done", Len(meta[c].gen)))
    BY <2>1 DEF TokensOnly, Final, Frame, Frames
  <2> QED BY <1>1, <1>3, <2>2, SendTold
<1>7. Settles({c})
  <2>1. 1 \in Nat /\ d.device \in Nat /\ d.device = DeviceOf(reqs, {c}) + 1 BY <1>3, <1>4
  <2> QED BY <1>1, <1>3, <2>1, LeavingSettles
<1> QED BY <1>3, <1>5, <1>6, <1>7, LeavingKeeps DEF Leaving

LEMMA PrefillAbortKeeps ==
  ASSUME Inv, NEW r \in Request, r.device = JobEnd, NEW x, PrefillAborts(r, x),
         faults < MaxFaults, faults' = faults + 1
  PROVE  Inv'
<1> DEFINE c == Job.id
<1>1. /\ pc = "prefill" /\ plan # <<>> /\ JobEnd > Job.start
      /\ chan' = SendError({c}) /\ AbortReqs({c}, WithReq(r))
      /\ ledger' = [dispatched |-> ledger.dispatched + JobEnd - Job.start,
                    returned |-> ledger.returned + r.device]
      /\ plan' = Tail(plan) /\ UNCHANGED <<cmds, clients, arrivals, pc, batch>>
  BY DEF PrefillAborts, PrefillStep, Runnable
<1>2. /\ c \in Live /\ c \in Accepted /\ {c} \in SUBSET Live /\ Job.start = reqs[c].device
      /\ JobEnd \in Nat /\ Job.start \in Nat
  BY <1>1, JobFacts DEF Jobs
<1>3. Leaves({c})
  <2>1. reqs \in [Accepted -> Request] BY DEF Inv, Shape
  <2>2. WithReq(r) \in [Accepted -> Request] /\ \A d \in Accepted \ {c} : WithReq(r)[d] = reqs[d]
    BY <2>1 DEF WithReq
  <2> HIDE DEF c
  <2> QED BY <1>1, <1>2, <2>2, AbortLeaves
<1>4. Told({c}) BY <1>1, <1>2, ErrorTold
<1>5. StepsOn({c})
  <2>1. faults' \in 0 .. MaxFaults
    <3>1. faults \in 0 .. MaxFaults /\ MaxFaults \in Nat BY LoopAssumption DEF Inv, Shape
    <3> QED BY <3>1
  <2>2. batch = {} BY <1>1 DEF Inv, TablesOK
  <2>3. {c} = {Head(plan).id} BY DEF Job
  <2> HIDE DEF c
  <2> QED BY <1>1, <2>1, <2>2, <2>3 DEF StepsOn, Points
<1>6. Settles({c})
  <2>1. PICK s \in Nat, e \in Nat : s = Job.start /\ e = JobEnd BY <1>2
  <2>2. e - s \in Nat BY <1>1, <2>1
  <2>3. DeviceOf(reqs, {c}) = s BY <1>2, <2>1, DeviceOne
  <2>4. PICK u \in Nat : u = ledger.dispatched BY DEF Inv, Shape
  <2>5. u + e - s = u + (e - s) BY <2>1, <2>2, <2>4
  <2>6. ledger' = [dispatched |-> ledger.dispatched + (e - s), returned |-> ledger.returned + e]
    BY <1>1, <2>1, <2>4, <2>5
  <2>7. e = DeviceOf(reqs, {c}) + (e - s) BY <2>1, <2>3
  <2> HIDE DEF c
  <2> QED BY <1>2, <2>1, <2>2, <2>6, <2>7, LeavingSettles
<1> QED BY <1>3, <1>4, <1>5, <1>6, LeavingKeeps DEF Leaving

LEMMA PrefillFailKeeps == ASSUME Inv, PrefillFails PROVE Inv'
<1>1. ASSUME NEW kind, NEW r \in {JobReq, Confirm(JobReq)}, NEW x, Fails(kind), PrefillAborts(r, x)
      PROVE  Inv'
  <2>1. pc = "prefill" /\ plan # <<>> /\ JobEnd > Job.start
    BY <1>1 DEF PrefillAborts, PrefillStep, Runnable
  <2>2. r \in Request /\ r.device = JobEnd BY <1>1, <2>1, JobReqFacts
  <2>3. faults < MaxFaults /\ faults' = faults + 1 BY <1>1 DEF Fails
  <2> QED BY <1>1, <2>2, <2>3, PrefillAbortKeeps
<1>2. CASE Fails("engine") /\ PrefillAborts(JobReq, FlushSingleton(JobExec)) BY <1>1, <1>2
<1>3. CASE Fails("flush") /\ PrefillAborts(JobReq, [JobExec EXCEPT !.single = NoSingle]) BY <1>1, <1>3
<1>4. CASE Fails("place") /\ PrefillAborts(Confirm(JobReq), Staged) BY <1>1, <1>4
<1> QED BY <1>2, <1>3, <1>4 DEF PrefillFails

LEMMA TokenGoneKeeps ==
  ASSUME Inv, NEW c \in gone, NEW token, TokenConfirmed(c, token)
  PROVE  Inv'
<1> DEFINE r == DecodeStep(reqs[c], "token")
           rs == [reqs EXCEPT ![c] = r]
<1>1. /\ ConfirmOf(c) /\ StepOver /\ DecodeEvent(reqs[c], "token") = "confirmed"
      /\ AbortReqs({c}, rs)
      /\ ledger' = [dispatched |-> ledger.dispatched + 1, returned |-> ledger.returned + r.device]
      /\ UNCHANGED <<cmds, clients, arrivals, chan, faults>>
  BY DEF TokenConfirmed, ConfirmOf
<1>2. /\ c \in Live /\ c \in Accepted /\ {c} \in SUBSET Live
      /\ reqs[c] \in Request /\ reqs[c].device = reqs[c].cached /\ reqs[c].device \in Nat
      /\ DeviceOf(reqs, {c}) = reqs[c].device /\ StepsOn({c})
  BY <1>1, ConfirmSteps
<1>3. r \in Request /\ r.device = reqs[c].cached + 1 BY <1>1, <1>2, TokenFields
<1> HIDE DEF r
<1>4. Leaves({c})
  <2>1. reqs \in [Accepted -> Request] BY DEF Inv, Shape
  <2>2. rs \in [Accepted -> Request] /\ \A d \in Accepted \ {c} : rs[d] = reqs[d]
    BY <1>2, <1>3, <2>1
  <2> HIDE DEF rs
  <2> QED BY <1>1, <1>2, <2>2, AbortLeaves
<1>5. Told({c})
  <2>1. chan = [d \in Client |-> chan[d]] BY DEF Inv, Shape
  <2> QED BY <1>1, <2>1 DEF Told
<1>6. Settles({c})
  <2>1. 1 \in Nat /\ r.device \in Nat /\ r.device = DeviceOf(reqs, {c}) + 1 BY <1>2, <1>3
  <2> QED BY <1>1, <1>2, <2>1, LeavingSettles
<1> QED BY <1>2, <1>4, <1>5, <1>6, LeavingKeeps DEF Leaving

-----------------------------------------------------------------------------
(* Requests that go on *)

\* The record of a live request changes from one good state to another.
Moved(c, r) ==
  /\ c \in Live /\ r \in Request
  /\ r.st \in {"Waiting", "Chunked", "Preempted", "Decode"}
  /\ r.device = r.cached /\ r.prompt <= Len(Prompt[c])
  /\ r.st \in {"Waiting", "Preempted"} => r.cached = 0

LEMMA MovedRecords ==
  ASSUME Inv, NEW c, NEW r, Moved(c, r), reqs' = [d \in Accepted |-> IF d = c THEN r ELSE reqs[d]],
         Live' = Live
  PROVE  /\ RecordsOK' /\ Accepted' = Accepted /\ reqs' \in [Accepted -> Request]
         /\ reqs'[c] = r /\ \A d \in Accepted \ {c} : reqs'[d] = reqs[d]
         /\ Held' = Held /\ DeviceOf(reqs', Held') = DeviceOf(reqs, Held) + (r.device - reqs[c].device)
<1>1. /\ Accepted' = Accepted /\ reqs' \in [Accepted -> Request] /\ c \in Accepted
      /\ reqs'[c] = r /\ \A d \in Accepted \ {c} : reqs'[d] = reqs[d]
  BY DEF Moved, Inv, Shape, Accepted
<1>2. RecordsOK'
  <2> SUFFICES ASSUME NEW d \in Accepted PROVE IF d \in Live THEN LiveOK(d)' ELSE DeadOK(d)'
    BY <1>1 DEF RecordsOK
  <2>1. IF d \in Live THEN LiveOK(d) ELSE DeadOK(d) BY DEF Inv, RecordsOK
  <2>2. CASE d = c BY <1>1, <2>2 DEF Moved, LiveOK
  <2>3. CASE d # c
    <3>1. reqs'[d] = reqs[d] BY <1>1, <2>3
    <3> QED BY <2>1, <3>1 DEF DeadOK, LiveOK
  <2> QED BY <2>2, <2>3
<1>3. /\ IsFiniteSet(Held) /\ c \in Held /\ Held \subseteq Accepted
      /\ \A d \in Accepted : reqs[d].device \in Nat
  BY HeldFacts DEF Moved
<1>4. Held' = Held BY <1>1, <1>3 DEF Held, Moved, Terminal
<1>5. r.device \in Nat /\ \A d \in Accepted : reqs'[d].device \in Nat
  BY <1>1, <1>3, RequestFields DEF Moved
<1>6. Moves(reqs, Held, reqs', Held, {c})
  <2>1. \A d \in Held \ {c} : reqs'[d].device = reqs[d].device BY <1>1, <1>3
  <2> QED BY <1>3, <1>5, <2>1 DEF Moves
<1>7. DeviceOf(reqs', Held) - DeviceOf(reqs', {c}) = DeviceOf(reqs, Held) - DeviceOf(reqs, {c})
  <2>1. Held \intersect {c} = {c} BY <1>3
  <2> QED BY <1>6, <2>1, DeviceMoves DEF MovesBy
<1>8. /\ DeviceOf(reqs', {c}) = r.device /\ DeviceOf(reqs, {c}) = reqs[c].device
      /\ reqs[c].device \in Nat
  BY <1>1, <1>3, <1>5, DeviceOne
<1>9. DeviceOf(reqs', Held) \in Nat /\ DeviceOf(reqs, Held) \in Nat
  BY <1>3, <1>5, DeviceType
<1>10. PICK a \in Nat, b \in Nat, e \in Nat, f \in Nat :
         /\ a = DeviceOf(reqs', Held) /\ b = DeviceOf(reqs, Held)
         /\ e = r.device /\ f = reqs[c].device
  BY <1>5, <1>8, <1>9
<1>11. a - e = b - f BY <1>7, <1>8, <1>10
<1>12. a = b + (e - f) BY <1>10, <1>11
<1> QED BY <1>1, <1>2, <1>4, <1>10, <1>12

LEMMA TokenSentKeeps ==
  ASSUME Inv, NEW c, c \notin gone, NEW token \in Vocab, TokenConfirmed(c, token)
  PROVE  Inv'
<1> DEFINE r == DecodeStep(reqs[c], "token")
           gen == Append(meta[c].gen, token)
           sent == Append(chan[c], Frame("token", token))
<1>1. /\ ConfirmOf(c) /\ StepOver /\ DecodeEvent(reqs[c], "token") = "confirmed"
      /\ reqs' = [reqs EXCEPT ![c] = r]
      /\ chan' = Send({c}, Frame("token", token))
      /\ ledger' = [ledger EXCEPT !.dispatched = @ + 1]
      /\ UNCHANGED <<cmds, clients, arrivals, waiting, decoding, segs, estimates, faults>>
  BY DEF TokenConfirmed, ConfirmOf
<1>2. /\ c \in decoding /\ c \in Live /\ c \in Accepted /\ c \in Client
      /\ reqs[c] \in Request /\ reqs[c].st = "Decode" /\ reqs[c].device = reqs[c].cached
      /\ reqs[c].device \in Nat /\ plan' = <<>> /\ StepsOn({c})
  BY <1>1, ConfirmSteps
<1>3. /\ r \in Request /\ r.st = "Decode" /\ r.prompt = reqs[c].prompt
      /\ r.device = reqs[c].device + 1 /\ r.cached = r.device
  BY <1>1, <1>2, TokenFields
<1> HIDE DEF r
<1>4. meta' = [meta EXCEPT ![c] = [gen |-> gen, cur |-> token]] BY <1>1 DEF TokenConfirmed
<1>5. /\ Live' = Live /\ meta'[c] = [gen |-> gen, cur |-> token]
      /\ \A d \in Live \ {c} : meta'[d] = meta[d]
  BY <1>2, <1>4 DEF Live
<1>6. Moved(c, r)
  <2>1. LiveOK(c) BY <1>2 DEF Inv, RecordsOK
  <2> QED BY <1>2, <1>3, <2>1 DEF Moved, LiveOK
<1>7. /\ RecordsOK' /\ Accepted' = Accepted /\ reqs' \in [Accepted -> Request]
      /\ reqs'[c] = r /\ \A d \in Accepted \ {c} : reqs'[d] = reqs[d]
      /\ Held' = Held /\ DeviceOf(reqs', Held') = DeviceOf(reqs, Held) + (r.device - reqs[c].device)
  <2>1. reqs' = [d \in Accepted |-> IF d = c THEN r ELSE reqs[d]] BY <1>1 DEF Inv, Shape
  <2> QED BY <1>5, <1>6, <2>1, MovedRecords
<1>8. TablesOK'
  <2>0. \A d \in Live : reqs'[d].st = reqs[d].st
    <3>1. Live \subseteq Accepted BY DEF Inv, Shape
    <3> QED BY <1>2, <1>3, <1>7, <3>1
  <2>1. Queued' = Queued BY <1>5, <2>0 DEF Queued
  <2>2. DOMAIN segs' = {d \in Live : reqs'[d].st \in {"Chunked", "Decode"}}
    BY <1>1, <2>0 DEF Inv, TablesOK
  <2>3. batch' \subseteq decoding' /\ (pc' \in {"cmds", "prefill", "stopped"} => batch' = {})
    BY <1>1, <1>2 DEF StepsOn, Inv, TablesOK
  <2> QED BY <1>1, <1>5, <2>1, <2>2, <2>3 DEF Inv, TablesOK
<1>9. PlanOK' BY <1>2 DEF PlanOK
<1>10. /\ chan' = [d \in Client |-> IF d = c THEN sent ELSE chan[d]]
       /\ \A d \in Client : chan'[d] = IF d = c THEN sent ELSE chan[d]
  BY <1>1 DEF Send
<1>11. /\ sent \in Seq(Frames) /\ Len(sent) = Len(chan[c]) + 1
       /\ \A i \in DOMAIN sent : sent[i].kind = "token"
       /\ gen \in Seq(Vocab) /\ Len(gen) = Len(meta[c].gen) + 1
       /\ Len(chan[c]) = Len(meta[c].gen)
  <2>1. TokensOnly(c) /\ meta[c].gen \in Seq(Vocab) /\ chan[c] \in Seq(Frames)
    BY <1>2 DEF Inv, FramesOK, Shape
  <2>2. PICK f \in Frames : f = Frame("token", token) BY DEF Frame, Frames
  <2>3. f.kind = "token" BY <2>2 DEF Frame
  <2>4. PICK n \in Nat : n = Len(chan[c]) BY <2>1
  <2>5. PICK s \in Seq(Frames) : s = chan[c] BY <2>1
  <2>6. /\ Append(s, f) \in Seq(Frames) /\ Len(Append(s, f)) = n + 1
        /\ \A i \in 1..n : Append(s, f)[i] = s[i]
        /\ Append(s, f)[n + 1] = f
    BY <2>4, <2>5, AppendProperties
  <2>7. \A i \in 1..n : s[i].kind = "token" BY <2>1, <2>4, <2>5 DEF TokensOnly
  <2>8. \A i \in 1..(n + 1) : i = n + 1 \/ i \in 1..n BY <2>4
  <2>9. sent = Append(s, f) /\ DOMAIN sent = 1..(n + 1) BY <2>2, <2>5, <2>6
  <2>10. gen \in Seq(Vocab) /\ Len(gen) = Len(meta[c].gen) + 1 BY <2>1
  <2> HIDE DEF gen, sent
  <2> QED BY <1>2, <2>1, <2>3, <2>4, <2>6, <2>7, <2>8, <2>9, <2>10 DEF TokensOnly
<1> HIDE DEF gen, sent
<1>12. CmdsOK'
  <2>1. \A d \in Client \ Accepted : chan'[d] = chan[d] BY <1>2, <1>10
  <2>2. submitted' = submitted /\ aborted' = aborted /\ cmds' = cmds BY <1>1 DEF clients
  <2>3. submitted \subseteq Client /\ Accepted \subseteq submitted BY DEF Inv, Shape
  <2> QED BY <1>7, <2>1, <2>2, <2>3 DEF Inv, CmdsOK
<1>13. FramesOK'
  <2>1. gone' = gone /\ aborted' = aborted BY <1>1 DEF clients
  <2>2. TokensOnly(c)' BY <1>2, <1>5, <1>10, <1>11, <2>1 DEF TokensOnly
  <2>3. \A d \in Live \ {c} : TokensOnly(d)'
    <3> TAKE d \in Live \ {c}
    <3>1. chan'[d] = chan[d] /\ meta'[d] = meta[d] /\ TokensOnly(d)
      BY <1>5, <1>10 DEF Inv, FramesOK, Shape
    <3> QED BY <2>1, <3>1 DEF TokensOnly
  <2>4. \A d \in Client \ {c} : Terminals(d)' = Terminals(d) /\ (EndsRight(d) => EndsRight(d)')
    BY <1>10 DEF Terminals, EndsRight
  <2>5. Terminals(c)' = {} BY <1>2, <1>10, <1>11 DEF Terminals
  <2>6. EndsRight(c)' BY <2>5 DEF EndsRight
  <2>7. Accepted \subseteq Client BY DEF Inv, Shape
  <2> QED BY <1>2, <1>5, <1>7, <2>1, <2>2, <2>3, <2>4, <2>6, <2>7 DEF Inv, FramesOK
<1>14. ledger' \in [dispatched : Nat, returned : Nat] /\ LedgerBalanced'
  <2>1. ledger \in [dispatched : Nat, returned : Nat] BY DEF Inv, Shape
  <2>2. PICK u \in Nat, v \in Nat : u = ledger.dispatched /\ v = ledger.returned BY <2>1
  <2>3. ledger' = [dispatched |-> u + 1, returned |-> v] BY <1>1, <2>1, <2>2
  <2>4. ledger' \in [dispatched : Nat, returned : Nat] BY <2>3
  <2>5. ledger'.dispatched - ledger'.returned = ledger.dispatched - ledger.returned + 1
    BY <2>2, <2>3
  <2>6. r.device - reqs[c].device = 1 BY <1>2, <1>3
  <2>7. 1 \in Int /\ DeviceOf(reqs', Held') = DeviceOf(reqs, Held) + 1 BY <1>7, <2>6
  <2> QED BY <2>4, <2>5, <2>7, LedgerMoves
<1>15. Shape'
  <2>1. chan' \in [Client -> Seq(Frames)] BY <1>10, <1>11 DEF Inv, Shape
  <2>2. \A d \in Live : /\ meta'[d] = [gen |-> meta'[d].gen, cur |-> meta'[d].cur]
                        /\ meta'[d].gen \in Seq(Vocab)
    <3> TAKE d \in Live
    <3>1. CASE d = c
      <4>1. meta'[d].gen = gen /\ meta'[d].cur = token BY <1>5, <3>1
      <4> QED BY <1>5, <1>11, <3>1, <4>1
    <3>2. CASE d # c
      <4>1. meta'[d] = meta[d] BY <1>5, <3>2
      <4> QED BY <4>1 DEF Inv, Shape
    <3> QED BY <3>1, <3>2
  <2>3. pc' \in Points /\ faults' \in 0 .. MaxFaults /\ plan' \in Seq(Jobs)
    BY <1>2 DEF StepsOn
  <2>4. UNCHANGED <<cmds, submitted, arrivals, waiting>> BY <1>1 DEF clients
  <2> QED BY <1>5, <1>7, <1>14, <2>1, <2>2, <2>3, <2>4 DEF Inv, Shape
<1> QED BY <1>7, <1>8, <1>9, <1>12, <1>13, <1>14, <1>15 DEF Inv

LEMMA PutOffKeeps == ASSUME Inv, PrefillPutOff PROVE Inv'
<1>1. /\ pc = "prefill" /\ plan # <<>> /\ plan' = Tail(plan) /\ pc' = pc /\ batch' = batch
      /\ UNCHANGED <<cmds, clients, chan, arrivals, reqs, meta, waiting, decoding, segs>>
      /\ UNCHANGED <<estimates, ledger, faults>>
  BY DEF PrefillPutOff, PrefillStep
<1>2. Live' = Live /\ Queued' = Queued /\ Accepted' = Accepted BY <1>1 DEF Queued, Live, Accepted
<1>3. PlanOK' /\ plan' \in Seq(Jobs) BY <1>1, <1>2, PlanTail
<1>4. Shape' BY <1>1, <1>2, <1>3 DEF Inv, Shape, clients
<1>5. RecordsOK' BY <1>1, <1>2 DEF Inv, RecordsOK, LiveOK, DeadOK
<1>6. TablesOK' BY <1>1, <1>2 DEF Inv, TablesOK
<1>7. CmdsOK' BY <1>1, <1>2 DEF Inv, CmdsOK, clients
<1>8. FramesOK' BY <1>1, <1>2 DEF Inv, FramesOK, clients, TokensOnly, EndsRight, Terminals
<1>9. LedgerBalanced'
  <2>1. Held' = Held BY <1>1, <1>2 DEF Held
  <2> QED BY <1>1, <2>1, LedgerIs DEF Inv
<1> QED BY <1>3, <1>4, <1>5, <1>6, <1>7, <1>8, <1>9 DEF Inv

LEMMA PrefillConfirmKeeps == ASSUME Inv, PrefillConfirmed PROVE Inv'
<1> DEFINE r == Confirm(JobReq)
<1>0. PICK c : c = Job.id OBVIOUS
<1>1. /\ pc = "prefill" /\ plan # <<>> /\ plan' = Tail(plan) /\ pc' = pc /\ batch' = batch
      /\ JobEnd > Job.start
      /\ reqs' = [d \in DOMAIN reqs |-> IF d = c THEN r ELSE reqs[d]]
      /\ DOMAIN segs' = DOMAIN segs \union {c}
      /\ ledger' = [ledger EXCEPT !.dispatched = @ + JobEnd - Job.start]
      /\ UNCHANGED <<cmds, clients, arrivals, chan, estimates, faults>>
  BY <1>0 DEF PrefillConfirmed, PrefillStep, Runnable, WithReq, WithSeg
<1>2. IF r.st = "Decode"
      THEN /\ decoding' = decoding \union {c}
           /\ waiting' = RemoveFromWaiting({c})
           /\ meta' = [meta EXCEPT ![c].cur = Last(Prompt[c])]
      ELSE UNCHANGED <<decoding, waiting, meta>>
  BY <1>0 DEF PrefillConfirmed
<1>3. /\ c \in Queued /\ c \in Live /\ c \in Accepted /\ c = Head(plan).id
      /\ Job.start = reqs[c].device /\ JobEnd \in Nat /\ Job.start \in Nat
  BY <1>0, <1>1, JobFacts DEF Jobs, Job
<1>4. /\ r \in Request /\ r.device = JobEnd /\ r.cached = JobEnd
      /\ r.prompt <= Len(Prompt[c]) /\ r.st \in {"Chunked", "Decode"}
  BY <1>0, <1>1, JobReqFacts
<1> HIDE DEF r
<1>5. Live' = Live /\ \A d \in Live : meta'[d].gen = meta[d].gen
      /\ meta'[d] = [gen |-> meta'[d].gen, cur |-> meta'[d].cur]
  <2>1. CASE r.st # "Decode"
    <3>1. meta' = meta BY <1>2, <2>1
    <3> QED BY <3>1 DEF Inv, Shape, Live
  <2>2. CASE r.st = "Decode"
    <3>1. PICK tok : tok = Last(Prompt[c]) OBVIOUS
    <3>2. meta' = [meta EXCEPT ![c] = [meta[c] EXCEPT !.cur = tok]] BY <1>2, <2>2, <3>1
    <3>3. meta[c] = [gen |-> meta[c].gen, cur |-> meta[c].cur] BY <1>3 DEF Inv, Shape
    <3>4. [meta[c] EXCEPT !.cur = tok] = [gen |-> meta[c].gen, cur |-> tok] BY <3>3
    <3>5. /\ DOMAIN meta' = DOMAIN meta /\ meta'[c] = [gen |-> meta[c].gen, cur |-> tok]
          /\ \A d \in DOMAIN meta \ {c} : meta'[d] = meta[d]
      BY <1>3, <3>2, <3>4 DEF Live
    <3>6. ASSUME NEW d \in Live
          PROVE  meta'[d].gen = meta[d].gen /\ meta'[d] = [gen |-> meta'[d].gen, cur |-> meta'[d].cur]
      <4>1. CASE d = c
        <5>1. meta'[d].gen = meta[c].gen /\ meta'[d].cur = tok BY <3>5, <4>1
        <5> QED BY <3>5, <4>1, <5>1
      <4>2. CASE d # c
        <5>1. meta'[d] = meta[d] BY <3>5, <4>2 DEF Live
        <5> QED BY <5>1 DEF Inv, Shape
      <4> QED BY <4>1, <4>2
    <3> QED BY <3>5, <3>6 DEF Live
  <2> QED BY <2>1, <2>2
<1>6. Moved(c, r) BY <1>3, <1>4 DEF Moved
<1>7. /\ RecordsOK' /\ Accepted' = Accepted /\ reqs' \in [Accepted -> Request]
      /\ reqs'[c] = r /\ \A d \in Accepted \ {c} : reqs'[d] = reqs[d]
      /\ Held' = Held /\ DeviceOf(reqs', Held') = DeviceOf(reqs, Held) + (r.device - reqs[c].device)
  BY <1>1, <1>5, <1>6, MovedRecords DEF Accepted
<1>8. Live \subseteq Accepted BY DEF Inv, Shape
<1>9. /\ Queued' = IF r.st = "Decode" THEN Queued \ {c} ELSE Queued
      /\ \A d \in Queued \ {c} : reqs'[d] = reqs[d]
  BY <1>3, <1>5, <1>7, <1>8 DEF Queued
<1>10. /\ waiting' \in Seq(Client) /\ Distinct(waiting') /\ Among(waiting') = Queued'
       /\ decoding' = Live \ Queued'
  <2>1. /\ waiting \in Seq(Client) /\ Distinct(waiting) /\ Among(waiting) = Queued
        /\ decoding = Live \ Queued
    BY Views DEF Inv, Shape, TablesOK, Distinct
  <2>2. CASE r.st # "Decode" BY <1>2, <1>9, <2>1, <2>2
  <2>3. CASE r.st = "Decode"
    <3>1. waiting' = Without(waiting, {c}) BY <1>2, <2>3 DEF RemoveFromWaiting
    <3>2. waiting' \in Seq(Client) /\ Distinct(waiting') /\ Among(waiting') = Among(waiting) \ {c}
      BY <2>1, <3>1, WithoutKeeps
    <3> QED BY <1>2, <1>3, <1>9, <2>1, <2>3, <3>2
  <2> QED BY <2>2, <2>3
<1>11. TablesOK'
  <2>1. DOMAIN waiting' = 1..Len(waiting') /\ Range(waiting') = Queued' BY <1>10, SeqFacts
  <2>2. DOMAIN segs' = {d \in Live : reqs'[d].st \in {"Chunked", "Decode"}}
    <3>1. DOMAIN segs = {d \in Live : reqs[d].st \in {"Chunked", "Decode"}} BY DEF Inv, TablesOK
    <3>2. reqs'[c].st \in {"Chunked", "Decode"} /\ \A d \in Live \ {c} : reqs'[d] = reqs[d]
      BY <1>4, <1>7, <1>8
    <3> QED BY <1>1, <1>3, <3>1, <3>2, ZenonT(30)
  <2>3. batch = {} BY <1>1 DEF Inv, TablesOK
  <2>4. DOMAIN estimates \subseteq Live BY DEF Inv, TablesOK
  <2> QED BY <1>1, <1>5, <1>10, <2>1, <2>2, <2>3, <2>4 DEF TablesOK, Distinct
<1>12. PlanOK' /\ plan' \in Seq(Jobs)
  <2>1. Queued \ {c} \subseteq Queued' BY <1>9
  <2> QED BY <1>1, <1>3, <1>9, <2>1, PlanTail
<1>13. CmdsOK' BY <1>1, <1>7 DEF Inv, CmdsOK, clients
<1>14. FramesOK' BY <1>1, <1>5, <1>7 DEF Inv, FramesOK, clients, TokensOnly, EndsRight, Terminals
<1>15. ledger' \in [dispatched : Nat, returned : Nat] /\ LedgerBalanced'
  <2>1. ledger \in [dispatched : Nat, returned : Nat] BY DEF Inv, Shape
  <2>2. PICK u \in Nat, v \in Nat, b \in Nat, e \in Nat :
          u = ledger.dispatched /\ v = ledger.returned /\ b = Job.start /\ e = JobEnd
    BY <1>3, <2>1
  <2>3. ledger' = [dispatched |-> u + e - b, returned |-> v] BY <1>1, <2>1, <2>2
  <2>4. e - b \in Nat /\ u + e - b \in Nat BY <1>1, <2>2
  <2>5. ledger' \in [dispatched : Nat, returned : Nat] BY <2>3, <2>4
  <2>6. ledger'.dispatched = u + e - b /\ ledger'.returned = v BY <2>3
  <2>7. ledger'.dispatched - ledger'.returned = ledger.dispatched - ledger.returned + (e - b)
    BY <2>2, <2>6
  <2>8. e - b \in Int /\ DeviceOf(reqs', Held') = DeviceOf(reqs, Held) + (e - b)
    BY <1>3, <1>4, <1>7, <2>2
  <2> QED BY <2>5, <2>7, <2>8, LedgerMoves
<1>16. Shape'
  <2>1. UNCHANGED <<cmds, chan, submitted, arrivals, pc, faults>> BY <1>1 DEF clients
  <2>2. \A d \in Live : /\ meta'[d] = [gen |-> meta'[d].gen, cur |-> meta'[d].cur]
                        /\ meta'[d].gen \in Seq(Vocab)
    BY <1>5 DEF Inv, Shape
  <2> QED BY <1>5, <1>7, <1>10, <1>12, <1>15, <2>1, <2>2 DEF Inv, Shape
<1> QED BY <1>7, <1>11, <1>12, <1>13, <1>14, <1>15, <1>16 DEF Inv

LEMMA DecodeRunsKeeps == ASSUME Inv, DecodeBatchRuns PROVE Inv'
<1>1. /\ pc = "prefill" /\ plan = <<>> /\ plan' = plan
      /\ batch' = decoding /\ pc' = IF decoding = {} THEN "cmds" ELSE "confirm"
      /\ UNCHANGED <<cmds, clients, chan, arrivals, reqs, meta, waiting, decoding, segs>>
      /\ UNCHANGED <<estimates, ledger, faults>>
  BY DEF DecodeBatchRuns, DecodeStart, books
<1>2. Live' = Live /\ Queued' = Queued /\ Accepted' = Accepted BY <1>1 DEF Queued, Live, Accepted
<1>3. PlanOK' BY <1>1 DEF PlanOK
<1>4. Shape' BY <1>1, <1>2 DEF Inv, Shape, clients, Points
<1>5. RecordsOK' BY <1>1, <1>2 DEF Inv, RecordsOK, LiveOK, DeadOK
<1>6. TablesOK' BY <1>1, <1>2 DEF Inv, TablesOK
<1>7. CmdsOK' BY <1>1, <1>2 DEF Inv, CmdsOK, clients
<1>8. FramesOK' BY <1>1, <1>2 DEF Inv, FramesOK, clients, TokensOnly, EndsRight, Terminals
<1>9. LedgerBalanced'
  <2>1. Held' = Held BY <1>1, <1>2 DEF Held
  <2> QED BY <1>1, <2>1, LedgerIs DEF Inv
<1> QED BY <1>3, <1>4, <1>5, <1>6, <1>7, <1>8, <1>9 DEF Inv

-----------------------------------------------------------------------------
(* Admission and selection *)

\* Admission admits waiting requests and books live ones.
LEMMA AdmissionFacts ==
  ASSUME Inv
  PROVE  Admission.eligible \subseteq Queued /\ DOMAIN Admission.estimates \subseteq Live
<1> DEFINE V == {EstimateOf(c) : c \in Live} \union {estimates[c] : c \in DOMAIN estimates}
           E == UNION {[X -> V] : X \in SUBSET Live}
           base == [estimates |-> estimates, chunkSum |-> 0, eligible |-> {}]
           A == {base} \union [estimates : E, chunkSum : Int, eligible : SUBSET Queued]
<1>1. /\ waiting \in Seq(Client) /\ Among(waiting) = Queued /\ Queued \subseteq Live
      /\ DOMAIN estimates \subseteq Live
  BY Views DEF Inv, Shape, TablesOK, Queued
<1>2. ASSUME NEW acc \in A
      PROVE  /\ acc.chunkSum \in Int /\ acc.eligible \subseteq Queued
             /\ DOMAIN acc.estimates \subseteq Live
             /\ \A c \in DOMAIN acc.estimates : acc.estimates[c] \in V
  <2>1. CASE acc = base BY <1>1, <2>1
  <2>2. CASE acc \in [estimates : E, chunkSum : Int, eligible : SUBSET Queued]
    <3>1. acc.estimates \in E /\ acc.chunkSum \in Int /\ acc.eligible \subseteq Queued BY <2>2
    <3>2. PICK X \in SUBSET Live : acc.estimates \in [X -> V] BY <3>1
    <3> HIDE DEF V
    <3> QED BY <3>1, <3>2
  <2> QED BY <2>1, <2>2
<1>3. ASSUME NEW acc \in A, NEW c \in Queued PROVE Consider(acc, c) \in A
  <2> DEFINE first == IF reqs[c].st = "Waiting" THEN Min({ChunkSize, Len(Prompt[c])}) ELSE 0
             X == DOMAIN acc.estimates \union {c}
             working == [d \in X |-> IF d = c THEN EstimateOf(c) ELSE acc.estimates[d]]
  <2>1. first \in Int
    <3>1. ChunkSize \in Int /\ Len(Prompt[c]) \in Int
      BY <1>1, ConfigAssumption, LoopAssumption DEF Inv, Shape
    <3>2. Min({ChunkSize, Len(Prompt[c])}) \in Int BY <3>1, MinOfTwo
    <3> QED BY <3>2
  <2>2. working \in E
    <3>1. X \in SUBSET Live /\ c \in Live BY <1>1, <1>2
    <3>2. \A d \in X : (IF d = c THEN EstimateOf(c) ELSE acc.estimates[d]) \in V BY <1>2, <3>1
    <3>3. working \in [X -> V] BY <3>2
    <3> HIDE DEF V, working, X
    <3> QED BY <3>1, <3>3
  <2>3. \/ Consider(acc, c) = acc
        \/ Consider(acc, c) = [estimates |-> working, chunkSum |-> acc.chunkSum + first,
                               eligible |-> acc.eligible \union {c}]
    BY Zenon DEF Consider
  <2>4. acc.chunkSum + first \in Int /\ acc.eligible \union {c} \in SUBSET Queued
    <3> HIDE DEF first
    <3> QED BY <1>2, <2>1
  <2> HIDE DEF working, first, E
  <2> QED BY <2>2, <2>3, <2>4
<1>4. PICK pre : ConsidersTo(pre, base, waiting, A)
  <2>1. \A i \in 1..Len(waiting) : waiting[i] \in Queued BY <1>1 DEF Among
  <2>2. base \in A OBVIOUS
  <2> HIDE DEF A, base
  <2>3. \A acc \in A, i \in 1..Len(waiting) : Consider(acc, waiting[i]) \in A BY <1>3, <2>1
  <2> QED BY <1>1, <2>2, <2>3, ConsiderFold
<1>5. Considered(base, waiting) = Admission BY Zenon DEF Considered, Admission
<1>6. Admission \in A
  <2>1. Len(waiting) \in Nat BY <1>1
  <2>2. Len(waiting) \in 0..Len(waiting) BY <2>1
  <2> HIDE DEF A, base
  <2> QED BY <1>4, <1>5, <2>2 DEF ConsidersTo, Along
<1> HIDE DEF A
<1> QED BY <1>2, <1>6

\* Requests by the place of their arrival.
LEMMA ArrivalFacts ==
  ASSUME Inv
  PROVE  /\ \A c \in Accepted : ArrivalOf(c) \in Nat
         /\ \A c, d \in Accepted : ArrivalOf(c) = ArrivalOf(d) => c = d
<1>1. PICK n \in Nat : n = Len(arrivals) BY Views DEF Inv
<1>2. Among(arrivals) = Accepted BY Views DEF Inv, Shape
<1>3. ASSUME NEW c \in Accepted
      PROVE  ArrivalOf(c) \in 1..n /\ arrivals[ArrivalOf(c)] = c
  <2> DEFINE I == {i \in 1..n : arrivals[i] = c}
  <2>1. PICK i \in 1..n : arrivals[i] = c BY <1>1, <1>2 DEF Among
  <2>2. I # {} /\ I \subseteq Nat BY <2>1
  <2>3. ArrivalOf(c) = IF I # {} THEN Min(I) ELSE 0
    BY <1>1, Zenon DEF ArrivalOf, SelectInSeq
  <2>4. Min(I) \in I
    <3> HIDE DEF I
    <3>1. PICK x \in I : \A y \in I : x <= y BY <2>2, LeastNatural
    <3> QED BY <3>1 DEF Min
  <2> QED BY <2>2, <2>3, <2>4
<1> QED BY <1>3

\* The requests to choose from: told apart by their ids and by their arrivals.
Candidates(S) ==
  /\ IsFiniteSet(S)
  /\ \A w \in S : w.id \in Client /\ w.arrival \in Nat /\ w.resume \in BOOLEAN
  /\ \A v, w \in S : v.id = w.id \/ v.arrival = w.arrival => v = w

LEMMA WaitingOrder ==
  ASSUME NEW S, Candidates(S), NEW out, out = OrderWaiting(S)
  PROVE  out \in Seq(S) /\ Len(out) = Cardinality(S) /\ Distinct(out)
<1> DEFINE B == {p \in S \X S :
                   IF p[1].resume # p[2].resume THEN p[1].resume ELSE p[1].arrival < p[2].arrival}
<1>1. \A w \in S : w.arrival \in Nat /\ w.resume \in BOOLEAN BY DEF Candidates
<1>2. \A v, w \in S : v.arrival = w.arrival => v = w BY DEF Candidates
<1>3. \A v, w \in S : <<v, w>> \in B <=> IF v.resume # w.resume THEN v.resume = TRUE
                                         ELSE v.arrival < w.arrival
  BY <1>1
<1> HIDE DEF B
<1>4. \A v \in S : <<v, v>> \notin B BY <1>1, <1>3
<1>5. \A u, v, w \in S : <<u, v>> \in B /\ <<v, w>> \in B => <<u, w>> \in B
  <2> TAKE u, v, w \in S
  <2> HAVE <<u, v>> \in B /\ <<v, w>> \in B
  <2>1. /\ IF u.resume # v.resume THEN u.resume = TRUE ELSE u.arrival < v.arrival
        /\ IF v.resume # w.resume THEN v.resume = TRUE ELSE v.arrival < w.arrival
    BY <1>3
  <2>2. IF u.resume # w.resume THEN u.resume = TRUE ELSE u.arrival < w.arrival BY <1>1, <2>1
  <2> QED BY <1>3, <2>2
<1>6. \A v, w \in S : v = w \/ <<v, w>> \in B \/ <<w, v>> \in B
  <2> TAKE v, w \in S
  <2>1. \/ v = w
        \/ IF v.resume # w.resume THEN v.resume = TRUE ELSE v.arrival < w.arrival
        \/ IF w.resume # v.resume THEN w.resume = TRUE ELSE w.arrival < v.arrival
    BY <1>1, <1>2
  <2> QED BY <1>3, <2>1
<1>7. StrictOrder(S, B) BY <1>4, <1>5, <1>6 DEF StrictOrder
<1>8. out = InOrder(S, B) BY DEF OrderWaiting, B
<1>9. IsFiniteSet(S) BY DEF Candidates
<1> QED BY <1>7, <1>8, <1>9, InOrderLists

LEMMA VictimOrder ==
  ASSUME NEW S, Candidates(S), NEW out, out = OrderVictims(S)
  PROVE  out \in Seq(S) /\ Len(out) = Cardinality(S) /\ Distinct(out)
<1> DEFINE B == {p \in S \X S :
                   IF p[1].resume # p[2].resume THEN p[2].resume ELSE p[1].arrival > p[2].arrival}
<1>1. \A w \in S : w.arrival \in Nat /\ w.resume \in BOOLEAN BY DEF Candidates
<1>2. \A v, w \in S : v.arrival = w.arrival => v = w BY DEF Candidates
<1>3. \A v, w \in S : <<v, w>> \in B <=> IF v.resume # w.resume THEN w.resume = TRUE
                                         ELSE v.arrival > w.arrival
  BY <1>1
<1> HIDE DEF B
<1>4. \A v \in S : <<v, v>> \notin B BY <1>1, <1>3
<1>5. \A u, v, w \in S : <<u, v>> \in B /\ <<v, w>> \in B => <<u, w>> \in B
  <2> TAKE u, v, w \in S
  <2> HAVE <<u, v>> \in B /\ <<v, w>> \in B
  <2>1. /\ IF u.resume # v.resume THEN v.resume = TRUE ELSE u.arrival > v.arrival
        /\ IF v.resume # w.resume THEN w.resume = TRUE ELSE v.arrival > w.arrival
    BY <1>3
  <2>2. IF u.resume # w.resume THEN w.resume = TRUE ELSE u.arrival > w.arrival BY <1>1, <2>1
  <2> QED BY <1>3, <2>2
<1>6. \A v, w \in S : v = w \/ <<v, w>> \in B \/ <<w, v>> \in B
  <2> TAKE v, w \in S
  <2>1. \/ v = w
        \/ IF v.resume # w.resume THEN w.resume = TRUE ELSE v.arrival > w.arrival
        \/ IF w.resume # v.resume THEN v.resume = TRUE ELSE w.arrival > v.arrival
    BY <1>1, <1>2
  <2> QED BY <1>3, <2>1
<1>7. StrictOrder(S, B) BY <1>4, <1>5, <1>6 DEF StrictOrder
<1>8. out = InOrder(S, B) BY DEF OrderVictims, B
<1>9. IsFiniteSet(S) BY DEF Candidates
<1> QED BY <1>7, <1>8, <1>9, InOrderLists

Selects(sel, W, D) ==
  /\ sel.preempted \in Seq({d.id : d \in D}) /\ Distinct(sel.preempted)
  /\ sel.prefill \in Seq(Jobs)
  /\ \A i, j \in 1..Len(sel.prefill) : sel.prefill[i].id = sel.prefill[j].id => i = j
  /\ \A j \in 1..Len(sel.prefill) : \E w \in W : ChunkOf(sel.prefill[j], w)

\* A batch preempts some of the decoding requests and plans chunks for some of
\* the waiting ones, each at most once.
LEMMA SelectFacts ==
  ASSUME NEW W, Candidates(W), \A w \in W : w.cached \in Nat /\ w.prompt \in Nat,
         NEW D, Candidates(D), NEW budget \in Nat
  PROVE  Selects(SelectBatch(W, D, budget), W, D)
<1>0. PICK sel : sel = SelectBatch(W, D, budget) OBVIOUS
<1>1. PICK n \in Nat : n = Cardinality(D) BY FS_CardinalityType DEF Candidates
<1>2. PICK keep : keep = Min({Cardinality(D), budget}) OBVIOUS
<1>3. keep \in 0..n
  <2>1. n \in Int /\ budget \in Int BY <1>1
  <2>2. Min({n, budget}) \in {n, budget} /\ Min({n, budget}) <= n BY <2>1, MinOfTwo
  <2> QED BY <1>1, <1>2, <2>2
<1>4. PICK order : order = OrderVictims(D) OBVIOUS
<1>5. order \in Seq(D) /\ Len(order) = n /\ Distinct(order) BY <1>1, <1>4, VictimOrder
<1>6. PICK m \in Nat : m = n - keep BY <1>3
<1>7. PICK victims : victims = SubSeq(order, 1, m) OBVIOUS
<1>8. /\ victims \in Seq(D) /\ Len(victims) = m /\ DOMAIN victims = 1..m
      /\ \A i \in 1..m : victims[i] = order[i] /\ victims[i] \in D /\ i \in 1..n
  <2>1. m <= n BY <1>3, <1>6
  <2>2. victims = [i \in 1..m |-> order[i]] BY <1>5, <1>7, <2>1
  <2>3. \A i \in 1..m : i \in 1..n /\ order[i] \in D BY <1>5, <2>1
  <2> QED BY <2>2, <2>3
<1>9. PICK jobs : jobs = Taken([left |-> budget - keep, plan |-> <<>>], OrderWaiting(W)).plan OBVIOUS
<1>10. sel = [preempted |-> [i \in DOMAIN victims |-> victims[i].id], prefill |-> jobs]
  <2>1. FoldLeft(TakeChunk, [left |-> budget - keep, plan |-> <<>>], OrderWaiting(W)).plan = jobs
    BY <1>9, Zenon DEF Taken
  <2> QED BY <1>0, <1>1, <1>2, <1>4, <1>6, <1>7, <2>1, Zenon DEF SelectBatch
<1>11. PICK out : out = [i \in 1..m |-> victims[i].id] OBVIOUS
<1>12. out \in Seq({d.id : d \in D}) /\ Distinct(out)
  <2>1. \A i \in 1..m : out[i] = order[i].id /\ out[i] \in {d.id : d \in D} BY <1>8, <1>11
  <2>2. out \in Seq({d.id : d \in D}) /\ Len(out) = m BY <1>11, <2>1
  <2>3. \A i, j \in 1..m : out[i] = out[j] => i = j
    <3> TAKE i, j \in 1..m
    <3> HAVE out[i] = out[j]
    <3>1. order[i] \in D /\ order[j] \in D /\ order[i].id = order[j].id BY <1>8, <2>1
    <3>2. order[i] = order[j] BY <3>1 DEF Candidates
    <3> QED BY <1>5, <1>8, <3>2 DEF Distinct
  <2> QED BY <2>2, <2>3 DEF Distinct
<1>13. PICK line : line = OrderWaiting(W) OBVIOUS
<1>14. line \in Seq(W) /\ Distinct(line) BY <1>13, WaitingOrder
<1>15. \A i, j \in 1..Len(line) : line[i].id = line[j].id => i = j
  <2> TAKE i, j \in 1..Len(line)
  <2> HAVE line[i].id = line[j].id
  <2>1. line[i] \in W /\ line[j] \in W BY <1>14
  <2>2. line[i] = line[j] BY <2>1 DEF Candidates
  <2> QED BY <1>14, <2>2 DEF Distinct
<1>16. jobs \in Seq(Jobs) /\ PlanFrom(jobs, line, Len(line))
  <2>1. \A w \in W : w.id \in Client /\ w.cached \in Nat /\ w.prompt \in Nat BY DEF Candidates
  <2>2. PICK left \in Int : left = budget - keep BY <1>3
  <2>3. jobs = Taken([left |-> left, plan |-> <<>>], line).plan BY <1>9, <1>13, <2>2
  <2> QED BY <1>14, <1>15, <2>1, <2>3, PlanOfOrder
<1>17. \A j \in 1..Len(jobs) : \E w \in W : ChunkOf(jobs[j], w)
  <2>1. \A i \in 1..Len(line) : line[i] \in W BY <1>14
  <2> QED BY <1>16, <2>1 DEF PlanFrom
<1>18. sel.preempted = out /\ sel.prefill = jobs BY <1>8, <1>10, <1>11
<1>19. Selects(sel, W, D) BY <1>12, <1>16, <1>17, <1>18 DEF PlanFrom, Selects
<1> QED BY <1>0, <1>19

LEMMA BudgetType == ASSUME Inv PROVE StepBudget \in Nat
<1>1. KvUsage \in Nat
  <2>1. IsFiniteSet(Accepted) /\ \A c \in Accepted : reqs[c].device \in Nat
    BY Views, HeldFacts DEF Inv
  <2> QED BY <2>1, DeviceType DEF KvUsage, Device, Accepted
<1>2. PoolTokens \in Int
  <2>1. MaxLen + Block - 1 \in Int /\ Block \in Nat \ {0} BY ConfigAssumption
  <2>2. PagesFor(MaxLen) \in Int BY <2>1 DEF PagesFor
  <2>3. WindowPages \in Int BY <2>2, ConfigAssumption DEF WindowPages, LayerPages
  <2> QED BY <2>3, ConfigAssumption DEF PoolTokens
<1> QED BY <1>1, <1>2 DEF StepBudget

\* What a batch is selected from: the requests admitted, as they are, and the
\* decoding ones.
Choice(W, D) ==
  /\ Candidates(W) /\ Candidates(D)
  /\ \A w \in W : /\ w.id \in Admission.eligible /\ w.id \in Queued
                  /\ w.cached = reqs[w.id].cached /\ w.prompt = Len(Prompt[w.id])
                  /\ w.cached \in Nat /\ w.prompt \in Nat
  /\ {d.id : d \in D} = decoding /\ Cardinality(D) <= Cardinality(decoding)
  /\ Selection = SelectBatch(W, D, StepBudget)

LEMMA SelectionIs == ASSUME Inv PROVE \E W, D : Choice(W, D)
<1> DEFINE waits(c) == [id |-> c, arrival |-> ArrivalOf(c), resume |-> reqs[c].resume,
                        prompt |-> Max({reqs[c].prompt, Len(Prompt[c])}), cached |-> reqs[c].cached]
           runs(c) == [id |-> c, arrival |-> ArrivalOf(c), resume |-> reqs[c].resume]
           W == {waits(c) : c \in Admission.eligible}
           D == {runs(c) : c \in decoding}
<1>1. /\ Admission.eligible \subseteq Queued /\ Queued \subseteq Live /\ decoding \subseteq Live
      /\ Live \subseteq Accepted /\ Accepted \subseteq Client
      /\ IsFiniteSet(Client)
  BY AdmissionFacts, Views DEF Inv, Shape, TablesOK, Queued
<1>2. PICK E : E = Admission.eligible OBVIOUS
<1>3. IsFiniteSet(E) /\ IsFiniteSet(decoding) /\ E \subseteq Accepted /\ decoding \subseteq Accepted
  <2>1. E \subseteq Client /\ decoding \subseteq Client BY <1>1, <1>2
  <2> QED BY <1>1, <1>2, <2>1, FS_Subset
<1>4. \A c \in Accepted : ArrivalOf(c) \in Nat /\ reqs[c].resume \in BOOLEAN
                          /\ reqs[c].cached \in Nat /\ c \in Client
  <2>1. \A c \in Accepted : reqs[c] \in Request BY Views DEF Inv
  <2> QED BY <1>1, <2>1, ArrivalFacts, RequestFields
<1>5. \A c, d \in Accepted : ArrivalOf(c) = ArrivalOf(d) => c = d BY ArrivalFacts
<1>6. \A c \in E : Max({reqs[c].prompt, Len(Prompt[c])}) = Len(Prompt[c]) /\ Len(Prompt[c]) \in Nat
  <2> TAKE c \in E
  <2>1. c \in Live /\ c \in Client /\ reqs[c] \in Request BY <1>1, <1>2, Views DEF Inv
  <2>2. LiveOK(c) BY <1>1, <2>1 DEF Inv, RecordsOK
  <2>3. reqs[c].prompt \in Nat /\ Len(Prompt[c]) \in Nat BY <2>1, RequestFields, LoopAssumption
  <2> QED BY <2>2, <2>3, MaxOfTwo DEF LiveOK
<1>7. IsFiniteSet(W)
  <2> DEFINE f == [c \in E |-> waits(c)]
  <2>1. f \in Surjection(E, W)
    <3> HIDE DEF waits
    <3> QED BY <1>2 DEF Surjection
  <2> HIDE DEF f, W
  <2> QED BY <1>3, <2>1, FS_Surjection
<1>8. IsFiniteSet(D) /\ Cardinality(D) <= Cardinality(decoding)
  <2> DEFINE f == [c \in decoding |-> runs(c)]
  <2>1. f \in Surjection(decoding, D)
    <3> HIDE DEF runs
    <3> QED BY DEF Surjection
  <2> HIDE DEF f, D
  <2> QED BY <1>3, <2>1, FS_Surjection
<1>9. \A c \in Accepted : /\ waits(c).id = c /\ waits(c).arrival = ArrivalOf(c)
                          /\ waits(c).resume = reqs[c].resume /\ waits(c).cached = reqs[c].cached
                          /\ waits(c).prompt = Max({reqs[c].prompt, Len(Prompt[c])})
                          /\ runs(c).id = c /\ runs(c).arrival = ArrivalOf(c)
                          /\ runs(c).resume = reqs[c].resume
  OBVIOUS
<1> HIDE DEF waits, runs
<1>10. ASSUME NEW w \in W
       PROVE  /\ w.id \in E /\ w.id \in Accepted /\ w.id \in Queued /\ w = waits(w.id)
              /\ w.arrival = ArrivalOf(w.id) /\ w.resume = reqs[w.id].resume
              /\ w.cached = reqs[w.id].cached /\ w.prompt = Len(Prompt[w.id])
              /\ w.cached \in Nat /\ w.prompt \in Nat
  <2>1. PICK c \in E : w = waits(c) BY <1>2
  <2>2. c \in Accepted /\ c \in Queued /\ w.id = c BY <1>1, <1>2, <1>3, <1>9, <2>1
  <2>3. /\ w.arrival = ArrivalOf(c) /\ w.resume = reqs[c].resume /\ w.cached = reqs[c].cached
        /\ w.prompt = Max({reqs[c].prompt, Len(Prompt[c])})
    BY <1>9, <2>1, <2>2
  <2> QED BY <1>4, <1>6, <2>1, <2>2, <2>3
<1>11. ASSUME NEW d \in D
       PROVE  /\ d.id \in decoding /\ d.id \in Accepted /\ d = runs(d.id)
              /\ d.arrival = ArrivalOf(d.id) /\ d.resume = reqs[d.id].resume
  <2>1. PICK c \in decoding : d = runs(c) OBVIOUS
  <2> QED BY <1>3, <1>9, <2>1
<1> HIDE DEF W, D
<1>12. Candidates(W)
  <2>1. \A w \in W : w.id \in Client /\ w.arrival \in Nat /\ w.resume \in BOOLEAN
    BY <1>4, <1>10
  <2>2. \A v, w \in W : v.id = w.id => v = w BY <1>10
  <2>3. \A v, w \in W : v.arrival = w.arrival => v.id = w.id BY <1>5, <1>10
  <2> QED BY <1>7, <2>1, <2>2, <2>3 DEF Candidates
<1>13. Candidates(D)
  <2>1. \A d \in D : d.id \in Client /\ d.arrival \in Nat /\ d.resume \in BOOLEAN
    BY <1>4, <1>11
  <2>2. \A d, e \in D : d.id = e.id => d = e BY <1>11
  <2>3. \A d, e \in D : d.arrival = e.arrival => d.id = e.id BY <1>5, <1>11
  <2> QED BY <1>8, <2>1, <2>2, <2>3 DEF Candidates
<1>14. {d.id : d \in D} = decoding
  <2>1. \A c \in decoding : runs(c) \in D /\ runs(c).id = c BY <1>3, <1>9 DEF D
  <2> QED BY <1>11, <2>1
<1>15. Selection = SelectBatch(W, D, StepBudget)
  BY Zenon DEF Selection, W, D, waits, runs
<1>16. Choice(W, D) BY <1>2, <1>8, <1>10, <1>12, <1>13, <1>14, <1>15 DEF Choice
<1> QED BY <1>16

\* What is selected: decoding requests to preempt, and chunks for queued ones,
\* from where they are to the end of their prompt at most.
LEMMA SelectionFacts ==
  ASSUME Inv
  PROVE  /\ Selection.preempted \in Seq(decoding) /\ Distinct(Selection.preempted)
         /\ Selection.prefill \in Seq(Jobs)
         /\ \A i, j \in 1..Len(Selection.prefill) :
              Selection.prefill[i].id = Selection.prefill[j].id => i = j
         /\ \A i \in 1..Len(Selection.prefill) :
              /\ Selection.prefill[i].id \in Queued
              /\ Selection.prefill[i].start = reqs[Selection.prefill[i].id].cached
              /\ Selection.prefill[i].end <= Len(Prompt[Selection.prefill[i].id])
<1>1. PICK W, D : Choice(W, D) BY SelectionIs
<1>2. PICK budget \in Nat : budget = StepBudget BY BudgetType
<1>3. PICK sel : sel = Selection OBVIOUS
<1>4. sel = SelectBatch(W, D, budget) BY <1>1, <1>2, <1>3 DEF Choice
<1>5. Candidates(W) /\ Candidates(D) /\ \A w \in W : w.cached \in Nat /\ w.prompt \in Nat BY <1>1 DEF Choice
<1>6. /\ sel.preempted \in Seq({d.id : d \in D}) /\ Distinct(sel.preempted)
      /\ sel.prefill \in Seq(Jobs)
      /\ \A i, j \in 1..Len(sel.prefill) : sel.prefill[i].id = sel.prefill[j].id => i = j
      /\ \A j \in 1..Len(sel.prefill) : \E w \in W : ChunkOf(sel.prefill[j], w)
  <2>1. Selects(SelectBatch(W, D, budget), W, D) BY <1>5, SelectFacts
  <2> QED BY <1>4, <2>1 DEF Selects
<1>7. \A i \in 1..Len(sel.prefill) : /\ sel.prefill[i].id \in Queued
                                     /\ sel.prefill[i].start = reqs[sel.prefill[i].id].cached
                                     /\ sel.prefill[i].end <= Len(Prompt[sel.prefill[i].id])
  BY <1>1, <1>6 DEF ChunkOf, Choice
<1>8. {d.id : d \in D} = decoding BY <1>1 DEF Choice
<1> QED BY <1>3, <1>6, <1>7, <1>8

LEMMA AdmitKeeps == ASSUME Inv, AdmitSchedule PROVE Inv'
<1> DEFINE victims == Range(Selection.preempted)
<1>1. /\ pc = "cmds"
      /\ reqs' = [c \in DOMAIN reqs |-> IF c \in victims THEN Preempt(reqs[c]) ELSE reqs[c]]
      /\ Returned(Device(victims)) /\ decoding' = decoding \ victims
      /\ waiting' = Reverse(Selection.preempted) \o waiting
      /\ segs' = Restrict(segs, DOMAIN segs \ victims)
      /\ estimates' = Admission.estimates /\ plan' = Selection.prefill /\ pc' = "prefill"
      /\ UNCHANGED <<cmds, clients, chan, arrivals, meta, batch, faults>>
  BY Zenon DEF AdmitSchedule
<1>2. PICK gone0 : gone0 = Selection.preempted OBVIOUS
<1>3. gone0 \in Seq(decoding) /\ Distinct(gone0) BY <1>2, SelectionFacts
<1>4. victims = Among(gone0) /\ victims \subseteq decoding BY <1>2, <1>3, SeqFacts DEF Among
<1> HIDE DEF victims
<1>5. /\ victims \subseteq Live /\ Live \subseteq Accepted /\ decoding = Live \ Queued
      /\ \A c \in victims : reqs[c].st = "Decode" /\ reqs[c] \in Request
  BY <1>4 DEF Inv, TablesOK, Shape, Queued
<1>6. /\ Accepted' = Accepted /\ Live' = Live
      /\ \A c \in Accepted \ victims : reqs'[c] = reqs[c]
      /\ \A c \in victims : /\ reqs'[c] \in Request /\ reqs'[c].st = "Preempted"
                            /\ reqs'[c].cached = 0 /\ reqs'[c].device = 0
                            /\ reqs'[c].prompt = reqs[c].prompt
      /\ reqs' \in [Accepted -> Request]
  <2>1. Accepted' = Accepted /\ Live' = Live BY <1>1 DEF Accepted, Live
  <2>2. \A c \in Accepted \ victims : reqs'[c] = reqs[c] BY <1>1 DEF Accepted
  <2>3. \A c \in victims : reqs'[c] = Preempt(reqs[c]) BY <1>1, <1>5 DEF Accepted
  <2>4. \A c \in victims : /\ reqs'[c] \in Request /\ reqs'[c].st = "Preempted"
                           /\ reqs'[c].cached = 0 /\ reqs'[c].device = 0
                           /\ reqs'[c].prompt = reqs[c].prompt
    <3> TAKE c \in victims
    <3>1. PICK r \in Request : r = reqs[c] BY <1>5
    <3>2. /\ Preempt(r) \in Request /\ Preempt(r).st = "Preempted"
          /\ Preempt(r).cached = 0 /\ Preempt(r).device = 0 /\ Preempt(r).prompt = r.prompt
      BY PreemptFields
    <3> QED BY <2>3, <3>1, <3>2
  <2>5. \A c \in Accepted : reqs'[c] \in Request BY <2>2, <2>4 DEF Inv, Shape
  <2>6. reqs' = [c \in Accepted |-> reqs'[c]] BY <1>1 DEF Accepted
  <2> QED BY <2>1, <2>2, <2>4, <2>5, <2>6
<1>7. RecordsOK'
  <2> SUFFICES ASSUME NEW c \in Accepted PROVE IF c \in Live THEN LiveOK(c)' ELSE DeadOK(c)'
    BY <1>6 DEF RecordsOK
  <2>1. IF c \in Live THEN LiveOK(c) ELSE DeadOK(c) BY DEF Inv, RecordsOK
  <2>2. CASE c \in victims BY <1>5, <1>6, <2>1, <2>2 DEF LiveOK
  <2>3. CASE c \notin victims BY <1>6, <2>1, <2>3 DEF DeadOK, LiveOK
  <2> QED BY <2>2, <2>3
<1>8. Queued' = Queued \union victims
  <2>1. \A c \in Live : (reqs'[c].st # "Decode") <=> (c \in victims \/ reqs[c].st # "Decode")
    BY <1>5, <1>6
  <2> QED BY <1>5, <1>6, <2>1 DEF Queued
<1>9. waiting' \in Seq(Client) /\ Distinct(waiting') /\ Among(waiting') = Queued'
  <2>1. waiting \in Seq(Client) /\ Distinct(waiting) /\ Among(waiting) = Queued
    BY Views DEF Inv, Shape, TablesOK, Distinct
  <2>2. gone0 \in Seq(Client)
    <3>1. decoding \subseteq Client BY <1>5 DEF Inv, Shape
    <3> QED BY <1>3, <3>1, SeqWider
  <2>3. PICK back : back = Reverse(gone0) OBVIOUS
  <2>4. back \in Seq(Client) /\ Distinct(back) /\ Among(back) = victims
    BY <1>3, <1>4, <2>2, <2>3, ReverseFacts
  <2>5. PICK old, new : old = waiting /\ new = waiting' OBVIOUS
  <2>6. /\ old \in Seq(Client) /\ Distinct(old) /\ Among(old) = Queued
        /\ Among(back) \intersect Among(old) = {} /\ new = back \o old
    BY <1>1, <1>2, <1>4, <1>5, <2>1, <2>3, <2>4, <2>5
  <2>7. new \in Seq(Client) /\ Distinct(new) /\ Among(new) = Among(back) \union Among(old)
    <3>1. Concatenates(Client, back, old) BY <2>4, <2>6 DEF Concatenates
    <3>2. Concatenated(Client, back, old, back \o old) BY <3>1, ConcatFacts
    <3> QED BY <2>6, <3>2 DEF Concatenated
  <2> QED BY <1>8, <2>4, <2>5, <2>6, <2>7
<1>10. TablesOK'
  <2>1. DOMAIN waiting' = 1..Len(waiting') /\ Range(waiting') = Queued' BY <1>9, SeqFacts
  <2>2. decoding' = Live \ Queued' BY <1>1, <1>5, <1>8
  <2>3. DOMAIN segs' = {c \in Live : reqs'[c].st \in {"Chunked", "Decode"}}
    <3>1. DOMAIN segs' = DOMAIN segs \ victims BY <1>1 DEF Restrict
    <3>2. DOMAIN segs = {c \in Live : reqs[c].st \in {"Chunked", "Decode"}} BY DEF Inv, TablesOK
    <3>3. \A c \in Live : reqs'[c].st \in {"Chunked", "Decode"} <=>
                            c \notin victims /\ reqs[c].st \in {"Chunked", "Decode"}
      BY <1>5, <1>6
    <3> QED BY <3>1, <3>2, <3>3
  <2>4. DOMAIN estimates' \subseteq Live BY <1>1, AdmissionFacts
  <2>5. batch' = {} BY <1>1 DEF Inv, TablesOK
  <2> QED BY <1>6, <1>9, <2>1, <2>2, <2>3, <2>4, <2>5 DEF TablesOK, Distinct
<1>11. PlanOK' /\ plan' \in Seq(Jobs)
  <2>1. PICK jobs : jobs = Selection.prefill OBVIOUS
  <2>2. /\ jobs \in Seq(Jobs)
        /\ \A i, j \in 1..Len(jobs) : jobs[i].id = jobs[j].id => i = j
        /\ \A i \in 1..Len(jobs) : /\ jobs[i].id \in Queued
                                   /\ jobs[i].start = reqs[jobs[i].id].cached
                                   /\ jobs[i].end <= Len(Prompt[jobs[i].id])
    BY <2>1, SelectionFacts
  <2>3. DOMAIN jobs = 1..Len(jobs) BY <2>2
  <2>4. Queued \subseteq Queued' /\ \A c \in Queued : reqs'[c] = reqs[c]
    <3>1. Queued \subseteq Accepted \ victims BY <1>4, <1>5 DEF Queued
    <3> QED BY <1>6, <1>8, <3>1
  <2>5. plan' = jobs BY <1>1, <2>1
  <2>6. \A i \in 1..Len(jobs) : /\ jobs[i].id \in Queued'
                                /\ jobs[i].start = reqs'[jobs[i].id].cached
                                /\ jobs[i].end <= Len(Prompt[jobs[i].id])
    BY <2>2, <2>4
  <2> QED BY <1>1, <2>2, <2>3, <2>5, <2>6 DEF PlanOK
<1>12. CmdsOK' BY <1>1, <1>6 DEF Inv, CmdsOK, clients
<1>13. FramesOK' BY <1>1, <1>6 DEF Inv, FramesOK, clients, TokensOnly, EndsRight, Terminals
<1>14. ledger' \in [dispatched : Nat, returned : Nat] /\ LedgerBalanced'
  <2>1. /\ IsFiniteSet(Held) /\ Live \subseteq Held /\ Held \subseteq Accepted
        /\ \A c \in Accepted : reqs[c].device \in Nat
    BY HeldFacts
  <2>2. Held' = Held
    <3>1. \A c \in Accepted : Terminal(reqs'[c]) <=> Terminal(reqs[c])
      BY <1>5, <1>6 DEF Terminal
    <3> QED BY <1>6, <3>1 DEF Held
  <2>3. \A c \in Held : reqs'[c].device \in Nat BY <1>6, <2>1
  <2>4. Moves(reqs, Held, reqs', Held', victims) BY <1>6, <2>1, <2>2, <2>3 DEF Moves
  <2>5. Held \intersect victims = victims /\ IsFiniteSet(victims)
    BY <1>5, <2>1, FS_Subset
  <2>6. DeviceOf(reqs', Held) - DeviceOf(reqs', victims) = DeviceOf(reqs, Held) - DeviceOf(reqs, victims)
    BY <2>2, <2>4, <2>5, DeviceMoves DEF MovesBy
  <2>7. DeviceOf(reqs', victims) = 0 BY <1>6, <2>5, DeviceZero
  <2>8. \A c \in victims : reqs[c].device \in Nat BY <1>5, <2>1
  <2>9. /\ DeviceOf(reqs, Held) \in Nat /\ DeviceOf(reqs', Held) \in Nat
        /\ DeviceOf(reqs, victims) \in Nat
    BY <2>1, <2>3, <2>5, <2>8, DeviceType
  <2>10. PICK a \in Nat, b \in Nat, e \in Nat :
           /\ a = DeviceOf(reqs', Held) /\ b = DeviceOf(reqs, Held) /\ e = DeviceOf(reqs, victims)
    BY <2>9
  <2>11. a - 0 = b - e BY <2>6, <2>7, <2>10
  <2>12. a = b + (0 - e) BY <2>10, <2>11
  <2>13. ledger \in [dispatched : Nat, returned : Nat] BY DEF Inv, Shape
  <2>14. PICK u \in Nat, v \in Nat : u = ledger.dispatched /\ v = ledger.returned BY <2>13
  <2>15. ledger' = [dispatched |-> u, returned |-> v + e]
    <3>1. ledger' = [ledger EXCEPT !.returned = @ + e] BY <1>1, <2>10 DEF Returned, Device
    <3> QED BY <2>13, <2>14, <3>1
  <2>16. ledger' \in [dispatched : Nat, returned : Nat] BY <2>15
  <2>17. ledger'.dispatched = u /\ ledger'.returned = v + e BY <2>15
  <2>18. ledger'.dispatched - ledger'.returned = ledger.dispatched - ledger.returned + (0 - e)
    BY <2>14, <2>17
  <2>19. 0 - e \in Int /\ DeviceOf(reqs', Held') = DeviceOf(reqs, Held) + (0 - e)
    BY <2>2, <2>10, <2>12
  <2> QED BY <2>16, <2>18, <2>19, LedgerMoves
<1>15. Shape' BY <1>1, <1>6, <1>9, <1>11, <1>14 DEF Inv, Shape, clients, Points
<1> QED BY <1>7, <1>10, <1>11, <1>12, <1>13, <1>14, <1>15 DEF Inv

-----------------------------------------------------------------------------
(* Clients and commands *)

\* What a client does leaves the loop alone, but for a command at the end of
\* the channel.
ClientMoves(cmd) ==
  /\ LoopIdle
  /\ submitted \subseteq submitted' /\ submitted' \subseteq Client
  /\ aborted \subseteq aborted' /\ gone \subseteq gone'
  /\ \/ cmds' = cmds
     \/ /\ cmds' = Append(cmds, cmd) /\ cmd \in Cmds
        /\ cmd.op = "submit" => cmd.id \in submitted' \ submitted
        /\ cmd.op = "abort" => cmd.id \in aborted'

LEMMA ClientKeeps == ASSUME Inv, NEW cmd, ClientMoves(cmd) PROVE Inv'
<1>1. UNCHANGED <<chan, arrivals, reqs, meta, waiting, decoding, segs, estimates, ledger, pc,
                  plan, batch, faults>>
  BY DEF ClientMoves, LoopIdle, books
<1>2. Live' = Live /\ Queued' = Queued /\ Accepted' = Accepted BY <1>1 DEF Queued, Live, Accepted
<1>3. cmds' \in Seq(Cmds) /\ CmdsOK'
  <2>1. cmds \in Seq(Cmds) /\ DOMAIN cmds = 1..Len(cmds) /\ Len(cmds) \in Nat
    BY Views DEF Inv, Shape
  <2>2. /\ Accepted \subseteq submitted /\ submitted \subseteq submitted' /\ submitted' \subseteq Client
        /\ aborted \subseteq aborted'
    BY DEF ClientMoves, Inv, Shape
  <2>3. CASE cmds' = cmds BY <1>1, <1>2, <2>1, <2>2, <2>3 DEF Inv, CmdsOK
  <2>4. CASE cmds' = Append(cmds, cmd) /\ cmd \in Cmds
             /\ (cmd.op = "submit" => cmd.id \in submitted' \ submitted)
             /\ (cmd.op = "abort" => cmd.id \in aborted')
    <3>1. PICK n \in Nat : n = Len(cmds) BY <2>1
    <3>2. /\ cmds' \in Seq(Cmds) /\ DOMAIN cmds' = 1..(n + 1)
          /\ \A i \in 1..n : cmds'[i] = cmds[i]
          /\ cmds'[n + 1] = cmd
      BY <2>1, <2>4, <3>1, AppendProperties
    <3>3. \A i \in 1..(n + 1) : i = n + 1 \/ i \in 1..n BY <3>1
    <3>4. /\ \A i \in 1..n :
               /\ cmds[i].op = "submit" => cmds[i].id \in submitted \ Accepted /\ chan[cmds[i].id] = <<>>
               /\ cmds[i].op = "abort" => cmds[i].id \in aborted
          /\ \A i, j \in 1..n :
               cmds[i].op = "submit" /\ cmds[j].op = "submit" /\ cmds[i].id = cmds[j].id => i = j
          /\ \A c \in Client \ submitted : chan[c] = <<>>
      BY <2>1, <3>1 DEF Inv, CmdsOK
    <3>5. cmd.op = "submit" => cmd.id \in submitted' \ Accepted /\ chan[cmd.id] = <<>>
      BY <2>2, <2>4, <3>4
    <3>6. \A i \in 1..(n + 1) :
            /\ cmds'[i].op = "submit" => cmds'[i].id \in submitted' \ Accepted /\ chan[cmds'[i].id] = <<>>
            /\ cmds'[i].op = "abort" => cmds'[i].id \in aborted'
      BY <2>2, <2>4, <3>2, <3>3, <3>4, <3>5
    <3>7. \A i \in 1..n : cmds[i].op = "submit" /\ cmd.op = "submit" => cmds[i].id # cmd.id
      BY <2>4, <3>4
    <3>8. \A i, j \in 1..(n + 1) :
            cmds'[i].op = "submit" /\ cmds'[j].op = "submit" /\ cmds'[i].id = cmds'[j].id => i = j
      BY <3>2, <3>3, <3>4, <3>7
    <3>9. \A c \in Client \ submitted' : chan[c] = <<>> BY <2>2, <3>4
    <3> QED BY <1>1, <1>2, <3>2, <3>6, <3>8, <3>9 DEF CmdsOK
  <2> QED BY <2>1, <2>3, <2>4 DEF ClientMoves
<1>4. Shape' BY <1>1, <1>2, <1>3 DEF Inv, Shape, ClientMoves
<1>5. RecordsOK' BY <1>1, <1>2 DEF Inv, RecordsOK, LiveOK, DeadOK
<1>6. TablesOK' BY <1>1, <1>2 DEF Inv, TablesOK
<1>7. PlanOK' BY <1>1, <1>2 DEF Inv, PlanOK
<1>8. FramesOK'
  <2>1. gone \subseteq gone' /\ aborted \subseteq aborted' BY DEF ClientMoves
  <2> QED BY <1>1, <1>2, <2>1 DEF Inv, FramesOK, TokensOnly, EndsRight, Terminals
<1>9. LedgerBalanced'
  <2>1. Held' = Held BY <1>1, <1>2 DEF Held
  <2> QED BY <1>1, <2>1, LedgerIs DEF Inv
<1> QED BY <1>3, <1>4, <1>5, <1>6, <1>7, <1>8, <1>9 DEF Inv

LEMMA ClientNextKeeps == ASSUME Inv, ClientNext PROVE Inv'
<1>0. submitted \subseteq Client BY DEF Inv, Shape
<1>1. ASSUME NEW c \in Client, SendSubmit(c) PROVE Inv'
  <2>1. PICK cmd : cmd = [op |-> "submit", id |-> c] OBVIOUS
  <2>2. cmd \in Cmds /\ cmd.op = "submit" /\ cmd.id = c BY <2>1 DEF Cmds
  <2>3. ClientMoves(cmd) BY <1>0, <1>1, <2>1, <2>2 DEF SendSubmit, Post, ClientMoves
  <2> QED BY <2>3, ClientKeeps
<1>2. ASSUME NEW c \in Client, SendAbort(c) PROVE Inv'
  <2>1. PICK cmd : cmd = [op |-> "abort", id |-> c] OBVIOUS
  <2>2. cmd \in Cmds /\ cmd.op = "abort" /\ cmd.id = c BY <2>1 DEF Cmds
  <2>3. ClientMoves(cmd) BY <1>0, <1>2, <2>1, <2>2 DEF SendAbort, Post, ClientMoves
  <2> QED BY <2>3, ClientKeeps
<1>3. ASSUME NEW c \in Client, Disconnect(c) PROVE Inv'
  <2>1. ClientMoves(c) BY <1>0, <1>3 DEF Disconnect, ClientMoves
  <2> QED BY <2>1, ClientKeeps
<1>4. CASE DropHandle
  <2>1. PICK cmd : cmd = [op |-> "shutdown", id |-> "none"] OBVIOUS
  <2>2. cmd \in Cmds /\ cmd.op = "shutdown" BY <2>1 DEF Cmds
  <2>3. ClientMoves(cmd) BY <1>0, <1>4, <2>1, <2>2 DEF DropHandle, ClientMoves, clients
  <2> QED BY <2>3, ClientKeeps
<1> QED BY <1>1, <1>2, <1>3, <1>4 DEF ClientNext

\* The commands left after the first one, when only its request is accepted or
\* told something.
News == IF Head(cmds).op = "submit" THEN {Head(cmds).id} ELSE {}

LEMMA CmdTail ==
  ASSUME Inv, cmds # <<>>, cmds' = Tail(cmds), UNCHANGED clients,
         Accepted' \subseteq Accepted \union News,
         \A d \in Client \ (Accepted \union News) : chan'[d] = chan[d]
  PROVE  CmdsOK' /\ cmds' \in Seq(Cmds)
<1>1. cmds \in Seq(Cmds) /\ DOMAIN cmds = 1..Len(cmds) /\ Len(cmds) \in Nat
  BY Views DEF Inv, Shape
<1>2. PICK n \in Nat : n = Len(cmds) BY <1>1
<1>3. /\ cmds' \in Seq(Cmds) /\ Len(cmds') = n - 1 /\ n # 0 /\ Head(cmds) = cmds[1]
      /\ \A i \in 1..(n - 1) : cmds'[i] = cmds[i + 1] /\ i + 1 \in 1..n /\ i + 1 # 1
  BY <1>1, <1>2, TailFacts
<1>4. DOMAIN cmds' = 1..(n - 1) /\ 1 \in 1..n BY <1>2, <1>3
<1>5. /\ \A i \in 1..n :
           /\ cmds[i].op = "submit" => cmds[i].id \in submitted \ Accepted /\ chan[cmds[i].id] = <<>>
           /\ cmds[i].op = "abort" => cmds[i].id \in aborted
      /\ \A i, j \in 1..n :
           cmds[i].op = "submit" /\ cmds[j].op = "submit" /\ cmds[i].id = cmds[j].id => i = j
      /\ \A c \in Client \ submitted : chan[c] = <<>>
  BY <1>1, <1>2 DEF Inv, CmdsOK
<1>6. submitted \subseteq Client /\ Accepted \subseteq submitted /\ submitted' = submitted /\ aborted' = aborted
  BY DEF Inv, Shape, clients
<1>7. \A i \in 1..(n - 1) : cmds'[i].op = "submit" => cmds'[i].id \notin News
  BY <1>3, <1>4, <1>5 DEF News
<1>8. \A i \in 1..(n - 1) :
        /\ cmds'[i].op = "submit" => /\ cmds'[i].id \in submitted' \ Accepted'
                                     /\ chan'[cmds'[i].id] = <<>>
        /\ cmds'[i].op = "abort" => cmds'[i].id \in aborted'
  <2> TAKE i \in 1..(n - 1)
  <2>1. PICK cmd : cmd = cmds[i + 1] /\ cmd = cmds'[i] BY <1>3
  <2>2. /\ cmd.op = "submit" => cmd.id \in submitted \ Accepted /\ chan[cmd.id] = <<>>
        /\ cmd.op = "abort" => cmd.id \in aborted
        /\ cmd.op = "submit" => cmd.id \notin News
    BY <1>3, <1>5, <1>7, <2>1
  <2> QED BY <1>6, <2>1, <2>2
<1>9. \A i, j \in 1..(n - 1) :
        cmds'[i].op = "submit" /\ cmds'[j].op = "submit" /\ cmds'[i].id = cmds'[j].id => i = j
  <2> TAKE i, j \in 1..(n - 1)
  <2> HAVE cmds'[i].op = "submit" /\ cmds'[j].op = "submit" /\ cmds'[i].id = cmds'[j].id
  <2>1. i + 1 = j + 1 BY <1>3, <1>5
  <2> QED BY <1>2, <2>1
<1>10. \A c \in Client \ submitted' : chan'[c] = <<>>
  <2>1. News \subseteq submitted BY <1>3, <1>4, <1>5 DEF News
  <2> QED BY <1>5, <1>6, <2>1
<1> QED BY <1>3, <1>4, <1>8, <1>9, <1>10 DEF CmdsOK

LEMMA IdleCmdKeeps ==
  ASSUME Inv, pc = "cmds", cmds # <<>>, cmds' = Tail(cmds), pc' \in {"cmds", "stopped"},
         UNCHANGED <<clients, chan, arrivals, reqs, meta, waiting, decoding, segs, estimates>>,
         UNCHANGED <<ledger, plan, batch, faults>>
  PROVE  Inv'
<1>1. Live' = Live /\ Queued' = Queued /\ Accepted' = Accepted BY DEF Queued, Live, Accepted
<1>2. CmdsOK' /\ cmds' \in Seq(Cmds) BY <1>1, CmdTail
<1>3. Shape' BY <1>1, <1>2 DEF Inv, Shape, clients, Points
<1>4. RecordsOK' BY <1>1 DEF Inv, RecordsOK, LiveOK, DeadOK
<1>5. TablesOK' BY <1>1 DEF Inv, TablesOK
<1>6. PlanOK' BY <1>1 DEF Inv, PlanOK
<1>7. FramesOK' BY <1>1 DEF Inv, FramesOK, clients, TokensOnly, EndsRight, Terminals
<1>8. LedgerBalanced'
  <2>1. Held' = Held BY <1>1 DEF Held
  <2> QED BY <2>1, LedgerIs DEF Inv
<1> QED BY <1>2, <1>3, <1>4, <1>5, <1>6, <1>7, <1>8 DEF Inv

\* A submit at the head of the channel is of a request nobody has answered.
LEMMA SubmitFacts ==
  ASSUME Inv, cmds # <<>>, Head(cmds).op = "submit", NEW c, c = Head(cmds).id
  PROVE  c \in submitted \ Accepted /\ c \in Client /\ c \notin Live /\ chan[c] = <<>> /\ News = {c}
<1>1. cmds \in Seq(Cmds) /\ DOMAIN cmds = 1..Len(cmds) BY Views DEF Inv, Shape
<1>2. Head(cmds) = cmds[1] /\ 1 \in DOMAIN cmds BY <1>1, TailFacts
<1>3. c \in submitted \ Accepted /\ chan[c] = <<>> BY <1>2 DEF Inv, CmdsOK
<1>4. submitted \subseteq Client /\ Live \subseteq Accepted BY DEF Inv, Shape
<1> QED BY <1>3, <1>4 DEF News

\* An error is all that its client is sent.
LEMMA ErrorFirst ==
  ASSUME Inv, NEW c \in Client, chan[c] = <<>>, chan' = SendError({c})
  PROVE  /\ chan' \in [Client -> Seq(Frames)] /\ \A d \in Client \ {c} : chan'[d] = chan[d]
         /\ EndsRight(c)' /\ (Terminals(c)' # {} \/ c \in gone)
<1>1. chan \in [Client -> Seq(Frames)] BY DEF Inv, Shape
<1>2. PICK f : f = Frame("error", 0) OBVIOUS
<1>3. f \in Frames /\ f.kind = "error" BY <1>2 DEF Frame, Frames
<1>4. chan' = [d \in Client |-> IF d \in {c} \ gone THEN Append(chan[d], f) ELSE chan[d]]
  BY <1>2 DEF SendError, Send
<1>5. CASE c \in gone
  <2>1. chan' = chan BY <1>1, <1>4, <1>5
  <2>2. EndsRight(c) BY DEF Inv, FramesOK
  <2> QED BY <1>1, <1>5, <2>1, <2>2 DEF EndsRight, Terminals
<1>6. CASE c \notin gone
  <2>1. PICK fs \in Seq(Frames) : fs = chan[c] /\ fs = <<>> BY <1>1
  <2>2. PICK gs : gs = Append(fs, f) OBVIOUS
  <2>3. Ended(fs, gs) BY <1>3, <2>2 DEF Ended, Final
  <2>4. DOMAIN fs = {} BY <2>1
  <2>5. /\ gs \in Seq(Frames) /\ Len(gs) = Len(fs) + 1
        /\ {i \in DOMAIN gs : gs[i].kind # "token"} = {Len(gs)}
        /\ gs[Len(gs)].kind = "done" => gs[Len(gs)].n = Len(gs) - 1
    BY <2>3, <2>4, FinalFrame
  <2>6. chan'[c] = gs /\ \A d \in Client \ {c} : chan'[d] = chan[d]
    BY <1>4, <1>6, <2>1, <2>2
  <2>7. chan' \in [Client -> Seq(Frames)] BY <1>1, <1>4, <2>5, <2>6
  <2>8. Terminals(c)' = {Len(chan'[c])} BY <2>5, <2>6 DEF Terminals
  <2>9. EndsRight(c)' BY <2>5, <2>6, <2>8 DEF EndsRight
  <2> QED BY <2>6, <2>7, <2>8, <2>9
<1> QED BY <1>5, <1>6

\* A request enters the records, in the order of arrival.
Enters(c) ==
  /\ arrivals' = Append(arrivals, c)
  /\ reqs' = [d \in DOMAIN reqs \union {c} |-> IF d = c THEN NewReq ELSE reqs[d]]

LEMMA EntersRecords ==
  ASSUME Inv, NEW c \in Client \ Accepted, Enters(c)
  PROVE  /\ Accepted' = Accepted \union {c} /\ reqs' \in [Accepted' -> Request]
         /\ reqs'[c] = NewReq /\ \A d \in Accepted : reqs'[d] = reqs[d]
         /\ arrivals' \in Seq(Accepted') /\ Range(arrivals') = Accepted'
         /\ \A i, j \in DOMAIN arrivals' : arrivals'[i] = arrivals'[j] => i = j
<1>1. reqs' = [d \in Accepted \union {c} |-> IF d = c THEN NewReq ELSE reqs[d]]
  BY DEF Enters, Accepted
<1>2. Accepted' = Accepted \union {c} BY <1>1 DEF Accepted
<1>3. /\ reqs' \in [Accepted' -> Request]
      /\ reqs'[c] = NewReq /\ \A d \in Accepted : reqs'[d] = reqs[d]
  <2>1. reqs \in [Accepted -> Request] BY DEF Inv, Shape
  <2> QED BY <1>1, <1>2, <2>1, NewRequest
<1>4. PICK S : S = Accepted \union {c} OBVIOUS
<1>5. /\ arrivals \in Seq(S) /\ Among(arrivals) = Accepted /\ Distinct(arrivals)
  <2>1. arrivals \in Seq(Accepted) BY DEF Inv, Shape
  <2> QED BY <1>4, <2>1, SeqWider, SeqFacts DEF Inv, Shape, Distinct
<1>6. arrivals' \in Seq(S) /\ Among(arrivals') = S /\ Distinct(arrivals')
  BY <1>4, <1>5, AppendFacts DEF Enters
<1> QED BY <1>2, <1>3, <1>4, <1>6, SeqFacts DEF Distinct

LEMMA EntersLedger ==
  ASSUME Inv, NEW c \in Client \ Accepted, Enters(c), ledger' = ledger
  PROVE  LedgerBalanced'
<1>1. /\ Accepted' = Accepted \union {c} /\ reqs'[c] = NewReq
      /\ \A d \in Accepted : reqs'[d] = reqs[d]
  BY EntersRecords
<1>2. IsFiniteSet(Held) /\ Held \subseteq Accepted /\ \A d \in Accepted : reqs[d].device \in Nat
  BY HeldFacts
<1>3. Held' = Held \union {c} BY <1>1, NewRequest DEF Held
<1>4. IsFiniteSet(Held \union {c})
  <2>1. IsFiniteSet({c}) BY FS_Singleton
  <2> QED BY <1>2, <2>1, FS_Union
<1>5. \A d \in Held \union {c} : reqs'[d].device \in Nat BY <1>1, <1>2, NewRequest
<1>6. Moves(reqs, Held, reqs', Held \union {c}, {c})
  <2>1. Held \ {c} = (Held \union {c}) \ {c} /\ \A d \in Held \ {c} : reqs'[d].device = reqs[d].device
    BY <1>1, <1>2
  <2> QED BY <1>2, <1>4, <1>5, <2>1 DEF Moves
<1>7. DeviceOf(reqs', Held \union {c}) - DeviceOf(reqs', {c}) = DeviceOf(reqs, Held) - DeviceOf(reqs, {})
  <2>1. (Held \union {c}) \intersect {c} = {c} /\ Held \intersect {c} = {} BY <1>2
  <2> QED BY <1>6, <2>1, DeviceMoves DEF MovesBy
<1>8. DeviceOf(reqs', {c}) = 0 /\ DeviceOf(reqs, {}) = 0
  <2>1. reqs'[c].device = 0 BY <1>1, NewRequest
  <2> QED BY <2>1, DeviceOne, DeviceNone
<1>9. PICK a \in Nat, b \in Nat : a = DeviceOf(reqs', Held \union {c}) /\ b = DeviceOf(reqs, Held)
  BY <1>2, <1>4, <1>5, DeviceType
<1>10. a = b + 0 BY <1>7, <1>8, <1>9
<1>11. 0 \in Int /\ DeviceOf(reqs', Held') = DeviceOf(reqs, Held) + 0 BY <1>3, <1>9, <1>10
<1>12. /\ ledger' \in [dispatched : Nat, returned : Nat]
       /\ ledger'.dispatched - ledger'.returned = ledger.dispatched - ledger.returned + 0
  <2>1. ledger \in [dispatched : Nat, returned : Nat] BY DEF Inv, Shape
  <2>2. PICK u \in Nat, v \in Nat : u = ledger.dispatched /\ v = ledger.returned BY <2>1
  <2>3. u - v = u - v + 0 BY <2>2
  <2> QED BY <2>1, <2>2, <2>3
<1> QED BY <1>11, <1>12, LedgerMoves

\* A submit with an empty prompt is refused and leaves no record.
LEMMA EmptyPromptKeeps ==
  ASSUME Inv, pc = "cmds", cmds # <<>>, cmds' = Tail(cmds), Head(cmds).op = "submit",
         NEW c, c = Head(cmds).id, chan' = SendError({c}),
         UNCHANGED <<books, clients, exec, pc, cache, plan, batch, faults>>
  PROVE  Inv'
<1>0. c \in Client \ Accepted /\ c \notin Live /\ chan[c] = <<>> /\ News = {c} BY SubmitFacts
<1>1. UNCHANGED <<arrivals, reqs, meta, waiting, decoding, segs, estimates, ledger>> BY DEF books
<1>2. Live' = Live /\ Queued' = Queued /\ Accepted' = Accepted BY <1>1 DEF Queued, Live, Accepted
<1>3. /\ chan' \in [Client -> Seq(Frames)] /\ \A d \in Client \ {c} : chan'[d] = chan[d]
      /\ EndsRight(c)'
  BY <1>0, ErrorFirst
<1>4. CmdsOK' /\ cmds' \in Seq(Cmds) BY <1>0, <1>2, <1>3, CmdTail
<1>5. Shape' BY <1>1, <1>2, <1>3, <1>4 DEF Inv, Shape, clients
<1>6. RecordsOK' BY <1>1, <1>2 DEF Inv, RecordsOK, LiveOK, DeadOK
<1>7. TablesOK' BY <1>1, <1>2 DEF Inv, TablesOK
<1>8. PlanOK' BY <1>1, <1>2 DEF Inv, PlanOK
<1>9. FramesOK'
  <2>1. gone' = gone /\ aborted' = aborted /\ Accepted \subseteq Client /\ Live \subseteq Accepted
    BY DEF clients, Inv, Shape
  <2>2. \A d \in Client \ {c} : /\ Terminals(d)' = Terminals(d)
                                /\ EndsRight(d) => EndsRight(d)'
                                /\ TokensOnly(d) => TokensOnly(d)'
    BY <1>1, <1>3, <2>1, ZenonT(30) DEF Terminals, EndsRight, TokensOnly
  <2> QED BY <1>0, <1>2, <1>3, <2>1, <2>2 DEF Inv, FramesOK
<1>10. LedgerBalanced'
  <2>1. Held' = Held BY <1>1, <1>2 DEF Held
  <2> QED BY <1>1, <2>1, LedgerIs DEF Inv
<1> QED BY <1>4, <1>5, <1>6, <1>7, <1>8, <1>9, <1>10 DEF Inv

\* A submit whose sampler cannot be built is recorded and refused.
LEMMA BadParamsKeeps ==
  ASSUME Inv, pc = "cmds", cmds # <<>>, cmds' = Tail(cmds), Head(cmds).op = "submit",
         NEW c, c = Head(cmds).id, c \in BadParams, Enters(c), chan' = SendError({c}),
         UNCHANGED <<meta, waiting, decoding, segs, estimates, ledger>>,
         UNCHANGED <<clients, exec, pc, cache, plan, batch, faults>>
  PROVE  Inv'
<1>0. c \in Client \ Accepted /\ c \in submitted /\ c \notin Live /\ chan[c] = <<>> /\ News = {c}
  BY SubmitFacts
<1>1. /\ Accepted' = Accepted \union {c} /\ reqs' \in [Accepted' -> Request]
      /\ reqs'[c] = NewReq /\ \A d \in Accepted : reqs'[d] = reqs[d]
      /\ arrivals' \in Seq(Accepted') /\ Range(arrivals') = Accepted'
      /\ \A i, j \in DOMAIN arrivals' : arrivals'[i] = arrivals'[j] => i = j
  BY <1>0, EntersRecords
<1>2. /\ Live' = Live /\ Live \subseteq Accepted /\ Accepted \subseteq Client
      /\ \A d \in Live : reqs'[d] = reqs[d]
  BY <1>1, Views DEF Live, Inv, Shape
<1>3. Queued' = Queued BY <1>2 DEF Queued
<1>4. /\ chan' \in [Client -> Seq(Frames)] /\ \A d \in Client \ {c} : chan'[d] = chan[d]
      /\ EndsRight(c)' /\ (Terminals(c)' # {} \/ c \in gone)
  BY <1>0, ErrorFirst
<1>5. CmdsOK' /\ cmds' \in Seq(Cmds) BY <1>0, <1>1, <1>4, CmdTail
<1>6. Shape' BY <1>0, <1>1, <1>2, <1>4, <1>5 DEF Inv, Shape, clients
<1>7. RecordsOK'
  <2> SUFFICES ASSUME NEW d \in Accepted \union {c}
               PROVE  IF d \in Live THEN LiveOK(d)' ELSE DeadOK(d)'
    BY <1>1, <1>2 DEF RecordsOK
  <2>1. CASE d = c BY <1>0, <1>1, <2>1, NewRequest DEF DeadOK
  <2>2. CASE d # c
    <3>1. d \in Accepted /\ reqs'[d] = reqs[d] BY <1>1, <2>2
    <3> QED BY <3>1 DEF Inv, RecordsOK, LiveOK, DeadOK
  <2> QED BY <2>1, <2>2
<1>8. TablesOK'
  <2>1. DOMAIN segs' = {d \in Live : reqs'[d].st \in {"Chunked", "Decode"}}
    BY <1>2 DEF Inv, TablesOK
  <2> QED BY <1>2, <1>3, <2>1 DEF Inv, TablesOK
<1>9. PlanOK' BY DEF Inv, PlanOK
<1>10. FramesOK'
  <2>1. gone' = gone /\ aborted' = aborted BY DEF clients
  <2>2. \A d \in Client \ {c} : /\ Terminals(d)' = Terminals(d)
                                /\ EndsRight(d) => EndsRight(d)'
                                /\ TokensOnly(d) => TokensOnly(d)'
    BY <1>4, <2>1, ZenonT(30) DEF Terminals, EndsRight, TokensOnly
  <2> QED BY <1>0, <1>1, <1>2, <1>4, <2>1, <2>2 DEF Inv, FramesOK
<1>11. LedgerBalanced' BY <1>0, EntersLedger
<1> QED BY <1>5, <1>6, <1>7, <1>8, <1>9, <1>10, <1>11 DEF Inv

\* A submit that is accepted joins the records and the queue.
LEMMA AcceptKeeps ==
  ASSUME Inv, pc = "cmds", cmds # <<>>, cmds' = Tail(cmds), Head(cmds).op = "submit",
         NEW c, c = Head(cmds).id, Enters(c), waiting' = Append(waiting, c),
         meta' = [d \in DOMAIN meta \union {c} |->
                    IF d = c THEN [gen |-> <<>>, cur |-> 0] ELSE meta[d]],
         UNCHANGED <<chan, decoding, segs, estimates, ledger>>,
         UNCHANGED <<clients, exec, pc, cache, plan, batch, faults>>
  PROVE  Inv'
<1>0. c \in Client \ Accepted /\ c \in submitted /\ c \notin Live /\ chan[c] = <<>> /\ News = {c}
  BY SubmitFacts
<1>1. /\ Accepted' = Accepted \union {c} /\ reqs' \in [Accepted' -> Request]
      /\ reqs'[c] = NewReq /\ \A d \in Accepted : reqs'[d] = reqs[d]
      /\ arrivals' \in Seq(Accepted') /\ Range(arrivals') = Accepted'
      /\ \A i, j \in DOMAIN arrivals' : arrivals'[i] = arrivals'[j] => i = j
  BY <1>0, EntersRecords
<1>2. /\ Live' = Live \union {c} /\ Live \subseteq Accepted /\ Accepted \subseteq Client
      /\ meta'[c] = [gen |-> <<>>, cur |-> 0]
      /\ \A d \in Live : reqs'[d] = reqs[d] /\ meta'[d] = meta[d]
  BY <1>0, <1>1, Views DEF Live, Inv, Shape
<1>3. Queued' = Queued \union {c} BY <1>0, <1>1, <1>2, NewRequest DEF Queued
<1>4. waiting' \in Seq(Client) /\ Among(waiting') = Queued' /\ Distinct(waiting')
  <2>1. waiting \in Seq(Client) /\ Among(waiting) = Queued /\ Distinct(waiting)
    BY Views DEF Inv, Shape, TablesOK, Distinct
  <2>2. c \notin Queued BY <1>0 DEF Queued
  <2> QED BY <1>0, <1>3, <2>1, <2>2, AppendFacts
<1>5. CmdsOK' /\ cmds' \in Seq(Cmds) BY <1>0, <1>1, CmdTail
<1>6. Shape'
  <2>1. \A d \in Live \union {c} : /\ meta'[d] = [gen |-> meta'[d].gen, cur |-> meta'[d].cur]
                                   /\ meta'[d].gen \in Seq(Vocab)
    <3>1. \A d \in Live : /\ meta[d] = [gen |-> meta[d].gen, cur |-> meta[d].cur]
                          /\ meta[d].gen \in Seq(Vocab)
      BY DEF Inv, Shape
    <3>2. <<>> \in Seq(Vocab) OBVIOUS
    <3> QED BY <1>2, <3>1, <3>2
  <2>2. submitted' = submitted /\ ledger' = ledger /\ chan' = chan /\ plan' = plan
    BY DEF clients
  <2>3. Live' \subseteq Accepted' /\ Accepted' \subseteq submitted'
    BY <1>0, <1>1, <1>2, <2>2 DEF Inv, Shape
  <2> QED BY <1>1, <1>2, <1>4, <1>5, <2>1, <2>2, <2>3 DEF Inv, Shape
<1>7. RecordsOK'
  <2> SUFFICES ASSUME NEW d \in Accepted \union {c}
               PROVE  IF d \in Live \union {c} THEN LiveOK(d)' ELSE DeadOK(d)'
    BY <1>1, <1>2 DEF RecordsOK
  <2>1. CASE d = c
    <3>1. Len(Prompt[c]) \in Nat BY <1>0, LoopAssumption
    <3> QED BY <1>1, <2>1, <3>1, NewRequest DEF LiveOK
  <2>2. CASE d # c
    <3>1. d \in Accepted /\ reqs'[d] = reqs[d] BY <1>1, <2>2
    <3> QED BY <2>2, <3>1 DEF Inv, RecordsOK, LiveOK, DeadOK
  <2> QED BY <2>1, <2>2
<1>8. TablesOK'
  <2>1. DOMAIN segs' = {d \in Live \union {c} : reqs'[d].st \in {"Chunked", "Decode"}}
    <3>1. {d \in Live \union {c} : reqs'[d].st \in {"Chunked", "Decode"}}
            = {d \in Live : reqs[d].st \in {"Chunked", "Decode"}}
      BY <1>1, <1>2, NewRequest
    <3> QED BY <3>1 DEF Inv, TablesOK
  <2>2. decoding' = Live' \ Queued' BY <1>0, <1>2, <1>3 DEF Inv, TablesOK
  <2>3. DOMAIN waiting' = 1..Len(waiting') /\ Range(waiting') = Queued' BY <1>4, SeqFacts
  <2>4. \A i, j \in DOMAIN waiting' : waiting'[i] = waiting'[j] => i = j
    BY <1>4, <2>3 DEF Distinct
  <2>5. /\ DOMAIN estimates' \subseteq Live' /\ batch' \subseteq decoding'
        /\ pc' \in {"cmds", "prefill", "stopped"} => batch' = {}
    BY <1>2 DEF Inv, TablesOK
  <2> QED BY <1>2, <2>1, <2>2, <2>3, <2>4, <2>5 DEF TablesOK
<1>9. PlanOK' BY DEF Inv, PlanOK
<1>10. FramesOK'
  <2>1. gone' = gone /\ aborted' = aborted /\ chan' = chan BY DEF clients
  <2>2. TokensOnly(c)'
    <3>1. meta'[c].gen = <<>> BY <1>2
    <3> QED BY <1>0, <2>1, <3>1 DEF TokensOnly
  <2>3. \A d \in Client : Terminals(d)' = Terminals(d) /\ (EndsRight(d) => EndsRight(d)')
    BY <2>1 DEF Terminals, EndsRight
  <2>4. \A d \in Live : TokensOnly(d) => TokensOnly(d)' BY <1>2, <2>1 DEF TokensOnly
  <2> QED BY <1>0, <1>1, <1>2, <2>1, <2>2, <2>3, <2>4 DEF Inv, FramesOK
<1>11. LedgerBalanced' BY <1>0, EntersLedger
<1> QED BY <1>5, <1>6, <1>7, <1>8, <1>9, <1>10, <1>11 DEF Inv

LEMMA HandleCmdKeeps == ASSUME Inv, HandleCmd PROVE Inv'
<1>1. pc = "cmds" /\ cmds # <<>> /\ cmds' = Tail(cmds) /\ UNCHANGED <<clients, cache, plan, batch, faults>>
  BY DEF HandleCmd
<1>2. PICK c : c = Head(cmds).id OBVIOUS
<1>3. CASE Head(cmds).op = "submit" /\ Submit(c) /\ UNCHANGED <<exec, pc>>
  <2>1. CASE Prompt[c] = <<>>
    <3>1. chan' = SendError({c}) /\ UNCHANGED books BY <1>3, <2>1 DEF Submit
    <3> QED BY <1>1, <1>2, <1>3, <3>1, EmptyPromptKeeps
  <2>2. CASE Prompt[c] # <<>> /\ c \in BadParams
    <3>1. Enters(c) /\ chan' = SendError({c}) BY <1>3, <2>2 DEF Submit, Enters
    <3>2. UNCHANGED <<meta, waiting, decoding, segs, estimates, ledger>> BY <1>3, <2>2 DEF Submit
    <3> QED BY <1>1, <1>2, <1>3, <2>2, <3>1, <3>2, BadParamsKeeps
  <2>3. CASE Prompt[c] # <<>> /\ c \notin BadParams
    <3>1. Enters(c) /\ waiting' = Append(waiting, c) BY <1>3, <2>3 DEF Submit, Enters
    <3>2. meta' = [d \in DOMAIN meta \union {c} |->
                     IF d = c THEN [gen |-> <<>>, cur |-> 0] ELSE meta[d]]
      BY <1>3, <2>3 DEF Submit
    <3>3. UNCHANGED <<chan, decoding, segs, estimates, ledger>> BY <1>3, <2>3 DEF Submit
    <3> QED BY <1>1, <1>2, <1>3, <3>1, <3>2, <3>3, AcceptKeeps
  <2> QED BY <2>1, <2>2, <2>3
<1>4. CASE Head(cmds).op = "abort" /\ AbortCmd(c) /\ UNCHANGED <<chan, pc>>
  <2>1. CASE c \in Live BY <1>1, <1>2, <1>4, <2>1, AbortCmdKeeps
  <2>2. CASE c \notin Live
    <3>1. UNCHANGED <<arrivals, reqs, meta, waiting, decoding, segs, estimates, ledger>>
      BY <1>4, <2>2 DEF AbortCmd, Live, books
    <3> QED BY <1>1, <1>4, <3>1, IdleCmdKeeps
  <2> QED BY <2>1, <2>2
<1>5. CASE Head(cmds).op = "shutdown" /\ pc' = "stopped" /\ UNCHANGED <<chan, books, exec>>
  <2>1. UNCHANGED <<arrivals, reqs, meta, waiting, decoding, segs, estimates, ledger>>
    BY <1>5 DEF books
  <2> QED BY <1>1, <1>5, <2>1, IdleCmdKeeps
<1> QED BY <1>2, <1>3, <1>4, <1>5 DEF HandleCmd

-----------------------------------------------------------------------------
(* The loop as a whole *)

LEMMA InitKeeps == ASSUME Init PROVE Inv
<1>1. /\ cmds = <<>> /\ submitted = {} /\ chan = [c \in Client |-> <<>>] /\ arrivals = <<>>
      /\ waiting = <<>> /\ decoding = {} /\ plan = <<>> /\ batch = {} /\ faults = 0 /\ pc = "cmds"
      /\ ledger = [dispatched |-> 0, returned |-> 0]
      /\ reqs = [c \in {} |-> NewReq]
      /\ DOMAIN segs = {} /\ DOMAIN estimates = {}
  BY DEF Init
<1>2. Accepted = {} /\ Live = {} /\ Queued = {} BY DEF Init, Accepted, Live, Queued
<1>3. /\ Range(<<>>) = {} /\ DOMAIN <<>> = {} BY DEF Range
<1>4. Shape
  <2>1. chan \in [Client -> Seq(Frames)] BY <1>1
  <2>2. <<>> \in Seq(Cmds) /\ <<>> \in Seq(Accepted) /\ <<>> \in Seq(Jobs) /\ <<>> \in Seq(Client)
    OBVIOUS
  <2>3. faults \in 0 .. MaxFaults BY <1>1, LoopAssumption
  <2>4. reqs \in [Accepted -> Request] BY <1>1, <1>2
  <2>5. ledger \in [dispatched : Nat, returned : Nat] /\ pc \in Points BY <1>1 DEF Points
  <2> QED BY <1>1, <1>2, <1>3, <2>1, <2>2, <2>3, <2>4, <2>5 DEF Shape
<1>5. RecordsOK BY <1>2 DEF RecordsOK
<1>6. TablesOK BY <1>1, <1>2, <1>3 DEF TablesOK
<1>7. PlanOK BY <1>1, <1>3 DEF PlanOK
<1>8. CmdsOK BY <1>1, <1>3 DEF CmdsOK
<1>9. FramesOK
  <2>1. \A c \in Client : Terminals(c) = {} BY <1>1, <1>3 DEF Terminals
  <2> QED BY <1>2, <2>1 DEF FramesOK, EndsRight
<1>10. LedgerBalanced
  <2>1. Held = {} BY <1>2 DEF Held
  <2>2. DeviceOf(reqs, Held) = 0 BY <2>1, DeviceNone
  <2> QED BY <1>1, <2>2, LedgerIs
<1> QED BY <1>4, <1>5, <1>6, <1>7, <1>8, <1>9, <1>10 DEF Inv

LEMMA StutterKeeps == ASSUME Inv, UNCHANGED vars PROVE Inv'
<1>1. UNCHANGED <<cmds, submitted, aborted, gone, chan, arrivals, reqs, meta, waiting, decoding>>
  BY DEF vars, clients, books
<1>2. UNCHANGED <<segs, estimates, ledger, pc, plan, batch, faults>> BY DEF vars, books
<1>3. Live' = Live /\ Queued' = Queued /\ Accepted' = Accepted
  BY <1>1 DEF Queued, Live, Accepted
<1>4. Shape' /\ PlanOK' /\ CmdsOK' /\ TablesOK' BY <1>1, <1>2, <1>3 DEF Inv, Shape, PlanOK, CmdsOK, TablesOK
<1>5. RecordsOK' BY <1>1, <1>3 DEF Inv, RecordsOK, LiveOK, DeadOK
<1>6. FramesOK' BY <1>1, <1>3 DEF Inv, FramesOK, TokensOnly, EndsRight, Terminals
<1>7. LedgerBalanced'
  <2>1. Held' = Held BY <1>1, <1>3 DEF Held
  <2> QED BY <1>1, <1>2, <2>1, LedgerIs DEF Inv
<1> QED BY <1>4, <1>5, <1>6, <1>7 DEF Inv

LEMMA NextKeeps == ASSUME Inv, [Next]_vars PROVE Inv'
<1>1. CASE ClientNext BY <1>1, ClientNextKeeps
<1>2. CASE HandleCmd BY <1>2, HandleCmdKeeps
<1>3. CASE AdmitSchedule BY <1>3, AdmitKeeps
<1>4. CASE PrefillPutOff BY <1>4, PutOffKeeps
<1>5. CASE PrefillFails BY <1>5, PrefillFailKeeps
<1>6. CASE PrefillConfirmed BY <1>6, PrefillConfirmKeeps
<1>7. CASE DecodeBatchRuns BY <1>7, DecodeRunsKeeps
<1>8. CASE DecodeBatchFails BY <1>8, BatchFailKeeps
<1>9. ASSUME NEW c \in Client, SampleFails(c) PROVE Inv' BY <1>9, SampleFailKeeps
<1>10. ASSUME NEW c \in Client, NEW token \in Vocab, TokenConfirmed(c, token) PROVE Inv'
  <2>1. CASE c \in gone BY <1>10, <2>1, TokenGoneKeeps
  <2>2. CASE c \notin gone BY <1>10, <2>2, TokenSentKeeps
  <2> QED BY <2>1, <2>2
<1>11. ASSUME NEW c \in Client, NEW kind \in {"token", "eos", "stop"}, Ends(c, kind) PROVE Inv'
  BY <1>11, EndKeeps
<1>12. CASE LoopNext
  BY <1>2, <1>3, <1>4, <1>5, <1>6, <1>7, <1>8, <1>9, <1>10, <1>11, <1>12 DEF LoopNext
<1>13. CASE UNCHANGED vars BY <1>13, StutterKeeps
<1> QED BY <1>1, <1>12, <1>13 DEF Next, AwaitCmd

\* The tables, the ledger and the frames of every state of the loop.
THEOREM LoopInvariant == Spec => []Inv
<1>1. Init => Inv BY InitKeeps
<1>2. Inv /\ [Next]_vars => Inv' BY NextKeeps
<1> QED BY <1>1, <1>2, PTL DEF Spec

\* A sequence without repetitions is as long as its elements are many.
LEMMA InvTypes == ASSUME Inv PROVE TypeOK
<1>1. Shape /\ TablesOK BY DEF Inv
<1>2. /\ Live \subseteq Accepted /\ decoding = Live \ Queued /\ batch \subseteq decoding
      /\ DOMAIN segs = {c \in Live : reqs[c].st \in {"Chunked", "Decode"}}
      /\ DOMAIN estimates \subseteq Live
  BY <1>1 DEF Shape, TablesOK
<1>3. Len(arrivals) = Cardinality(Accepted)
  <2>1. arrivals \in Seq(Accepted) /\ Among(arrivals) = Accepted /\ Distinct(arrivals)
    BY <1>1, Views DEF Shape, Distinct
  <2> QED BY <2>1, DistinctLength
<1>4. /\ \A c \in Accepted : reqs[c] \in Request
      /\ Range(arrivals) = Accepted /\ faults \in 0 .. MaxFaults
      /\ pc \in {"cmds", "prefill", "confirm", "stopped", "panicked"}
  BY <1>1 DEF Shape, Points
<1> QED BY <1>2, <1>3, <1>4 DEF TypeOK

LEMMA InvBooks == ASSUME Inv PROVE BooksAgree
<1>1. TypeOK BY InvTypes
<1>2. \A c \in Live : reqs[c].st \in {"Waiting", "Chunked", "Preempted", "Decode"}
  BY DEF Inv, Shape, RecordsOK, LiveOK
<1>3. decoding = {c \in Live : reqs[c].st = "Decode"} BY DEF Inv, TablesOK, Queued
<1>4. Range(waiting) = {c \in Live : reqs[c].st \in {"Waiting", "Chunked", "Preempted"}}
  BY <1>2 DEF Inv, TablesOK, Queued
<1>5. Range(waiting) \union decoding = Live BY <1>2, <1>3, <1>4
<1>6. /\ \A i, j \in DOMAIN waiting : waiting[i] = waiting[j] => i = j
      /\ DOMAIN segs = {c \in Live : reqs[c].st \in {"Chunked", "Decode"}}
      /\ batch \subseteq decoding
  BY DEF Inv, TablesOK
<1>7. \A c \in Accepted \ Live : Terminal(reqs[c]) \/ c \in BadParams
  BY DEF Inv, RecordsOK, DeadOK
<1>8. \A i \in DOMAIN plan : plan[i].id \in Range(waiting) BY DEF Inv, TablesOK, PlanOK
<1> QED BY <1>1, <1>3, <1>4, <1>5, <1>6, <1>7, <1>8 DEF BooksAgree

LEMMA InvFrames == ASSUME Inv PROVE FramesProtocol
<1>1. \A c \in Client : EndsRight(c) BY DEF Inv, FramesOK
<1>2. \A c \in Accepted \ Live : Terminals(c) # {} \/ c \in aborted \union gone
  BY DEF Inv, FramesOK
<1> QED BY <1>1, <1>2 DEF FramesProtocol, EndsRight

\* In every state the queue, the batch, the segments and the records of the loop
\* tell the same story about each request, whatever aborts, failures,
\* preemptions and endings made it (sched_loop.rs, run and what it calls).
THEOREM TablesAgree == Spec => []BooksAgree
<1>1. Inv => BooksAgree BY InvBooks
<1> QED BY <1>1, LoopInvariant, PTL

\* The tokens dispatched and not yet returned are those the live requests hold:
\* no way out of the loop returns a token twice or never (the token ledger of
\* sched_loop.rs).
THEOREM NoTokenLost == Spec => []LedgerBalanced
<1>1. Inv => LedgerBalanced BY DEF Inv
<1> QED BY <1>1, LoopInvariant, PTL

\* Every client gets token frames and then at most one terminal frame, whose
\* count is the tokens it was sent, and a request that ended has told its client
\* unless the client aborted it or has gone (sched_loop.rs, send_frame's callers).
THEOREM ClientsAreTold == Spec => []FramesProtocol
<1>1. Inv => FramesProtocol BY InvFrames
<1> QED BY <1>1, LoopInvariant, PTL

-----------------------------------------------------------------------------
(* Several entries, several windows *)

\* A window that goes with the singleton, if there is one.
Releases(y, c, held) == IF c \in DOMAIN held THEN DropSingleton(FreeSegment(y, held[c]), c) ELSE DropSingleton(y, c)

LEMMA HoldLeave ==
  ASSUME NEW x, NEW held, NEW e, Holding(x, held, e), NEW c, NEW tab, c \in DOMAIN held <=> c \in DOMAIN tab,
         c \in DOMAIN held => held[c] = tab[c], NEW g, Shrinks(held, {c}, g)
  PROVE  Holding(Releases(x, c, tab), g, e)
<1>1. CASE c \in DOMAIN tab
  <2>1. PICK y : y = FreeSegment(x, tab[c]) OBVIOUS
  <2>2. Holding(y, g, e) BY <1>1, <2>1, HoldFree
  <2>3. Keeps(y, DropSingleton(y, c)) BY <2>2, SingleKeeps DEF Holding
  <2>4. Releases(x, c, tab) = DropSingleton(y, c) BY <1>1, <2>1 DEF Releases
  <2> QED BY <2>2, <2>3, <2>4, HoldKeep
<1>2. CASE c \notin DOMAIN tab
  <2>1. Shrinks(held, {}, g) BY <1>2 DEF Shrinks
  <2>2. Shrinks(e, {}, e) BY DEF Shrinks
  <2>3. Holding(x, g, e) BY <2>1, <2>2, HoldSame
  <2>4. Keeps(x, DropSingleton(x, c)) BY <2>3, SingleKeeps DEF Holding
  <2>5. Releases(x, c, tab) = DropSingleton(x, c) BY <1>2 DEF Releases
  <2> QED BY <2>3, <2>4, <2>5, HoldKeep
<1> QED BY <1>1, <1>2

ReleasesOver(f, x, held, S) ==
  /\ f = [s \in SUBSET S |-> f[s]]
  /\ \A s \in SUBSET S :
       f[s] = IF s = {} THEN x ELSE Releases(f[s \ {CHOOSE c \in s : TRUE}], CHOOSE c \in s : TRUE, held)

LEMMA ReleasesExist ==
  ASSUME NEW S, IsFiniteSet(S), NEW x, NEW held
  PROVE  \E f : ReleasesOver(f, x, held, S)
<1> DEFINE n == Cardinality(S)
           pick(s) == CHOOSE c \in s : TRUE
           next(f, s) == IF s = {} THEN x ELSE Releases(f[s \ {pick(s)}], pick(s), held)
           Goes(k, f) == /\ f = [s \in SUBSET S |-> f[s]]
                         /\ \A s \in SUBSET S : Cardinality(s) <= k => f[s] = next(f, s)
           P == {k \in 0..n : \E f : Goes(k, f)}
<1>0. n \in Nat BY FS_CardinalityType
<1>1. \A s \in SUBSET S : /\ IsFiniteSet(s) /\ Cardinality(s) \in 0..n
                          /\ s # {} => pick(s) \in s
  <2> TAKE s \in SUBSET S
  <2>1. IsFiniteSet(s) /\ Cardinality(s) <= n BY FS_Subset
  <2>2. Cardinality(s) \in Nat BY <2>1, FS_CardinalityType
  <2> QED BY <1>0, <2>1, <2>2
<1> HIDE DEF n, pick
<1>2. 0 \in P
  <2> DEFINE f == [s \in SUBSET S |-> x]
  <2>1. \A s \in SUBSET S : Cardinality(s) <= 0 => s = {}
    <3> TAKE s \in SUBSET S
    <3>1. Cardinality(s) \in 0..n /\ IsFiniteSet(s) BY <1>1
    <3>2. Cardinality(s) <= 0 => Cardinality(s) = 0 BY <1>0, <3>1
    <3> QED BY <3>1, <3>2, FS_EmptySet
  <2>2. Goes(0, f) BY <2>1
  <2>3. \E g : Goes(0, g) BY <2>2
  <2> HIDE DEF Goes
  <2> QED BY <1>0, <2>3
<1>3. ASSUME NEW k \in 1..n, k - 1 \in P PROVE k \in P
  <2>1. PICK f : Goes(k - 1, f) BY <1>3
  <2> DEFINE g == [s \in SUBSET S |-> next(f, s)]
  <2>2. ASSUME NEW s \in SUBSET S, Cardinality(s) <= k PROVE g[s] = next(g, s)
    <3>1. CASE s = {} BY <3>1
    <3>2. CASE s # {}
      <4> DEFINE t == s \ {pick(s)}
      <4>1. t \in SUBSET S /\ Cardinality(t) <= k - 1
        <5>1. Cardinality(t) = Cardinality(s) - 1 /\ Cardinality(s) \in Nat
          BY <1>1, <3>2, FewerLeft
        <5> HIDE DEF t
        <5>2. Cardinality(t) <= k - 1 BY <2>2, <5>1
        <5> QED BY <5>2 DEF t
      <4>2. f[t] = next(f, t) BY <2>1, <4>1
      <4>3. g[t] = f[t] BY <4>1, <4>2
      <4>4. g[s] = next(f, s) OBVIOUS
      <4> QED BY <3>2, <4>3, <4>4
    <3> QED BY <3>1, <3>2
  <2>3. g = [s \in SUBSET S |-> g[s]] OBVIOUS
  <2> HIDE DEF g, next
  <2>4. Goes(k, g) BY <2>2, <2>3
  <2>5. k \in 0..n BY <1>0
  <2> HIDE DEF Goes
  <2> QED BY <2>4, <2>5
<1>4. n \in P
  <2> HIDE DEF P
  <2>1. \A k \in 0..n : k \in P BY <1>0, <1>2, <1>3, PrefixInduction
  <2> QED BY <1>0, <2>1
<1>5. PICK f : Goes(n, f) BY <1>4
<1>6. \A s \in SUBSET S : Cardinality(s) <= n BY <1>0, <1>1
<1> QED BY <1>5, <1>6 DEF ReleasesOver, pick

LEMMA HoldRelease ==
  ASSUME NEW x, NEW held, NEW e, Holding(x, held, e), NEW ids, IsFiniteSet(ids),
         NEW y, y = ReleaseAll(x, ids, held), NEW g, Shrinks(held, ids, g)
  PROVE  Holding(y, g, e)
<1> DEFINE Fix(f) == f = [s \in SUBSET ids |->
                            IF s = {} THEN x ELSE Releases(f[s \ {CHOOSE c \in s : TRUE}], CHOOSE c \in s : TRUE, held)]
           iter == CHOOSE f : Fix(f)
           n == Cardinality(ids)
           P == {k \in 0..n : \A s \in SUBSET ids : Cardinality(s) = k => \A w : Shrinks(held, s, w) => Holding(iter[s], w, e)}
<1>1. y = iter[ids] BY Zenon DEF ReleaseAll, FoldSet, MapThenFoldSet, Releases
<1>2. PICK f : ReleasesOver(f, x, held, ids) BY ReleasesExist
<1>3. Fix(f) BY <1>2 DEF ReleasesOver
<1>4. Fix(iter) BY <1>3
<1> HIDE DEF iter
<1>5. \A s \in SUBSET ids :
        iter[s] = IF s = {} THEN x ELSE Releases(iter[s \ {CHOOSE c \in s : TRUE}], CHOOSE c \in s : TRUE, held)
  BY <1>4
<1> HIDE DEF Fix
<1>6. n \in Nat BY FS_CardinalityType
<1>7. \A s \in SUBSET ids : IsFiniteSet(s) /\ Cardinality(s) \in 0..n
  <2> TAKE s \in SUBSET ids
  <2>1. IsFiniteSet(s) /\ Cardinality(s) <= n BY FS_Subset
  <2>2. Cardinality(s) \in Nat BY <2>1, FS_CardinalityType
  <2> QED BY <1>6, <2>1, <2>2
<1>8. 0 \in P
  <2>1. ASSUME NEW s \in SUBSET ids, Cardinality(s) = 0, NEW w, Shrinks(held, s, w) PROVE Holding(iter[s], w, e)
    <3>1. s = {} BY <1>7, <2>1, FS_EmptySet
    <3>2. iter[s] = x BY <1>5, <3>1
    <3>3. Shrinks(held, {}, w) BY <2>1, <3>1
    <3>4. Shrinks(e, {}, e) BY DEF Shrinks
    <3> QED BY <3>2, <3>3, <3>4, HoldSame
  <2> QED BY <1>6, <2>1
<1>9. ASSUME NEW k \in 1..n, k - 1 \in P PROVE k \in P
  <2>1. ASSUME NEW s \in SUBSET ids, Cardinality(s) = k, NEW w, Shrinks(held, s, w) PROVE Holding(iter[s], w, e)
    <3>1. s # {}
      <4>1. Cardinality(s) # 0 BY <2>1
      <4> QED BY <4>1, FS_EmptySet
    <3>2. PICK c : c = CHOOSE d \in s : TRUE OBVIOUS
    <3>3. c \in s BY <3>1, <3>2
    <3>4. PICK t : t = s \ {c} OBVIOUS
    <3>5. t \in SUBSET ids /\ Cardinality(t) = k - 1 BY <1>7, <2>1, <3>3, <3>4, FewerLeft
    <3>6. PICK v : v = Restrict(held, DOMAIN held \ t) OBVIOUS
    <3>7. Shrinks(held, t, v) BY <3>6 DEF Shrinks, Restrict
    <3>8. Holding(iter[t], v, e) BY <1>9, <3>5, <3>7
    <3>9. iter[s] = Releases(iter[t], c, held) BY <1>5, <3>1, <3>2, <3>4
    <3>10. Shrinks(v, {c}, w) BY <2>1, <3>3, <3>4, <3>7 DEF Shrinks
    <3>11. (c \in DOMAIN v <=> c \in DOMAIN held) /\ (c \in DOMAIN v => v[c] = held[c])
      BY <3>4, <3>7 DEF Shrinks
    <3> QED BY <3>8, <3>9, <3>10, <3>11, HoldLeave
  <2> QED BY <1>6, <2>1
<1>10. n \in P
  <2> HIDE DEF P
  <2>1. \A k \in 0..n : k \in P BY <1>6, <1>8, <1>9, PrefixInduction
  <2> QED BY <1>6, <2>1
<1> QED BY <1>1, <1>10

-----------------------------------------------------------------------------
(* The pages, step by step *)

CacheOK == Kept(cache, Nat) /\ pc # "panicked"

PagesOK == Holding(exec, segs, cache.entry) /\ CacheOK

LEMMA PagesOKIs ==
  /\ PagesOK <=> Holding(exec, segs, cache.entry) /\ Kept(cache, Nat) /\ pc # "panicked"
  /\ PagesOK' <=> Holding(exec', segs', cache'.entry) /\ Kept(cache', Nat) /\ pc' # "panicked"
BY DEF PagesOK, CacheOK

\* A step that leaves the pool and the tables alone.
LEMMA QuietKeeps ==
  ASSUME PagesOK, Keeps(exec, exec'), UNCHANGED <<segs, cache>>, pc' # "panicked"
  PROVE  PagesOK'
<1>1. PICK x, y, held, c : x = exec /\ y = exec' /\ held = segs /\ c = cache OBVIOUS
<1>2. Holding(x, held, c.entry) /\ Kept(c, Nat) BY <1>1, PagesOKIs
<1>3. Keeps(x, y) BY <1>1
<1>4. Holding(y, held, c.entry) BY <1>2, <1>3, HoldKeep
<1>5. segs' = held /\ cache' = c BY <1>1
<1> QED BY <1>1, <1>2, <1>4, <1>5, PagesOKIs

LEMMA StillKeeps ==
  ASSUME PagesOK, UNCHANGED <<exec, segs, cache>>, pc' # "panicked"
  PROVE  PagesOK'
BY PagesOKIs

\* Requests leave.
LEMMA LeavingPages ==
  ASSUME PagesOK, NEW ids, IsFiniteSet(ids), NEW x, Keeps(exec, x), exec' = ReleaseAll(x, ids, segs),
         segs' = Restrict(segs, DOMAIN segs \ ids), cache' = cache, pc' # "panicked"
  PROVE  PagesOK'
<1>1. PICK held, e, w : held = segs /\ e = cache.entry /\ w = exec OBVIOUS
<1>2. Holding(x, held, e)
  <2>1. Holding(w, held, e) /\ Keeps(w, x) BY <1>1, PagesOKIs
  <2> QED BY <2>1, HoldKeep
<1>3. PICK y : y = ReleaseAll(x, ids, held) OBVIOUS
<1>4. PICK g : g = Restrict(held, DOMAIN held \ ids) OBVIOUS
<1>5. Shrinks(held, ids, g) BY <1>4 DEF Shrinks, Restrict
<1>6. Holding(y, g, e) BY <1>2, <1>3, <1>5, HoldRelease
<1>7. exec' = y /\ segs' = g /\ cache'.entry = e BY <1>1, <1>3, <1>4
<1>8. Kept(cache', Nat) BY PagesOKIs
<1> QED BY <1>6, <1>7, <1>8, PagesOKIs

LEMMA LeaversFinite == ASSUME Inv, NEW ids \in SUBSET Live PROVE IsFiniteSet(ids)
<1>1. IsFiniteSet(Live) BY Views DEF Inv
<1> QED BY <1>1, FS_Subset

LEMMA ExecIs == ASSUME PagesOK PROVE IsExec(exec) /\ Keeps(exec, exec) /\ Keeps(exec, FlushSingleton(exec))
<1>1. PICK x : x = exec OBVIOUS
<1>2. IsExec(x) BY <1>1, PagesOKIs DEF Holding
<1>3. Keeps(x, x) /\ Keeps(x, FlushSingleton(x)) BY <1>2, PartKeeps, SingleKeeps
<1> QED BY <1>1, <1>2, <1>3

-----------------------------------------------------------------------------
(* Commands, admission and batches *)

LEMMA AbortPages ==
  ASSUME Inv, PagesOK, NEW c, AbortCmd(c), cache' = cache, pc' # "panicked"
  PROVE  PagesOK'
<1>1. CASE c \in DOMAIN meta
  <2>1. exec' = ReleaseAll(exec, {c}, segs) /\ segs' = Restrict(segs, DOMAIN segs \ {c})
    BY <1>1 DEF AbortCmd, AbortReqs, Forget
  <2>2. IsFiniteSet({c}) BY FS_Singleton
  <2> QED BY <2>1, <2>2, ExecIs, LeavingPages
<1>2. CASE c \notin DOMAIN meta
  <2>1. UNCHANGED <<exec, segs>> BY <1>2 DEF AbortCmd, books
  <2> QED BY <2>1, StillKeeps
<1> QED BY <1>1, <1>2

LEMMA HandleCmdPages == ASSUME Inv, PagesOK, HandleCmd PROVE PagesOK'
<1>1. pc = "cmds" /\ cache' = cache BY DEF HandleCmd
<1>2. PICK c : c = Head(cmds).id OBVIOUS
<1>3. CASE Submit(c) /\ UNCHANGED <<exec, pc>>
  <2>1. segs' = segs BY <1>3 DEF Submit, books
  <2> QED BY <1>1, <1>3, <2>1, StillKeeps
<1>4. CASE AbortCmd(c) /\ pc' = pc BY <1>1, <1>4, AbortPages
<1>5. CASE pc' = "stopped" /\ UNCHANGED <<books, exec>>
  <2>1. segs' = segs BY <1>5 DEF books
  <2> QED BY <1>1, <1>5, <2>1, StillKeeps
<1>6. \/ Submit(c) /\ UNCHANGED <<exec, pc>>
      \/ AbortCmd(c) /\ pc' = pc
      \/ pc' = "stopped" /\ UNCHANGED <<books, exec>>
  BY <1>2 DEF HandleCmd
<1> QED BY <1>3, <1>4, <1>5, <1>6

LEMMA AdmitPages == ASSUME Inv, PagesOK, AdmitSchedule PROVE PagesOK'
<1> DEFINE ids == Range(Selection.preempted)
<1>1. exec' = ReleaseAll(exec, ids, segs) /\ segs' = Restrict(segs, DOMAIN segs \ ids) /\ cache' = cache /\ pc' = "prefill"
  BY DEF AdmitSchedule
<1>2. ids \in SUBSET Live
  <2>1. Selection.preempted \in Seq(decoding) BY SelectionFacts
  <2>2. Range(Selection.preempted) \subseteq decoding BY <2>1 DEF Range
  <2>3. decoding \subseteq Live BY DEF Inv, TablesOK
  <2> QED BY <2>2, <2>3
<1> HIDE DEF ids
<1>3. IsFiniteSet(ids) BY <1>2, LeaversFinite
<1> QED BY <1>1, <1>3, ExecIs, LeavingPages

LEMMA DecodePages == ASSUME Inv, PagesOK, DecodeBatchRuns PROVE PagesOK'
<1>1. segs' = segs /\ cache' = cache /\ pc' # "panicked" BY DEF DecodeBatchRuns, books
<1>2. PICK x, rs : x = exec /\ rs = ExecReqs OBVIOUS
<1>3. IsExec(x) BY <1>2, ExecIs
<1>4. Keeps(x, x) /\ Keeps(x, DecodeBatch(x, rs)) BY <1>3, PartKeeps, DecodeKeeps
<1>5. exec' = x \/ exec' = DecodeBatch(x, rs) BY <1>2 DEF DecodeBatchRuns
<1>6. Keeps(exec, exec') BY <1>2, <1>4, <1>5
<1> QED BY <1>1, <1>6, QuietKeeps

LEMMA BatchFailPages == ASSUME Inv, PagesOK, DecodeBatchFails PROVE PagesOK'
<1>1. PICK x : x = IF Cardinality(decoding) > 1 THEN FlushSingleton(exec) ELSE exec OBVIOUS
<1>2. exec' = ReleaseAll(x, decoding, segs) /\ segs' = Restrict(segs, DOMAIN segs \ decoding) /\ cache' = cache /\ pc' = "cmds"
  BY <1>1 DEF DecodeBatchFails, AbortReqs, Forget
<1>3. decoding \in SUBSET Live BY DEF Inv, TablesOK
<1>4. IsFiniteSet(decoding) BY <1>3, LeaversFinite
<1>5. Keeps(exec, x) BY <1>1, ExecIs
<1> QED BY <1>2, <1>4, <1>5, LeavingPages

LEMMA SampleFailPages == ASSUME Inv, PagesOK, NEW c, SampleFails(c) PROVE PagesOK'
<1>1. exec' = ReleaseAll(exec, {c}, segs) /\ segs' = Restrict(segs, DOMAIN segs \ {c}) /\ cache' = cache /\ pc' # "panicked"
  BY DEF SampleFails, AbortReqs, Forget, StepOver
<1>2. IsFiniteSet({c}) BY FS_Singleton
<1> QED BY <1>1, <1>2, ExecIs, LeavingPages

LEMMA TokenPages == ASSUME Inv, PagesOK, NEW c, NEW token, TokenConfirmed(c, token) PROVE PagesOK'
<1>1. cache' = cache /\ pc' # "panicked" BY DEF TokenConfirmed, StepOver
<1>2. CASE c \in gone
  <2>1. exec' = ReleaseAll(exec, {c}, segs) /\ segs' = Restrict(segs, DOMAIN segs \ {c})
    BY <1>2 DEF TokenConfirmed, AbortReqs, Forget
  <2>2. IsFiniteSet({c}) BY FS_Singleton
  <2> QED BY <1>1, <2>1, <2>2, ExecIs, LeavingPages
<1>3. CASE c \notin gone
  <2>1. UNCHANGED <<exec, segs>> BY <1>3 DEF TokenConfirmed
  <2> QED BY <1>1, <2>1, StillKeeps
<1> QED BY <1>2, <1>3

-----------------------------------------------------------------------------
(* Prefill *)

LEMMA JobHolds ==
  ASSUME Inv, PagesOK, pc = "prefill", plan # <<>>, Runnable, NEW x, x = JobExec, NEW g, g = WithSeg(JobSeg)
  PROVE  Holding(x, g, cache.entry)
<1>1. PICK held, e, w, d, s : held = segs /\ e = cache.entry /\ w = exec /\ d = Job.id /\ s = JobSeg OBVIOUS
<1>2. Holding(w, held, e) BY <1>1, PagesOKIs
<1>3. g = [c \in DOMAIN held \union {d} |-> IF c = d THEN s ELSE held[c]] BY <1>1 DEF WithSeg
<1>4. /\ d \in Live /\ reqs[d].st \in {"Waiting", "Chunked", "Preempted"}
      /\ DOMAIN held = {c \in Live : reqs[c].st \in {"Chunked", "Decode"}}
  BY <1>1, JobFacts DEF Inv, TablesOK
<1>5. CASE Starting
  <2>1. d \notin DOMAIN held BY <1>1, <1>4, <1>5 DEF Starting
  <2>2. s = AllocSeg(w.pool, WindowPages) /\ CanAlloc(w.pool, WindowPages)
    BY <1>1, <1>5 DEF JobSeg, Runnable, NoWindow
  <2>3. x = [w EXCEPT !.pool = Alloc(w.pool, WindowPages)] BY <1>1, <1>5, Zenon DEF JobExec
  <2>4. Grows(held, d, AllocSeg(w.pool, WindowPages), g) BY <1>3, <2>1, <2>2 DEF Grows
  <2>5. Holding(x, g, e) BY <1>2, <2>2, <2>3, <2>4, HoldAlloc
  <2> QED BY <1>1, <2>5
<1>6. CASE ~Starting
  <2>1. d \in DOMAIN held BY <1>1, <1>4, <1>6 DEF Starting
  <2>2. x = w /\ s = held[d] BY <1>1, <1>6 DEF JobExec, JobSeg
  <2>3. Shrinks(held, {}, g) BY <1>3, <2>1, <2>2 DEF Shrinks
  <2>4. Shrinks(e, {}, e) BY DEF Shrinks
  <2>5. Holding(x, g, e) BY <1>2, <2>2, <2>3, <2>4, HoldSame
  <2> QED BY <1>1, <2>5
<1> QED BY <1>5, <1>6

LEMMA StagedKeeps ==
  ASSUME NEW x, IsExec(x), x = JobExec
  PROVE  Keeps(x, Staged) /\ Keeps(x, Placed(TRUE)) /\ Keeps(x, Placed(FALSE))
<1>1. PICK ids : ids = SubSeq(Prompt[Job.id], Job.start + 1, JobEnd) OBVIOUS
<1>2. PICK hit : hit = Lookup(cache, Prompt[Job.id]) OBVIOUS
<1>3. PICK suffix : suffix = SubSeq(Prompt[Job.id], hit.keyLen + 1, JobEnd) OBVIOUS
<1>4. PICK y : y = Staged OBVIOUS
<1>5. y = PrefillPrefixHit(x, hit.base, hit.keyLen, suffix) \/ y = Prefill(x, ids)
  BY <1>1, <1>2, <1>3, <1>4 DEF Staged
<1>6. Keeps(x, y) BY <1>5, PrefillKeeps
<1>7. IsExec(y) BY <1>6 DEF Keeps
<1>8. PICK id, seg, start, len : id = Job.id /\ seg = JobSeg /\ start = Job.start /\ len = JobEnd - Job.start OBVIOUS
<1>9. Keeps(y, CommitStage(y, seg, start, len)) /\ Keeps(y, AdoptSingleton(y, id, seg, start, len)) BY <1>7, PlaceKeeps
<1>10. Placed(TRUE) = AdoptSingleton(y, id, seg, start, len) /\ Placed(FALSE) = CommitStage(y, seg, start, len)
  BY <1>4, <1>8 DEF Placed
<1>11. Keeps(x, CommitStage(y, seg, start, len)) /\ Keeps(x, AdoptSingleton(y, id, seg, start, len))
  BY <1>6, <1>9, KeepsOn
<1> QED BY <1>4, <1>6, <1>10, <1>11

LEMMA PrefillAbortPages ==
  ASSUME Inv, PagesOK, NEW r, NEW w, NEW x, w = JobExec, IsExec(w) => Keeps(w, x), PrefillAborts(r, x)
  PROVE  PagesOK'
<1>1. pc = "prefill" /\ plan # <<>> /\ Runnable /\ pc' = pc /\ cache' = cache BY DEF PrefillAborts, PrefillStep
<1>2. PICK d, held, e, g : d = Job.id /\ held = segs /\ e = cache.entry /\ g = WithSeg(JobSeg) OBVIOUS
<1>3. Holding(w, g, e) BY <1>1, <1>2, JobHolds
<1>4. Holding(x, g, e)
  <2>1. Keeps(w, x) BY <1>3 DEF Holding
  <2> QED BY <1>3, <2>1, HoldKeep
<1>5. PICK y : y = ReleaseAll(x, {d}, g) OBVIOUS
<1>6. PICK h : h = Restrict(held, DOMAIN held \ {d}) OBVIOUS
<1>7. Shrinks(g, {d}, h)
  <2>1. PICK s : s = JobSeg OBVIOUS
  <2>2. g = [c \in DOMAIN held \union {d} |-> IF c = d THEN s ELSE held[c]] BY <1>2, <2>1 DEF WithSeg
  <2>3. DOMAIN h = DOMAIN held \ {d} /\ \A c \in DOMAIN h : h[c] = held[c] BY <1>6 DEF Restrict
  <2> QED BY <2>2, <2>3 DEF Shrinks
<1>8. IsFiniteSet({d}) BY FS_Singleton
<1>9. Holding(y, h, e) BY <1>4, <1>5, <1>7, <1>8, HoldRelease
<1>10. exec' = y /\ segs' = h /\ cache'.entry = e BY <1>1, <1>2, <1>5, <1>6 DEF PrefillAborts, AbortReqs, Forget
<1>11. Kept(cache', Nat) BY <1>1, PagesOKIs
<1> QED BY <1>1, <1>9, <1>10, <1>11, PagesOKIs

LEMMA PrefillFailPages == ASSUME Inv, PagesOK, PrefillFails PROVE PagesOK'
<1>1. PICK w : w = JobExec OBVIOUS
<1>2. CASE PrefillAborts(JobReq, FlushSingleton(JobExec))
  <2>1. PICK x, r : x = FlushSingleton(w) /\ r = JobReq OBVIOUS
  <2>2. IsExec(w) => Keeps(w, x) BY <2>1, SingleKeeps
  <2>3. PrefillAborts(r, x) BY <1>1, <1>2, <2>1
  <2> QED BY <1>1, <2>2, <2>3, PrefillAbortPages
<1>3. CASE PrefillAborts(JobReq, [JobExec EXCEPT !.single = NoSingle])
  <2>1. PICK x, r : x = [w EXCEPT !.single = NoSingle] /\ r = JobReq OBVIOUS
  <2>2. IsExec(w) => Keeps(w, x) BY <2>1, SingleKeeps
  <2>3. PrefillAborts(r, x) BY <1>1, <1>3, <2>1
  <2> QED BY <1>1, <2>2, <2>3, PrefillAbortPages
<1>4. CASE PrefillAborts(Confirm(JobReq), Staged)
  <2>1. PICK x, r : x = Staged /\ r = Confirm(JobReq) OBVIOUS
  <2>2. IsExec(w) => Keeps(w, x) BY <1>1, <2>1, StagedKeeps
  <2>3. PrefillAborts(r, x) BY <1>4, <2>1
  <2> QED BY <1>1, <2>2, <2>3, PrefillAbortPages
<1> QED BY <1>2, <1>3, <1>4 DEF PrefillFails

LEMMA PrefillConfirmPages == ASSUME Inv, PagesOK, PrefillConfirmed PROVE PagesOK'
<1>1. pc = "prefill" /\ plan # <<>> /\ Runnable /\ pc' = pc /\ cache' = cache /\ segs' = WithSeg(JobSeg)
  BY DEF PrefillConfirmed, PrefillStep
<1>2. PICK e, g, w : e = cache.entry /\ g = WithSeg(JobSeg) /\ w = JobExec OBVIOUS
<1>3. Holding(w, g, e) BY <1>1, <1>2, JobHolds
<1>4. exec' = Placed(TRUE) \/ exec' = Placed(FALSE)
  <2>1. PICK lone \in BOOLEAN : exec' = Placed(lone) BY DEF PrefillConfirmed
  <2> QED BY <2>1
<1>5. PICK y : y = exec' OBVIOUS
<1>6. Keeps(w, y)
  <2>1. IsExec(w) BY <1>3 DEF Holding
  <2>2. Keeps(w, Placed(TRUE)) /\ Keeps(w, Placed(FALSE)) BY <1>2, <2>1, StagedKeeps
  <2> QED BY <1>4, <1>5, <2>2
<1>7. Holding(y, g, e) BY <1>3, <1>6, HoldKeep
<1>8. segs' = g /\ cache'.entry = e BY <1>1, <1>2
<1>9. Kept(cache', Nat) BY <1>1, PagesOKIs
<1> QED BY <1>1, <1>5, <1>7, <1>8, <1>9, PagesOKIs

-----------------------------------------------------------------------------
(* The end of a request *)

LEMMA KeyFacts ==
  ASSUME NEW c \in Client, NEW key, key = CacheKey(c), KeyPages(c) > 0
  PROVE  /\ key \in Seq(Nat) /\ Len(key) = PagesOf(key) * Block /\ PagesOf(key) = KeyPages(c)
         /\ PagesOf(key) \in Nat /\ PagesOf(key) \in 1..LayerPages
<1>1. /\ Prompt[c] \in Seq(Nat) /\ Block \in Nat \ {0} /\ MaxTokens[c] \in Nat /\ MaxLen \in Nat
      /\ Len(Prompt[c]) + MaxTokens[c] <= MaxLen
  BY LoopAssumption, ConfigAssumption
<1>2. PICK p \in Seq(Nat) : p = Prompt[c] BY <1>1
<1>3. PICK n \in Nat : n = Len(p) OBVIOUS
<1>4. n <= MaxLen BY <1>1, <1>2, <1>3
<1>5. PICK k \in Nat : k = n \div Block BY <1>1, DivMod
<1>6. PICK m \in Nat : m = k * Block /\ m <= n BY <1>1, <1>5, DivMod
<1>7. key = SubSeq(p, 1, m) BY <1>2, <1>3, <1>5, <1>6 DEF CacheKey
<1>8. key \in Seq(Nat) /\ Len(key) = m BY <1>3, <1>6, <1>7, CutFacts
<1>9. PagesOf(key) = k
  <2>1. (k * Block) \div Block = k BY <1>1, PagesExact
  <2> QED BY <1>6, <1>8, <2>1 DEF PagesOf
<1>10. KeyPages(c) = PagesOf(key) BY DEF KeyPages, PagesOf
<1>11. k <= LayerPages /\ LayerPages \in Nat BY <1>4, <1>5, WindowFacts
<1>12. k \in 1..LayerPages BY <1>9, <1>10, <1>11
<1> QED BY <1>6, <1>8, <1>9, <1>10, <1>12

LEMMA TouchPages ==
  ASSUME NEW c, Kept(c, Nat), NEW ids \in Seq(Nat), NEW d, d = Touch(c, ids)
  PROVE  Kept(d, Nat) /\ d.entry = c.entry
<1>1. Block \in Nat \ {0} BY ConfigAssumption
<1>2. CASE ~Hits(c, ids) BY <1>2 DEF Touch
<1>3. CASE Hits(c, ids)
  <2>1. PICK key : key = Serving(c, ids) OBVIOUS
  <2>2. key \in Keys(c) BY <1>1, <1>3, <2>1, ServingIs DEF Kept
  <2>3. d = [c EXCEPT !.lru = Youngest(@, key)] BY <1>3, <2>1, Zenon DEF Touch
  <2> QED BY <1>1, <2>2, <2>3, YoungestKept
<1> QED BY <1>2, <1>3

\* The key of a refill is new, and the insert does not lose its path.
LEMMA NewKeyOf ==
  ASSUME NEW r, Kept(r, Nat), r = cache, NEW c \in Client, Refills(c), NEW key, key = CacheKey(c)
  PROVE  NewKey(r, Nat, key) /\ ~PathGone(r, key)
<1>1. KeyPages(c) > 0 /\ KeyPages(c) <= CachePages /\ HitLen(r, key) # Len(key) BY DEF Refills, SameKey
<1>2. key \in Seq(Nat) /\ Len(key) = PagesOf(key) * Block /\ PagesOf(key) = KeyPages(c) /\ PagesOf(key) \in Nat
  BY <1>1, KeyFacts
<1>3. RadixAssumption /\ Block \in Nat \ {0} /\ CachePages \in Nat BY RadixAssumption
<1>4. PagesOf(key) \in 1..CachePages
  <2>1. PICK n \in Nat : n = PagesOf(key) BY <1>2
  <2>2. n > 0 /\ n <= CachePages BY <1>1, <1>2, <2>1
  <2> QED BY <1>3, <2>1, <2>2
<1>5. HitLen(r, key) < Len(key)
  <2>1. HitLen(r, key) \in 0..Len(key) BY <1>2, <1>3, HitFacts DEF Kept
  <2>2. Len(key) \in Nat BY <1>2
  <2> QED BY <1>1, <2>1, <2>2
<1> QED BY <1>2, <1>3, <1>4, <1>5, MissIsSafe

\* What an end does to the cache.
LEMMA EndCache ==
  ASSUME Inv, CacheOK, NEW c, NEW kind, Ends(c, kind)
  PROVE  CacheOK'
<1>1. ConfirmOf(c) /\ Released(c) BY DEF Ends
<1>2. c \in Client BY <1>1 DEF ConfirmOf, Inv, TablesOK, Shape
<1>3. PICK r, d, key : r = cache /\ d = cache' /\ key = CacheKey(c) OBVIOUS
<1>4. Kept(r, Nat) BY <1>3 DEF CacheOK
<1>5. CASE Refills(c)
  <2>1. NewKey(r, Nat, key) /\ ~PathGone(r, key) BY <1>2, <1>3, <1>4, <1>5, NewKeyOf
  <2>2. PICK base : base = segs[c].base OBVIOUS
  <2>3. StepOver /\ d = Insert(r, key, base) BY <1>1, <1>3, <1>5, <2>1, <2>2 DEF Released
  <2>4. Inserts(r, Nat, key, base, d) BY <1>4, <2>1, <2>3, InsertKept, RadixAssumption
  <2>5. Kept(d, Nat) BY <2>4 DEF Inserts
  <2> QED BY <1>3, <2>3, <2>5 DEF CacheOK, StepOver
<1>6. CASE ~Refills(c)
  <2>1. StepOver /\ d = IF Touches(c) THEN Touch(r, key) ELSE r BY <1>1, <1>3, <1>6 DEF Released
  <2>2. Kept(d, Nat)
    <3>1. CASE ~Touches(c)
      <4>1. d = r BY <2>1, <3>1
      <4> QED BY <1>4, <4>1
    <3>2. CASE Touches(c)
      <4>1. key \in Seq(Nat) BY <1>2, <1>3, <3>2, KeyFacts DEF Touches
      <4>2. d = Touch(r, key) BY <2>1, <3>2
      <4> QED BY <1>4, <4>1, <4>2, TouchPages
    <3> QED BY <3>1, <3>2
  <2> QED BY <1>3, <2>1, <2>2 DEF CacheOK, StepOver
<1> QED BY <1>5, <1>6

\* The prefix of the window that ends goes to the cache, for entries that leave it.
LEMMA RefillPages ==
  ASSUME PagesOK, "refill" \notin Failing, NEW c \in Client, c \in DOMAIN segs, Refills(c), Released(c),
         segs' = Restrict(segs, DOMAIN segs \ {c})
  PROVE  PagesOK'
<1>1. PICK key : key = CacheKey(c) OBVIOUS
<1>2. PICK x, held, r, e : x = exec /\ held = segs /\ r = cache /\ e = r.entry OBVIOUS
<1>3. Kept(r, Nat) /\ Holding(x, held, e) BY <1>2, PagesOKIs
<1>4. KeyPages(c) > 0 /\ KeyPages(c) <= CachePages /\ HitLen(r, key) # Len(key) BY <1>1, <1>2 DEF Refills, SameKey
<1>5. /\ key \in Seq(Nat) /\ Len(key) = PagesOf(key) * Block /\ PagesOf(key) = KeyPages(c)
      /\ PagesOf(key) \in Nat /\ PagesOf(key) \in 1..LayerPages
  BY <1>1, <1>4, KeyFacts
<1>6. RadixAssumption BY RadixAssumption
<1>9. NewKey(r, Nat, key) /\ ~PathGone(r, key) BY <1>1, <1>2, <1>3, NewKeyOf
<1>10. PICK base : base = held[c].base OBVIOUS
<1>11. PICK d : d = Insert(r, key, base) OBVIOUS
<1>12. Inserts(r, Nat, key, base, d) BY <1>3, <1>6, <1>9, <1>11, InsertKept
<1>13. PICK seq : seq = Evicted(r, key) OBVIOUS
<1>14. /\ Kept(d, Nat) /\ DOMAIN d.entry = (DOMAIN e \ Among(seq)) \union {key}
       /\ \A k \in DOMAIN d.entry : d.entry[k] = IF k = key THEN base ELSE e[k]
       /\ seq \in Seq(DOMAIN e) /\ Distinct(seq) /\ key \notin DOMAIN e
  BY <1>2, <1>9, <1>12, <1>13 DEF Inserts, Keys, NewKey
<1>15. PICK y : y = Unreferencing(e, x, seq) OBVIOUS
<1>16. PICK f : f = Restrict(e, DOMAIN e \ Among(seq)) OBVIOUS
<1>17. Shrinks(e, Among(seq), f) BY <1>16 DEF Shrinks, Restrict
<1>18. Holding(y, held, f) BY <1>3, <1>14, <1>15, <1>17, HoldEvictions
<1>19. PICK g : g = Restrict(held, DOMAIN held \ {c}) OBVIOUS
<1>20. Shrinks(held, {c}, g) BY <1>19 DEF Shrinks, Restrict
<1>21. PICK h : h = d.entry OBVIOUS
<1>22. Grows(f, key, held[c].base, h) BY <1>10, <1>14, <1>17, <1>21 DEF Grows, Shrinks
<1>23. PICK z : z = RefillPrefix(y, c, held[c], PagesOf(key)) OBVIOUS
<1>24. c \in DOMAIN held BY <1>2
<1>25. Holding(z, g, h) BY <1>5, <1>18, <1>20, <1>22, <1>23, <1>24, HoldRefill
<1>26. EvictedFor(c) = seq BY <1>2, <1>5, <1>13 DEF EvictedFor, Evicted
<1>27. Unreferenced(c) = y
  <2>1. Unreferenced(c) = Unreferencing(cache.entry, exec, EvictedFor(c)) BY Zenon DEF Unreferenced, Unreferencing
  <2> QED BY <1>2, <1>15, <1>26, <2>1, Zenon
<1>28. Refilled(c) = z BY <1>2, <1>5, <1>23, <1>27 DEF Refilled
<1>29. ~PathGone(cache, CacheKey(c)) BY <1>1, <1>2, <1>9
<1>30. /\ StepOver /\ cache' = Insert(cache, CacheKey(c), segs[c].base)
       /\ faults' \in {faults} \union {n \in {faults + 1} : RefillCopyFails(c)}
       /\ exec' = IF faults' = faults THEN Refilled(c) ELSE NotRefilled(c)
  BY <1>29 DEF Released
<1>31. ~RefillCopyFails(c) BY DEF RefillCopyFails
<1>32. faults' = faults BY <1>30, <1>31
<1>33. exec' = z /\ cache' = d /\ segs' = g /\ pc' # "panicked"
  BY <1>1, <1>2, <1>10, <1>11, <1>19, <1>28, <1>30, <1>32 DEF StepOver
<1> QED BY <1>14, <1>21, <1>25, <1>33, PagesOKIs

LEMMA EndPages ==
  ASSUME Inv, PagesOK, "refill" \notin Failing, NEW c, NEW kind, Ends(c, kind)
  PROVE  PagesOK'
<1>1. ConfirmOf(c) /\ Released(c) /\ segs' = Restrict(segs, DOMAIN segs \ {c}) BY DEF Ends, Forget
<1>2. c \in Client /\ c \in DOMAIN segs
  <2>1. c \in decoding BY <1>1 DEF ConfirmOf, Inv, TablesOK
  <2>2. c \in Live /\ reqs[c].st = "Decode" BY <2>1 DEF Inv, TablesOK, Queued
  <2> QED BY <2>2 DEF Inv, Shape, TablesOK
<1>3. CASE Refills(c) BY <1>1, <1>2, <1>3, RefillPages
<1>4. CASE ~Refills(c)
  <2>1. /\ StepOver /\ exec' = FreeSegment(exec, segs[c])
        /\ cache' = IF Touches(c) THEN Touch(cache, CacheKey(c)) ELSE cache
    BY <1>1, <1>4 DEF Released
  <2>2. PICK x, held, r, e : x = exec /\ held = segs /\ r = cache /\ e = r.entry OBVIOUS
  <2>3. Kept(r, Nat) /\ Holding(x, held, e) BY <2>2, PagesOKIs
  <2>4. PICK d : d = cache' OBVIOUS
  <2>5. Kept(d, Nat) /\ d.entry = e
    <3>1. CASE ~Touches(c)
      <4>1. d = r BY <2>1, <2>2, <2>4, <3>1
      <4> QED BY <2>2, <2>3, <4>1
    <3>2. CASE Touches(c)
      <4>1. PICK key : key = CacheKey(c) OBVIOUS
      <4>2. key \in Seq(Nat) BY <1>2, <3>2, <4>1, KeyFacts DEF Touches
      <4>3. d = Touch(r, key) BY <2>1, <2>2, <2>4, <3>2, <4>1
      <4> QED BY <2>2, <2>3, <4>2, <4>3, TouchPages
    <3> QED BY <3>1, <3>2
  <2>6. PICK y : y = FreeSegment(x, held[c]) OBVIOUS
  <2>7. PICK g : g = Restrict(held, DOMAIN held \ {c}) OBVIOUS
  <2>8. Shrinks(held, {c}, g) BY <2>7 DEF Shrinks, Restrict
  <2>9. c \in DOMAIN held BY <1>2, <2>2
  <2>10. Holding(y, g, e) BY <2>3, <2>6, <2>8, <2>9, HoldFree
  <2>11. exec' = y /\ segs' = g /\ pc' # "panicked" BY <1>1, <2>1, <2>2, <2>6, <2>7 DEF StepOver
  <2> QED BY <2>4, <2>5, <2>10, <2>11, PagesOKIs
<1> QED BY <1>3, <1>4

-----------------------------------------------------------------------------
(* The pages as a whole *)

LEMMA InitPages == ASSUME Init PROVE PagesOK
<1>1. exec = NewExec /\ cache = EmptyCache /\ segs = [c \in {} |-> Anchor] /\ pc = "cmds" BY DEF Init
<1>2. Kept(EmptyCache, Nat) /\ Keys(EmptyCache) = {} BY EmptyKept, RadixAssumption
<1>3. PICK held, e : held = segs /\ e = EmptyCache.entry OBVIOUS
<1>4. DOMAIN held = {} /\ DOMAIN e = {} BY <1>1, <1>2, <1>3 DEF Keys
<1>5. Holding(NewExec, held, e) BY <1>4, NewExecHolds
<1> QED BY <1>1, <1>2, <1>3, <1>5, PagesOKIs

LEMMA NextPages == ASSUME Inv, PagesOK, "refill" \notin Failing, [Next]_vars PROVE PagesOK'
<1>1. CASE ClientNext
  <2>1. UNCHANGED <<exec, segs, cache, pc>>
    BY <1>1 DEF ClientNext, SendSubmit, SendAbort, Disconnect, DropHandle, LoopIdle, books
  <2> QED BY <2>1, StillKeeps, PagesOKIs
<1>2. CASE HandleCmd BY <1>2, HandleCmdPages
<1>3. CASE AdmitSchedule BY <1>3, AdmitPages
<1>4. CASE PrefillPutOff
  <2>1. UNCHANGED <<exec, segs, cache, pc>> BY <1>4 DEF PrefillPutOff, PrefillStep
  <2> QED BY <2>1, StillKeeps, PagesOKIs
<1>5. CASE PrefillFails BY <1>5, PrefillFailPages
<1>6. CASE PrefillConfirmed BY <1>6, PrefillConfirmPages
<1>7. CASE DecodeBatchRuns BY <1>7, DecodePages
<1>8. CASE DecodeBatchFails BY <1>8, BatchFailPages
<1>9. ASSUME NEW c \in Client, SampleFails(c) PROVE PagesOK' BY <1>9, SampleFailPages
<1>10. ASSUME NEW c \in Client, NEW token \in Vocab, TokenConfirmed(c, token) PROVE PagesOK' BY <1>10, TokenPages
<1>11. ASSUME NEW c \in Client, NEW kind, Ends(c, kind) PROVE PagesOK' BY <1>11, EndPages
<1>12. CASE AwaitCmd \/ UNCHANGED vars
  <2>1. UNCHANGED <<exec, segs, cache, pc>> BY <1>12 DEF AwaitCmd, vars, books
  <2> QED BY <2>1, StillKeeps, PagesOKIs
<1>13. LoopNext =>
         \/ HandleCmd \/ AdmitSchedule \/ PrefillPutOff \/ PrefillFails \/ PrefillConfirmed
         \/ DecodeBatchRuns \/ DecodeBatchFails
         \/ \E c \in Client : \/ SampleFails(c)
                              \/ \E token \in Vocab : TokenConfirmed(c, token)
                              \/ \E kind \in {"token", "eos", "stop"} : Ends(c, kind)
  BY DEF LoopNext
<1>14. CASE LoopNext BY <1>2, <1>3, <1>4, <1>5, <1>6, <1>7, <1>8, <1>9, <1>10, <1>11, <1>13, <1>14
<1> QED BY <1>1, <1>12, <1>14 DEF Next

\* The cache stays sound whatever fails: only an end changes it.
LEMMA CacheSteps == ASSUME Inv, CacheOK, [Next]_vars PROVE CacheOK'
<1>1. CASE UNCHANGED cache /\ pc' # "panicked" BY <1>1 DEF CacheOK
<1>2. CASE ClientNext \/ AwaitCmd \/ UNCHANGED vars
  <2>1. UNCHANGED <<cache, pc>>
    BY <1>2 DEF ClientNext, SendSubmit, SendAbort, Disconnect, DropHandle, LoopIdle, AwaitCmd, vars
  <2> QED BY <1>1, <2>1 DEF CacheOK
<1>3. CASE HandleCmd
  <2>1. cache' = cache /\ pc' # "panicked" BY <1>3 DEF HandleCmd
  <2> QED BY <1>1, <2>1
<1>4. CASE AdmitSchedule
  <2>1. cache' = cache /\ pc' # "panicked" BY <1>4 DEF AdmitSchedule
  <2> QED BY <1>1, <2>1
<1>5. CASE PrefillPutOff \/ PrefillFails \/ PrefillConfirmed
  <2>1. PrefillStep BY <1>5 DEF PrefillPutOff, PrefillFails, PrefillAborts, PrefillConfirmed
  <2>2. cache' = cache /\ pc' # "panicked" BY <2>1 DEF PrefillStep
  <2> QED BY <1>1, <2>2
<1>6. CASE DecodeBatchRuns \/ DecodeBatchFails
  <2>1. cache' = cache /\ pc' # "panicked" BY <1>6 DEF DecodeBatchRuns, DecodeBatchFails
  <2> QED BY <1>1, <2>1
<1>7. ASSUME NEW c, SampleFails(c) PROVE CacheOK'
  <2>1. cache' = cache /\ pc' # "panicked" BY <1>7 DEF SampleFails, StepOver
  <2> QED BY <1>1, <2>1
<1>8. ASSUME NEW c, NEW token, TokenConfirmed(c, token) PROVE CacheOK'
  <2>1. cache' = cache /\ pc' # "panicked" BY <1>8 DEF TokenConfirmed, StepOver
  <2> QED BY <1>1, <2>1
<1>9. ASSUME NEW c, NEW kind, Ends(c, kind) PROVE CacheOK' BY <1>9, EndCache
<1> QED BY <1>2, <1>3, <1>4, <1>5, <1>6, <1>7, <1>8, <1>9 DEF Next, LoopNext

LEMMA PagesInvariant == ASSUME "refill" \notin Failing PROVE Spec => [](Inv /\ PagesOK)
<1>1. Init => Inv /\ PagesOK BY InitKeeps, InitPages
<1>2. (Inv /\ PagesOK) /\ [Next]_vars => (Inv /\ PagesOK)' BY NextKeeps, NextPages
<1> QED BY <1>1, <1>2, PTL DEF Spec

LEMMA OKAccounts == ASSUME PagesOK PROVE PagesAccounted
<1>1. PICK x, held, e, h : x = exec /\ held = segs /\ e = cache.entry /\ h = PagesOwned(held, e) OBVIOUS
<1>2. Holding(x, held, e) BY <1>1, PagesOKIs
<1>3. Pooled(x.pool, PoolPages) /\ Owned(x.pool.refs, h) BY <1>1, <1>2 DEF Holding
<1>4. DOMAIN exec.pool.refs = PoolPages BY <1>1, <1>3 DEF Pooled
<1>5. /\ \A d \in DOMAIN held : <<1, d>> \in DOMAIN h /\ h[<<1, d>>] = SegPages(held[d])
      /\ \A k \in DOMAIN e : <<2, k>> \in DOMAIN h /\ h[<<2, k>>] = RunsOf(e[k], PagesOf(k))
      /\ <<0, 0>> \in DOMAIN h /\ h[<<0, 0>>] = SegPages(Anchor)
  BY <1>1, OwnerFacts
<1>6. \A k : RunPages(k) = RunsOf(e[k], PagesOf(k)) BY <1>1 DEF RunPages, RunsOf
<1>7. ASSUME NEW p \in PoolPages,
             NEW owners, owners = {c \in DOMAIN segs : p \in SegPages(segs[c])},
             NEW keys, keys = {k \in Keys(cache) : p \in RunPages(k)},
             NEW a, a = IF p \in SegPages(Anchor) THEN 1 ELSE 0
      PROVE  exec.pool.refs[p] = Cardinality(owners) + Cardinality(keys) + a /\ exec.pool.refs[p] <= 1
  <2>1. \A o, q \in DOMAIN h : p \in h[o] /\ p \in h[q] => o = q BY <1>3 DEF Owned
  <2>2. x.pool.refs[p] = IF \E o \in DOMAIN h : p \in h[o] THEN 1 ELSE 0 BY <1>3 DEF Owned
  <2>3. \A d \in owners : d \in DOMAIN held /\ <<1, d>> \in DOMAIN h /\ p \in h[<<1, d>>] BY <1>1, <1>5, <1>7
  <2>4. \A k \in keys : k \in DOMAIN e /\ <<2, k>> \in DOMAIN h /\ p \in h[<<2, k>>] BY <1>1, <1>5, <1>6, <1>7 DEF Keys
  <2>5. a = 1 => p \in h[<<0, 0>>] BY <1>5, <1>7
  <2>6. \A c, d \in owners : c = d
    <3>1. \A c, d : <<1, c>> = <<1, d>> => c = d OBVIOUS
    <3> QED BY <2>1, <2>3, <3>1
  <2>7. \A c, d \in keys : c = d
    <3>1. \A c, d : <<2, c>> = <<2, d>> => c = d OBVIOUS
    <3> QED BY <2>1, <2>4, <3>1
  <2>8. owners = {} \/ keys = {}
    <3>1. \A c, d : <<1, c>> # <<2, d>> OBVIOUS
    <3> QED BY <2>1, <2>3, <2>4, <3>1
  <2>9. a = 1 => owners = {} /\ keys = {}
    <3>1. \A c : <<1, c>> # <<0, 0>> /\ <<2, c>> # <<0, 0>> OBVIOUS
    <3> QED BY <1>5, <2>1, <2>3, <2>4, <2>5, <3>1
  <2>10. (\E o \in DOMAIN h : p \in h[o]) <=> owners # {} \/ keys # {} \/ a = 1
    <3>1. ASSUME NEW o \in DOMAIN h, p \in h[o] PROVE owners # {} \/ keys # {} \/ a = 1
      <4>1. o = <<0, 0>> \/ (\E d \in DOMAIN held : o = <<1, d>>) \/ (\E k \in DOMAIN e : o = <<2, k>>)
        BY <1>1, OwnerFacts
      <4>2. CASE o = <<0, 0>> BY <1>5, <1>7, <3>1, <4>2
      <4>3. ASSUME NEW d \in DOMAIN held, o = <<1, d>> PROVE d \in owners BY <1>1, <1>5, <1>7, <3>1, <4>3
      <4>4. ASSUME NEW k \in DOMAIN e, o = <<2, k>> PROVE k \in keys BY <1>1, <1>5, <1>6, <1>7, <3>1, <4>4 DEF Keys
      <4> QED BY <4>1, <4>2, <4>3, <4>4
    <3>2. owners # {} => \E o \in DOMAIN h : p \in h[o] BY <2>3
    <3>3. keys # {} => \E o \in DOMAIN h : p \in h[o] BY <2>4
    <3>4. a = 1 => \E o \in DOMAIN h : p \in h[o] BY <1>5, <2>5
    <3> QED BY <3>1, <3>2, <3>3, <3>4
  <2>11. Cardinality(owners) = (IF owners = {} THEN 0 ELSE 1) /\ Cardinality(keys) = (IF keys = {} THEN 0 ELSE 1)
    BY <2>6, <2>7, CountOfOne
  <2>12. a \in {0, 1} BY <1>7
  <2> QED BY <1>1, <2>2, <2>8, <2>9, <2>10, <2>11, <2>12
<1>8. ASSUME NEW p \in DOMAIN exec.pool.refs
      PROVE  LET owners == {c \in DOMAIN segs : p \in SegPages(segs[c])}
                 keys == {k \in Keys(cache) : p \in RunPages(k)}
             IN  exec.pool.refs[p] =
                   Cardinality(owners) + Cardinality(keys) + (IF p \in SegPages(Anchor) THEN 1 ELSE 0)
                 /\ exec.pool.refs[p] <= 1
  <2>1. PICK owners, keys, a : /\ owners = {c \in DOMAIN segs : p \in SegPages(segs[c])}
                              /\ keys = {k \in Keys(cache) : p \in RunPages(k)}
                              /\ a = IF p \in SegPages(Anchor) THEN 1 ELSE 0
    OBVIOUS
  <2>2. p \in PoolPages BY <1>4
  <2>3. exec.pool.refs[p] = Cardinality(owners) + Cardinality(keys) + a /\ exec.pool.refs[p] <= 1
    BY <1>7, <2>1, <2>2
  <2> QED BY <2>1, <2>3
<1> QED BY <1>8, Zenon DEF PagesAccounted

\* Every page of the pool has one owner at most, the anchor, the window of a
\* request or a cached prefix, and its count says whether it has one: with the
\* refill copies that succeed, no end, refill, eviction, abort, preemption or
\* failed prefill leaks a page or frees one in use (sched_loop.rs, free_segment,
\* refill_prefix_release, unref_prefix).
THEOREM PagesAreAccounted == ASSUME "refill" \notin Failing PROVE Spec => []PagesAccounted
<1>1. Inv /\ PagesOK => PagesAccounted BY OKAccounts
<1> QED BY <1>1, PagesInvariant, PTL

\* Books, pages, tokens and frames agree together, whatever the pool's size.
THEOREM ScarcityIsConsistent == ASSUME "refill" \notin Failing PROVE Spec => []ConsistentUnderScarcity
<1>1. Inv /\ PagesOK => ConsistentUnderScarcity
  BY OKAccounts, InvBooks, InvFrames DEF ConsistentUnderScarcity, Inv
<1> QED BY <1>1, PagesInvariant, PTL

\* The loop never panics, whatever fails: an end looks its key up before it
\* inserts it, so no eviction for the key takes its path (sched_loop.rs,
\* refill_prefix_release, and the `expect` of radix.rs, insert).
THEOREM NeverPanics == Spec => [](pc # "panicked")
<1>1. Init => Inv /\ CacheOK BY InitKeeps, InitPages DEF PagesOK
<1>2. (Inv /\ CacheOK) /\ [Next]_vars => (Inv /\ CacheOK)' BY NextKeeps, CacheSteps
<1>3. CacheOK => pc # "panicked" BY DEF CacheOK
<1> QED BY <1>1, <1>2, <1>3, PTL DEF Spec

-----------------------------------------------------------------------------
(* Slots *)

Tokens == Nat \union Vocab

\* The memory of the executor; its slots are those of the pages of the pool.
Memory(x) == /\ x.store \in [0..KvPages * Block - 1 -> Seq(Tokens)]
             /\ x.engine \in [0..LayerPages * Block - 1 -> Seq(Tokens)]

-----------------------------------------------------------------------------
(* Copies *)

LEMMA CopyOut ==
  ASSUME NEW x, IsExec(x), Memory(x), NEW seg, Window(seg), SegPages(seg) \subseteq PoolPages,
         NEW n \in 0..LayerPages, n * Block \in Nat, n * Block <= LayerPages * Block,
         NEW y, y = CopyEngineToPool(x, seg, 0, n)
  PROVE  /\ IsExec(y) /\ Memory(y) /\ y.engine = x.engine /\ y.single = x.single /\ y.pool = x.pool
         /\ Spares(x.store, y.store, SegPages(seg))
         /\ \A seq : Len(seq) \in Nat /\ Len(seq) <= n * Block /\ HeldBy(x.engine, seq) => Filled(y.store, seg.base, seq)
<1> DEFINE positions == 0..n * Block - 1
           layersOf(s) == {li \in Layers : s - SlotOf(seg.base + 0, li, 0) \in positions}
           st == [s \in DOMAIN x.store |->
                    IF layersOf(s) = {} THEN x.store[s]
                    ELSE x.engine[s - SlotOf(seg.base + 0, Min(layersOf(s)), 0)]]
<1>1. y = [x EXCEPT !.store = st] BY Zenon DEF CopyEngineToPool
<1>2. seg.base \in Nat /\ seg = Seg(seg.base, WindowPages) BY WindowIs
<1>3. PICK b \in Nat : b = seg.base BY <1>2
<1>4. seg.base + 0 = b BY <1>3
<1>5. LayerPages \in Nat \ {0} /\ Layers \subseteq Nat /\ Block \in Nat \ {0} BY WindowFacts, ConfigAssumption DEF Layers
<1>6. PICK m \in Nat, w \in Nat : m = n * Block /\ w = LayerPages * Block /\ m <= w BY <1>5
<1>7. \A li \in Layers, i \in Nat : SlotOf(b, li, i) \in Nat /\ SlotOf(b, li, i) = SlotOf(b, li, 0) + i
  <2> TAKE li \in Layers, i \in Nat
  <2>1. SlotOf(b, li, i) \in Nat /\ SlotOf(b, li, 0) \in Nat BY SlotPage
  <2>2. PICK u : u = (b + li * LayerPages) * Block OBVIOUS
  <2>3. SlotOf(b, li, i) = u + i /\ SlotOf(b, li, 0) = u + 0 BY <2>2 DEF SlotOf
  <2>4. u \in Int
    <3>1. li \in Nat BY <1>5
    <3> QED BY <1>5, <2>2, <3>1
  <2> QED BY <2>1, <2>3, <2>4
<1>8. \A s : layersOf(s) = {li \in Layers : s - SlotOf(b, li, 0) \in 0..m - 1} BY <1>4, <1>6
<1>9. st = [s \in DOMAIN x.store |-> IF layersOf(s) = {} THEN x.store[s]
                                     ELSE x.engine[s - SlotOf(b, Min(layersOf(s)), 0)]]
  BY <1>4
<1> HIDE DEF st, layersOf, positions
<1>10. y = [pool |-> x.pool, store |-> st, engine |-> x.engine, single |-> x.single] BY <1>1 DEF IsExec
<1>11. y.store = st /\ y.engine = x.engine /\ y.single = x.single /\ y.pool = x.pool /\ IsExec(y) BY <1>10 DEF IsExec
<1>12. ASSUME NEW s \in DOMAIN x.store, NEW li \in layersOf(s) PROVE \E i \in Nat : i < m /\ s = SlotOf(b, li, i)
  <2>1. li \in Layers /\ s - SlotOf(b, li, 0) \in 0..m - 1 BY <1>8
  <2>2. PICK i \in 0..m - 1 : i = s - SlotOf(b, li, 0) BY <2>1
  <2>3. SlotOf(b, li, 0) \in Nat /\ SlotOf(b, li, i) = SlotOf(b, li, 0) + i BY <1>7, <2>1
  <2>4. DOMAIN x.store = 0..KvPages * Block - 1 BY DEF Memory
  <2>5. s \in Int BY <2>4
  <2> QED BY <2>2, <2>3, <2>5
<1>13. Spares(x.store, st, SegPages(seg))
  <2>1. ASSUME NEW s \in DOMAIN x.store, Page(s) \notin SegPages(seg) PROVE st[s] = x.store[s]
    <3>1. layersOf(s) = {}
      <4>1. SUFFICES ASSUME NEW li \in layersOf(s) PROVE FALSE OBVIOUS
      <4>2. li \in Layers BY <1>8
      <4>3. PICK i \in Nat : i < m /\ s = SlotOf(b, li, i) BY <1>12
      <4>4. LayerPages \in 1..LayerPages /\ i < LayerPages * Block BY <1>5, <1>6, <4>3
      <4>5. Page(s) \in SegPages(Seg(b, WindowPages)) BY <4>2, <4>3, <4>4, SlotIn
      <4> QED BY <1>2, <1>3, <2>1, <4>5
    <3> QED BY <1>9, <3>1
  <2>2. DOMAIN st = DOMAIN x.store BY <1>9
  <2> QED BY <2>1, <2>2 DEF Spares
<1>14. ASSUME NEW seq, Len(seq) \in Nat, Len(seq) <= m, HeldBy(x.engine, seq) PROVE Filled(st, b, seq)
  <2>1. ASSUME NEW li \in Layers, NEW i \in 1..Len(seq) PROVE st[SlotOf(b, li, i - 1)] = SubSeq(seq, 1, i)
    <3>1. PICK j \in Nat : j = i - 1 /\ j < m BY <1>14
    <3>2. PICK s : s = SlotOf(b, li, j) OBVIOUS
    <3>3. s \in DOMAIN x.store
      <4>1. LayerPages \in 1..LayerPages /\ j < LayerPages * Block BY <1>5, <1>6, <3>1
      <4>2. s \in Nat /\ Page(s) \in SegPages(Seg(b, WindowPages)) BY <3>2, <4>1, SlotIn
      <4>3. Page(s) \in PoolPages BY <1>2, <1>3, <4>2
      <4> QED BY <4>2, <4>3, SlotThere DEF Memory
    <3>4. layersOf(s) = {li}
      <4>1. s = SlotOf(b, li, 0) + j /\ SlotOf(b, li, 0) \in Nat BY <1>7, <3>2
      <4>2. s - SlotOf(b, li, 0) \in 0..m - 1 BY <3>1, <4>1
      <4>3. li \in layersOf(s) BY <1>8, <4>2
      <4>4. ASSUME NEW lj \in layersOf(s) PROVE lj = li
        <5>1. lj \in Layers BY <1>8
        <5>2. PICK k \in Nat : k < m /\ s = SlotOf(b, lj, k) BY <1>12, <3>3
        <5>3. k < LayerPages * Block /\ j < LayerPages * Block BY <1>6, <3>1, <5>2
        <5>4. SlotOf(b, lj, k) = SlotOf(b, li, j) BY <3>2, <5>2
        <5> QED BY <5>1, <5>3, <5>4, SlotsApart
      <4> QED BY <4>3, <4>4
    <3>5. Min({li}) = li
      <4>1. {li} \subseteq Nat BY <1>5
      <4>2. Min({li}) \in {li} BY <4>1, MinIsIn
      <4> QED BY <4>2
    <3>6. st[s] = x.engine[s - SlotOf(b, li, 0)] BY <1>9, <3>3, <3>4, <3>5
    <3>7. s - SlotOf(b, li, 0) = j
      <4>1. s = SlotOf(b, li, 0) + j /\ SlotOf(b, li, 0) \in Nat BY <1>7, <3>2
      <4> QED BY <4>1
    <3>8. x.engine[j] = SubSeq(seq, 1, i) BY <1>14, <3>1 DEF HeldBy
    <3> QED BY <3>1, <3>2, <3>6, <3>7, <3>8
  <2> QED BY <2>1 DEF Filled
<1>15. Memory(y)
  <2>1. ASSUME NEW s \in DOMAIN x.store PROVE st[s] \in Seq(Tokens)
    <3>1. CASE layersOf(s) = {} BY <1>9, <3>1 DEF Memory
    <3>2. CASE layersOf(s) # {}
      <4>1. layersOf(s) \subseteq Nat BY <1>5, <1>8
      <4>2. Min(layersOf(s)) \in layersOf(s) BY <3>2, <4>1, MinIsIn
      <4>3. PICK li : li = Min(layersOf(s)) OBVIOUS
      <4>4. s - SlotOf(b, li, 0) \in 0..m - 1 BY <1>8, <4>2, <4>3
      <4>5. s - SlotOf(b, li, 0) \in 0..w - 1 BY <1>6, <4>4
      <4>6. x.engine[s - SlotOf(b, li, 0)] \in Seq(Tokens) BY <1>6, <4>5 DEF Memory
      <4> QED BY <1>9, <3>2, <4>3, <4>6
    <3> QED BY <3>1, <3>2
  <2>2. DOMAIN st = 0..KvPages * Block - 1 BY <1>9 DEF Memory
  <2>3. DOMAIN x.store = 0..KvPages * Block - 1 BY DEF Memory
  <2>4. \E D : st = [s \in D |-> st[s]] BY <1>9
  <2> QED BY <1>11, <2>1, <2>2, <2>3, <2>4 DEF Memory
<1> QED BY <1>3, <1>6, <1>11, <1>13, <1>14, <1>15

LEMMA CopyIn ==
  ASSUME NEW x, IsExec(x), Memory(x), NEW b \in Nat, NEW n \in 0..LayerPages, n * Block \in Nat,
         n * Block <= LayerPages * Block, n > 0 => RunsOf(b, n) \subseteq PoolPages,
         NEW y, y = CopyPoolToEngine(x, b, n)
  PROVE  /\ IsExec(y) /\ Memory(y) /\ y.store = x.store /\ y.single = x.single /\ y.pool = x.pool
         /\ \A seq : Len(seq) \in Nat /\ Len(seq) <= n * Block /\ Filled(x.store, b, seq) => HeldBy(y.engine, seq)
<1> DEFINE at(i) == {x.store[SlotOf(b, li, i)] : li \in Layers}
           en == [i \in DOMAIN x.engine |->
                    IF i >= n * Block THEN x.engine[i]
                    ELSE IF Cardinality(at(i)) = 1 THEN CHOOSE kv \in at(i) : TRUE
                    ELSE Garbage]
<1>1. y = [x EXCEPT !.engine = en] BY Zenon DEF CopyPoolToEngine
<1>2. NLayer \in Nat \ {0} /\ 0 \in Layers BY WindowFacts DEF Layers
<1>3. PICK m \in Nat : m = n * Block /\ m <= LayerPages * Block BY ConfigAssumption
<1>4. DOMAIN x.engine = 0..LayerPages * Block - 1 BY DEF Memory
<1>5. DOMAIN en = DOMAIN x.engine /\ \A i \in DOMAIN x.engine : i < m =>
        en[i] = IF Cardinality(at(i)) = 1 THEN CHOOSE kv \in at(i) : TRUE ELSE Garbage
  BY <1>3, <1>4
<1>10. \A i \in DOMAIN x.engine : i >= m => en[i] = x.engine[i] BY <1>3
<1>11. \E D : en = [i \in D |-> en[i]] OBVIOUS
<1> HIDE DEF en
<1>6. y = [pool |-> x.pool, store |-> x.store, engine |-> en, single |-> x.single] BY <1>1 DEF IsExec
<1>7. y.store = x.store /\ y.engine = en /\ y.single = x.single /\ y.pool = x.pool /\ IsExec(y) BY <1>6 DEF IsExec
<1>8. ASSUME NEW seq, Len(seq) \in Nat, Len(seq) <= m, Filled(x.store, b, seq), NEW i \in 1..Len(seq)
      PROVE  en[i - 1] = SubSeq(seq, 1, i)
  <2>1. PICK j \in Nat : j = i - 1 /\ j < m BY <1>8
  <2>2. j \in DOMAIN x.engine BY <1>3, <1>4, <2>1, MemoryWide
  <2>3. PICK kv : kv = SubSeq(seq, 1, i) OBVIOUS
  <2>4. \A li \in Layers : x.store[SlotOf(b, li, j)] = kv BY <1>8, <2>1, <2>3 DEF Filled
  <2>5. at(j) = {kv} BY <1>2, <2>4
  <2> HIDE DEF at
  <2>6. Cardinality(at(j)) = 1 /\ (CHOOSE v \in at(j) : TRUE) = kv BY <2>5, FS_Singleton
  <2> QED BY <1>5, <2>1, <2>2, <2>3, <2>6
<1>9. Memory(y)
  <2>1. ASSUME NEW i \in DOMAIN x.engine PROVE en[i] \in Seq(Tokens)
    <3>1. CASE i >= m BY <1>3, <1>10, <3>1 DEF Memory
    <3>2. CASE i < m
      <4>1. CASE Cardinality(at(i)) # 1
        <5>1. en[i] = Garbage BY <1>5, <3>2, <4>1
        <5>2. Garbage \in Seq(Tokens) BY DEF Garbage
        <5> QED BY <5>1, <5>2
      <4>2. CASE Cardinality(at(i)) = 1
        <5>1. i \in Nat BY <1>4
        <5>2. n \in 1..LayerPages
          <6>1. CASE n = 0 BY <1>3, <3>2, <5>1, <6>1, ConfigAssumption
          <6> QED BY <6>1, WindowFacts
        <5>3. i < n * Block BY <1>3, <3>2
        <5>4. ASSUME NEW li \in Layers PROVE x.store[SlotOf(b, li, i)] \in Seq(Tokens)
          <6>1. SlotOf(b, li, i) \in Nat /\ Page(SlotOf(b, li, i)) \in RunsOf(b, n) BY <5>1, <5>2, <5>3, SlotIn
          <6>2. PICK s \in Nat : s = SlotOf(b, li, i) BY <6>1
          <6>3. Page(s) \in PoolPages BY <5>2, <6>1, <6>2
          <6>4. s \in 0..KvPages * Block - 1 BY <6>3, SlotThere
          <6> QED BY <6>2, <6>4 DEF Memory
        <5>5. \A kv \in at(i) : kv \in Seq(Tokens) BY <5>4
        <5>6. \E kv : kv \in at(i) BY <1>2
        <5> HIDE DEF at
        <5>7. (CHOOSE kv \in at(i) : TRUE) \in at(i) BY <5>6
        <5> QED BY <1>5, <3>2, <4>2, <5>5, <5>7
      <4> QED BY <4>1, <4>2
    <3>3. i \in Nat BY <1>4
    <3> QED BY <1>3, <3>1, <3>2, <3>3
  <2> QED BY <1>4, <1>5, <1>7, <1>11, <2>1 DEF Memory
<1> QED BY <1>3, <1>5, <1>7, <1>8, <1>9 DEF HeldBy

-----------------------------------------------------------------------------
(* The KV of the requests and of the cache *)

\* The singleton is one of the requests, or one that ended and has left its
\* pages: a flush then writes where nobody looks.
Singled(x, held, e, kv) ==
  \/ x.single = NoSingle
  \/ /\ Window(x.single.seg) /\ SegPages(x.single.seg) \subseteq PoolPages
     /\ x.single.kvLen \in Nat /\ x.single.kvLen <= MaxLen /\ x.single.id \in Client
     /\ x.single.id \in DOMAIN kv \/ Unowned(held, e, x.single.seg)

KvOf(x, held, e, kv) ==
  /\ IsExec(x) /\ Memory(x)
  /\ \A c \in DOMAIN kv : c \in DOMAIN held /\ c \in Client
  /\ \A c \in DOMAIN kv : kv[c] \in Seq(Tokens) /\ Len(kv[c]) <= MaxLen /\ Has(x, held, c, kv[c])
  /\ Singled(x, held, e, kv)
  /\ \A k \in DOMAIN e : Filled(x.store, e[k], k)

\* A sequence begins another.
Begins(s, t) == /\ s \in Seq(Tokens) /\ Len(s) <= Len(t)
                /\ \A i \in 1..Len(s) : SubSeq(s, 1, i) = SubSeq(t, 1, i)

LEMMA BeginsFilled ==
  ASSUME NEW s, NEW t \in Seq(Tokens), Begins(s, t)
  PROVE  /\ \A en : HeldBy(en, t) => HeldBy(en, s)
         /\ \A st, b : Filled(st, b, t) => Filled(st, b, s)
<1>1. Len(s) \in Nat /\ Len(t) \in Nat /\ Len(s) <= Len(t) BY DEF Begins
<1>2. \A i \in 1..Len(s) : i \in 1..Len(t) /\ SubSeq(s, 1, i) = SubSeq(t, 1, i) BY <1>1 DEF Begins
<1>3. ASSUME NEW en, HeldBy(en, t) PROVE HeldBy(en, s) BY <1>2, <1>3 DEF HeldBy
<1>4. ASSUME NEW st, NEW b, Filled(st, b, t) PROVE Filled(st, b, s) BY <1>2, <1>4 DEF Filled
<1> QED BY <1>3, <1>4

\* Requests and entries go, sequences get shorter, the singleton is dropped or
\* its request leaves its pages.
Fewer(x, held, kv, y, g, lv) ==
  /\ y.store = x.store /\ y.engine = x.engine
  /\ \/ y.single = x.single /\ (x.single.id \in DOMAIN kv \ DOMAIN lv => x.single.id \notin DOMAIN g)
     \/ y.single = NoSingle /\ x.single.id \notin DOMAIN lv
  /\ \A d \in DOMAIN g : d \in DOMAIN held /\ g[d] = held[d]
  /\ \A c \in DOMAIN lv : c \in DOMAIN kv /\ c \in DOMAIN g /\ Begins(lv[c], kv[c])

LEMMA KvLess ==
  ASSUME NEW x, NEW held, NEW e, NEW kv, Tables(held, e), KvOf(x, held, e, kv),
         NEW y, IsExec(y), NEW g, NEW f, NEW lv, Fewer(x, held, kv, y, g, lv),
         \A k \in DOMAIN f : k \in DOMAIN e /\ f[k] = e[k]
  PROVE  KvOf(y, g, f, lv)
<1>1. Memory(y) BY DEF KvOf, Fewer, Memory
<1>2. \A c \in DOMAIN lv : /\ c \in DOMAIN kv /\ c \in DOMAIN g /\ c \in DOMAIN held /\ g[c] = held[c]
                           /\ c \in Client /\ kv[c] \in Seq(Tokens) /\ Len(kv[c]) <= MaxLen
                           /\ Has(x, held, c, kv[c]) /\ Begins(lv[c], kv[c])
  BY DEF KvOf, Fewer
<1>3. "none" \notin Client /\ NoSingle.id = "none" BY LoopAssumption DEF NoSingle
<1>4. ASSUME NEW c \in DOMAIN lv PROVE lv[c] \in Seq(Tokens) /\ Len(lv[c]) <= MaxLen /\ Has(y, g, c, lv[c])
  <2>1. PICK t \in Seq(Tokens) : t = kv[c] BY <1>2
  <2>2. PICK s : s = lv[c] OBVIOUS
  <2>3. Begins(s, t) BY <1>2, <2>1, <2>2
  <2>4. s \in Seq(Tokens) /\ Len(s) \in Nat /\ Len(t) \in Nat /\ Len(s) <= Len(t) BY <2>1, <2>3 DEF Begins
  <2>5. Len(s) <= MaxLen
    <3>1. Len(t) <= MaxLen /\ MaxLen \in Nat BY <1>2, <2>1, ConfigAssumption
    <3> QED BY <2>4, <3>1
  <2>6. (\A en : HeldBy(en, t) => HeldBy(en, s)) /\ \A st, b : Filled(st, b, t) => Filled(st, b, s)
    BY <2>3, BeginsFilled
  <2>7. CASE x.single.id = c
    <3>1. y.single = x.single BY <2>7 DEF Fewer
    <3>2. x.single.seg = held[c] /\ Len(t) <= x.single.kvLen /\ HeldBy(x.engine, t) BY <1>2, <2>1, <2>7 DEF Has
    <3>3. x.single.kvLen \in Nat
      <4>1. x.single # NoSingle BY <1>2, <1>3, <2>7
      <4> QED BY <4>1 DEF KvOf, Singled
    <3>4. Len(s) <= x.single.kvLen BY <2>4, <3>2, <3>3
    <3>5. HeldBy(y.engine, s) BY <2>6, <3>2 DEF Fewer
    <3> QED BY <1>2, <2>2, <2>4, <2>5, <2>7, <3>1, <3>2, <3>4, <3>5 DEF Has
  <2>8. CASE x.single.id # c
    <3>1. Filled(x.store, held[c].base, t) BY <1>2, <2>1, <2>8 DEF Has
    <3>2. Filled(y.store, g[c].base, s) BY <1>2, <2>6, <3>1 DEF Fewer
    <3>3. y.single.id # c BY <1>2, <1>3, <2>8 DEF Fewer
    <3> QED BY <2>2, <2>4, <2>5, <3>2, <3>3 DEF Has
  <2> QED BY <2>7, <2>8
<1>5. Singled(y, g, f, lv)
  <2>1. SUFFICES ASSUME y.single # NoSingle PROVE Singled(y, g, f, lv) BY DEF Singled
  <2>2. y.single = x.single /\ (x.single.id \in DOMAIN kv \ DOMAIN lv => x.single.id \notin DOMAIN g)
    BY <2>1 DEF Fewer
  <2>3. PICK sg : sg = x.single OBVIOUS
  <2>4. /\ Window(sg.seg) /\ SegPages(sg.seg) \subseteq PoolPages
        /\ sg.kvLen \in Nat /\ sg.kvLen <= MaxLen /\ sg.id \in Client
        /\ sg.id \in DOMAIN kv \/ Unowned(held, e, sg.seg)
    BY <2>1, <2>2, <2>3 DEF KvOf, Singled
  <2>5. \A d \in DOMAIN g : d \in DOMAIN held /\ g[d] = held[d] BY DEF Fewer
  <2>6. CASE Unowned(held, e, sg.seg)
    <3>1. Unowned(g, f, sg.seg) BY <2>5, <2>6 DEF Unowned, RunOf
    <3> QED BY <2>2, <2>3, <2>4, <3>1 DEF Singled
  <2>7. CASE sg.id \in DOMAIN lv BY <2>2, <2>3, <2>4, <2>7 DEF Singled
  <2>8. CASE sg.id \in DOMAIN kv /\ sg.id \notin DOMAIN lv
    <3>1. sg.id \notin DOMAIN g BY <2>2, <2>3, <2>8
    <3>2. sg.id \in DOMAIN held /\ sg.seg = held[sg.id]
      <4>1. Has(x, held, sg.id, kv[sg.id]) /\ sg.id \in DOMAIN held BY <2>8 DEF KvOf
      <4> QED BY <2>3, <4>1 DEF Has
    <3>3. Unowned(g, f, sg.seg)
      <4>1. \A d \in DOMAIN g : SegPages(sg.seg) \intersect SegPages(g[d]) = {} BY <2>5, <3>1, <3>2 DEF Tables
      <4>2. \A k \in DOMAIN f : SegPages(sg.seg) \intersect RunOf(f, k) = {} BY <3>2 DEF Tables, RunOf
      <4> QED BY <4>1, <4>2 DEF Unowned
    <3> QED BY <2>2, <2>3, <2>4, <3>3 DEF Singled
  <2> QED BY <2>4, <2>6, <2>7, <2>8
<1>6. \A k \in DOMAIN f : Filled(y.store, f[k], k) BY DEF KvOf, Fewer
<1> QED BY <1>1, <1>2, <1>4, <1>5, <1>6 DEF KvOf

-----------------------------------------------------------------------------
(* What the executor does to it *)

LEMMA NotNone == \A c \in Client : c # NoSingle.id
BY LoopAssumption DEF NoSingle

LEMMA FlushKv ==
  ASSUME NEW x, NEW held, NEW e, NEW kv, Tables(held, e), KvOf(x, held, e, kv), NEW y, y = FlushSingleton(x)
  PROVE  KvOf(y, held, e, kv) /\ y.single = NoSingle
<1>1. CASE x.single = NoSingle
  <2>1. y = x BY <1>1 DEF FlushSingleton
  <2> QED BY <1>1, <2>1
<1>2. CASE x.single # NoSingle
  <2>1. PICK s, n : s = x.single.seg /\ n = PagesFor(x.single.kvLen) OBVIOUS
  <2>2. PICK z : z = CopyEngineToPool(x, s, 0, n) OBVIOUS
  <2>3. y = [z EXCEPT !.single = NoSingle] BY <1>2, <2>1, <2>2 DEF FlushSingleton
  <2>4. IsExec(x) /\ Memory(x) BY DEF KvOf
  <2>5. /\ Window(s) /\ SegPages(s) \subseteq PoolPages
        /\ x.single.kvLen \in Nat /\ x.single.kvLen <= MaxLen /\ x.single.id \in Client
        /\ x.single.id \in DOMAIN kv \/ Unowned(held, e, s)
    BY <1>2, <2>1 DEF KvOf, Singled
  <2>6. n \in 0..LayerPages /\ x.single.kvLen <= n * Block /\ n * Block <= LayerPages * Block /\ n * Block \in Nat
    BY <2>1, <2>5, PagesFacts
  <2>7. /\ IsExec(z) /\ Memory(z) /\ z.engine = x.engine /\ Spares(x.store, z.store, SegPages(s))
        /\ \A seq : Len(seq) \in Nat /\ Len(seq) <= n * Block /\ HeldBy(x.engine, seq) => Filled(z.store, s.base, seq)
    BY <2>2, <2>4, <2>5, <2>6, CopyOut
  <2>8. y = [pool |-> z.pool, store |-> z.store, engine |-> z.engine, single |-> NoSingle] BY <2>3, <2>7 DEF IsExec
  <2>9. IsExec(y) /\ y.store = z.store /\ y.engine = x.engine /\ y.single = NoSingle BY <2>7, <2>8 DEF IsExec
  <2>10. Memory(y) BY <2>7, <2>9 DEF Memory
  <2>11. DOMAIN x.store = 0..KvPages * Block - 1 BY <2>4 DEF Memory
  <2>12. ASSUME NEW c \in DOMAIN kv PROVE kv[c] \in Seq(Tokens) /\ Len(kv[c]) <= MaxLen /\ Has(y, held, c, kv[c])
    <3>1. c \in DOMAIN held /\ c \in Client /\ kv[c] \in Seq(Tokens) /\ Len(kv[c]) <= MaxLen /\ Has(x, held, c, kv[c])
      BY DEF KvOf
    <3>2. PICK seq \in Seq(Tokens) : seq = kv[c] BY <3>1
    <3>3. Len(seq) \in Nat BY <3>2
    <3>4. y.single.id # c BY <2>9, <3>1, NotNone
    <3>5. CASE x.single.id = c
      <4>1. s = held[c] /\ Len(seq) <= x.single.kvLen /\ HeldBy(x.engine, seq) BY <2>1, <3>1, <3>2, <3>5 DEF Has
      <4>2. Len(seq) <= n * Block BY <2>5, <2>6, <3>3, <4>1
      <4>3. Filled(z.store, s.base, seq) BY <2>7, <3>3, <4>1, <4>2
      <4> QED BY <2>9, <3>1, <3>2, <3>4, <4>1, <4>3 DEF Has
    <3>6. CASE x.single.id # c
      <4>1. Filled(x.store, held[c].base, seq) BY <3>1, <3>2, <3>6 DEF Has
      <4>2. PICK t : t = held[c] OBVIOUS
      <4>3. Window(t) /\ SegPages(t) \subseteq PoolPages BY <3>1, <4>2 DEF Tables
      <4>4. SegPages(t) \intersect SegPages(s) = {}
        <5>1. CASE Unowned(held, e, s) BY <3>1, <4>2, <5>1 DEF Unowned
        <5>2. CASE x.single.id \in DOMAIN kv
          <6>1. x.single.id \in DOMAIN held /\ s = held[x.single.id] BY <2>1, <5>2 DEF KvOf, Has
          <6> QED BY <3>1, <3>6, <4>2, <6>1 DEF Tables
        <5> QED BY <2>5, <5>1, <5>2
      <4>5. Len(seq) <= MaxLen BY <3>1, <3>2
      <4>6. Filled(z.store, t.base, seq) BY <2>7, <2>11, <3>3, <4>1, <4>2, <4>3, <4>4, <4>5, SegOn
      <4> QED BY <2>9, <3>1, <3>2, <3>4, <4>2, <4>6 DEF Has
    <3> QED BY <3>5, <3>6
  <2>13. ASSUME NEW k \in DOMAIN e PROVE Filled(y.store, e[k], k)
    <3>1. RunOf(e, k) \intersect SegPages(s) = {}
      <4>1. CASE Unowned(held, e, s) BY <4>1 DEF Unowned
      <4>2. CASE x.single.id \in DOMAIN kv
        <5>1. x.single.id \in DOMAIN held /\ s = held[x.single.id] BY <2>1, <4>2 DEF KvOf, Has
        <5> QED BY <5>1 DEF Tables
      <4> QED BY <2>5, <4>1, <4>2
    <3>2. Filled(x.store, e[k], k) BY DEF KvOf
    <3>3. Filled(z.store, e[k], k) BY <2>7, <2>11, <3>1, <3>2, RunOn
    <3> QED BY <2>9, <3>3
  <2>14. \A c \in DOMAIN kv : c \in DOMAIN held /\ c \in Client BY DEF KvOf
  <2>15. Singled(y, held, e, kv) BY <2>9 DEF Singled
  <2> QED BY <2>9, <2>10, <2>12, <2>13, <2>14, <2>15 DEF KvOf
<1> QED BY <1>1, <1>2

\* Without a singleton the engine pool is free to use.
LEMMA EngineFree ==
  ASSUME NEW x, NEW held, NEW e, NEW kv, KvOf(x, held, e, kv), x.single = NoSingle,
         NEW y, IsExec(y), Memory(y), y.store = x.store, y.single = NoSingle
  PROVE  KvOf(y, held, e, kv)
<1>2. Singled(y, held, e, kv) BY DEF Singled
<1>3. ASSUME NEW c \in DOMAIN kv PROVE Has(y, held, c, kv[c])
  <2>1. c \in Client /\ Has(x, held, c, kv[c]) BY DEF KvOf
  <2>2. c # NoSingle.id BY <2>1, NotNone
  <2> QED BY <2>1, <2>2 DEF Has
<1> QED BY <1>2, <1>3 DEF KvOf

\* A chunk prefilled from its start.
LEMMA PrefillKv ==
  ASSUME NEW x, NEW held, NEW e, NEW kv, Tables(held, e), KvOf(x, held, e, kv),
         NEW ids \in Seq(Nat), Len(ids) <= MaxLen, NEW y, y = Prefill(x, ids)
  PROVE  KvOf(y, held, e, kv) /\ y.single = NoSingle /\ HeldBy(y.engine, ids)
<1>1. PICK z : z = FlushSingleton(x) OBVIOUS
<1>2. KvOf(z, held, e, kv) /\ z.single = NoSingle BY <1>1, FlushKv
<1>3. PICK en : en = [i \in DOMAIN z.engine |-> IF i < Len(ids) THEN SubSeq(ids, 1, i + 1) ELSE z.engine[i]] OBVIOUS
<1>4. y = [z EXCEPT !.engine = en] BY <1>1, <1>3, Zenon DEF Prefill
<1>5. IsExec(z) /\ Memory(z) BY <1>2 DEF KvOf
<1>6. y = [pool |-> z.pool, store |-> z.store, engine |-> en, single |-> z.single] BY <1>4, <1>5 DEF IsExec
<1>7. IsExec(y) /\ y.store = z.store /\ y.single = NoSingle /\ y.engine = en BY <1>2, <1>6 DEF IsExec
<1>8. Memory(y)
  <2>1. ASSUME NEW i \in DOMAIN z.engine PROVE en[i] \in Seq(Tokens)
    <3>1. CASE i < Len(ids)
      <4>1. i + 1 \in 1..Len(ids)
        <5>1. DOMAIN z.engine = 0..LayerPages * Block - 1 BY <1>5 DEF Memory
        <5>2. i \in Nat BY <5>1
        <5>3. Len(ids) \in Nat OBVIOUS
        <5> QED BY <3>1, <5>2, <5>3
      <4>2. SubSeq(ids, 1, i + 1) \in Seq(Nat) BY <4>1, CutFacts
      <4> QED BY <1>3, <3>1, <4>2 DEF Tokens
    <3>2. CASE ~(i < Len(ids)) BY <1>3, <1>5, <3>2 DEF Memory
    <3> QED BY <3>1, <3>2
  <2>2. \E D : en = [i \in D |-> en[i]] BY <1>3
  <2>3. DOMAIN en = DOMAIN z.engine BY <1>3
  <2> QED BY <1>5, <1>7, <2>1, <2>2, <2>3 DEF Memory
<1>9. KvOf(y, held, e, kv) BY <1>2, <1>7, <1>8, EngineFree
<1>10. PICK n \in Nat : n = Len(ids) OBVIOUS
<1>11. n <= LayerPages * Block /\ LayerPages * Block \in Nat
  <2>1. n <= PagesFor(n) * Block /\ PagesFor(n) * Block <= LayerPages * Block /\ PagesFor(n) * Block \in Nat
    BY <1>10, PagesFacts
  <2>2. LayerPages * Block \in Nat BY WindowFacts, ConfigAssumption
  <2> QED BY <2>1, <2>2
<1>12. ASSUME NEW i \in 1..n PROVE en[i - 1] = SubSeq(ids, 1, i)
  <2>1. i - 1 \in DOMAIN z.engine BY <1>5, <1>11 DEF Memory
  <2>2. i - 1 < Len(ids) /\ (i - 1) + 1 = i BY <1>10
  <2> QED BY <1>3, <2>1, <2>2
<1> QED BY <1>7, <1>9, <1>10, <1>12 DEF HeldBy

-----------------------------------------------------------------------------
(* One more token *)

LEMMA KvAfterType ==
  ASSUME NEW w \in Nat, NEW en \in [0..w - 1 -> Seq(Tokens)], NEW pos \in 0..w, NEW token \in Tokens
  PROVE  KvAfter(en, pos, token) \in Seq(Tokens)
<1>1. CASE pos = 0
  <2>1. KvAfter(en, pos, token) = <<token>> BY <1>1 DEF KvAfter
  <2> QED BY <2>1
<1>2. CASE pos # 0
  <2>1. pos - 1 \in 0..w - 1 BY <1>2
  <2>2. PICK kv \in Seq(Tokens) : kv = en[pos - 1] BY <2>1
  <2>3. KvAfter(en, pos, token) \in {Append(kv, token), <<>>} BY <1>2, <2>2 DEF KvAfter, Garbage
  <2>4. Append(kv, token) \in Seq(Tokens) /\ <<>> \in Seq(Tokens) OBVIOUS
  <2> QED BY <2>3, <2>4
<1> QED BY <1>1, <1>2

LEMMA StepsHold ==
  ASSUME NEW w \in Nat, NEW ids \in Seq(Tokens), Len(ids) <= w, NEW k \in 0..Len(ids),
         NEW en \in [0..w - 1 -> Seq(Tokens)], HeldBy(en, SubSeq(ids, 1, k)),
         NEW suffix, suffix = SubSeq(ids, k + 1, Len(ids)),
         NEW fn, fn = Stepped(k, suffix, en, [j \in 1..Len(suffix) |-> j])
  PROVE  fn \in [0..w - 1 -> Seq(Tokens)] /\ HeldBy(fn, ids)
<1>1. PICK n \in Nat : n = Len(ids) OBVIOUS
<1>2. PICK m \in Nat : m = n - k
  <2>1. k \in 0..n BY <1>1
  <2> QED BY <2>1
<1>3. suffix \in Seq(Tokens) /\ Len(suffix) = m /\ \A j \in 1..m : suffix[j] = ids[k + j] BY <1>1, <1>2, CutTail
<1>4. PICK seq : seq = [j \in 1..m |-> j] OBVIOUS
<1>5. seq \in Seq(Nat) /\ Len(seq) = m /\ \A j \in 1..m : seq[j] = j BY <1>4
<1>6. PICK A : A = [0..w - 1 -> Seq(Tokens)] OBVIOUS
<1>7. ASSUME NEW a \in A, NEW j \in 1..m PROVE StepAt(a, k, suffix, j) \in A
  <2>1. PICK p \in 0..w - 1 : p = k + j - 1 BY <1>1, <1>2
  <2>2. suffix[j] \in Tokens BY <1>3
  <2>3. KvAfter(a, p, suffix[j]) \in Seq(Tokens)
    <3>1. a \in [0..w - 1 -> Seq(Tokens)] /\ p \in 0..w BY <1>6, <2>1
    <3> QED BY <2>2, <3>1, KvAfterType
  <2> QED BY <1>6, <2>1, <2>3 DEF StepAt
<1>8. \A a \in A, i \in 1..Len(seq) : StepAt(a, k, suffix, seq[i]) \in A BY <1>5, <1>7
<1>9. PICK pre : StepsTo(pre, k, suffix, en, seq, A) BY <1>5, <1>6, <1>8, StepsFold
<1>10. pre \in [0..m -> A] /\ pre[0] = en /\ Stepped(k, suffix, en, seq) = pre[m]
       /\ \A j \in 1..m : pre[j] = StepAt(pre[j - 1], k, suffix, j)
  BY <1>5, <1>9 DEF StepsTo, Along
<1> DEFINE S == {j \in 0..m : HeldBy(pre[j], SubSeq(ids, 1, k + j))}
<1>11. 0 \in S
  <2>1. k + 0 = k BY <1>1
  <2>2. HeldBy(pre[0], SubSeq(ids, 1, k + 0)) BY <1>10, <2>1
  <2> QED BY <2>2
<1>12. ASSUME NEW j \in 1..m, j - 1 \in S PROVE j \in S
  <2>1. PICK i \in 0..n - 1 : i = k + j - 1 BY <1>1, <1>2
  <2>2. i = k + (j - 1) /\ i + 1 = k + j BY <1>1, <2>1
  <2>3. PICK s : s = SubSeq(ids, 1, i) OBVIOUS
  <2>4. s \in Seq(Tokens) /\ Len(s) = i BY <1>1, <2>1, <2>3, CutFacts
  <2>5. PICK a : a = pre[j - 1] OBVIOUS
  <2>6. HeldBy(a, s) BY <1>12, <2>2, <2>3, <2>5
  <2>7. a \in [0..w - 1 -> Seq(Tokens)] BY <1>6, <1>10, <2>5
  <2>8. PICK t \in Tokens : t = suffix[j] /\ t = ids[i + 1] BY <1>3, <2>2
  <2>9. pre[j] = [a EXCEPT ![i] = KvAfter(a, i, t)] BY <1>10, <2>1, <2>5, <2>8 DEF StepAt
  <2>10. i \in DOMAIN a BY <1>1, <2>1, <2>7
  <2>11. HeldBy(pre[j], Append(s, t)) BY <2>4, <2>6, <2>9, <2>10, OneMore
  <2>12. SubSeq(ids, 1, k + j) = Append(s, t) BY <1>1, <2>1, <2>2, <2>3, <2>8, NextCut
  <2>13. j \in 0..m OBVIOUS
  <2> QED BY <2>11, <2>12, <2>13
<1>13. HeldBy(pre[m], SubSeq(ids, 1, n))
  <2> HIDE DEF S
  <2>1. \A j \in 0..m : j \in S BY <1>2, <1>11, <1>12, PrefixInduction
  <2>2. m \in S BY <1>2, <2>1
  <2>3. k + m = n BY <1>1, <1>2
  <2> QED BY <2>2, <2>3 DEF S
<1>14. SubSeq(ids, 1, n) = ids
  <2>1. SubSeq(ids, 1, n) \in Seq(Tokens) /\ Len(SubSeq(ids, 1, n)) = n /\ \A i \in 1..n : SubSeq(ids, 1, n)[i] = ids[i]
    BY <1>1, CutFacts
  <2> QED BY <1>1, <2>1, SameSeq
<1>15. m \in 0..m BY <1>2
<1>16. fn = pre[m] BY <1>3, <1>4, <1>10
<1>17. pre[m] \in A BY <1>10, <1>15
<1> HIDE DEF S
<1> QED BY <1>6, <1>13, <1>14, <1>16, <1>17

\* A prompt prefilled from a cached run that begins like it.
LEMMA HitKv ==
  ASSUME NEW x, NEW held, NEW e, NEW kv, Tables(held, e), KvOf(x, held, e, kv),
         NEW ids \in Seq(Nat), Len(ids) <= MaxLen, NEW key \in DOMAIN e, NEW n \in 1..PagesOf(key), NEW k \in 0..Len(ids),
         k = n * Block, \A i \in 1..k : SubSeq(key, 1, i) = SubSeq(ids, 1, i),
         NEW y, y = PrefillPrefixHit(x, e[key], k, SubSeq(ids, k + 1, Len(ids)))
  PROVE  KvOf(y, held, e, kv) /\ y.single = NoSingle /\ HeldBy(y.engine, ids)
<1>1. /\ key \in Seq(Nat) /\ Len(key) = PagesOf(key) * Block /\ e[key] \in Nat /\ PagesOf(key) \in 1..LayerPages
      /\ RunsOf(e[key], PagesOf(key)) \subseteq PoolPages
  BY DEF Tables, RunOf
<1>2. PICK b \in Nat, m \in 1..LayerPages : b = e[key] /\ m = PagesOf(key) BY <1>1
<1>3. LayerPages \in Nat /\ Block \in Nat \ {0} BY WindowFacts, ConfigAssumption
<1>4. PICK w \in Nat : w = LayerPages * Block BY <1>3
<1>5. n \in 1..LayerPages /\ n <= m /\ n \in Nat BY <1>2, <1>3
<1>6. k \in Nat /\ k <= Len(key) /\ n * Block <= LayerPages * Block
  <2>1. PICK a \in Nat \ {0}, l \in Nat : a = Block /\ l = LayerPages BY <1>3
  <2>2. PICK mm \in Nat : mm = m BY <1>2, <1>3
  <2>3. n <= mm /\ mm <= l /\ n \in Nat BY <1>2, <1>5, <2>1, <2>2
  <2>4. n * a \in Nat /\ mm * a \in Nat /\ l * a \in Nat BY <2>3
  <2>5. n * a <= mm * a
    <3>1. CASE n < mm
      <4>1. n * a + a <= mm * a BY <2>3, <3>1, TimesStep
      <4> QED BY <2>4, <4>1
    <3> QED BY <2>3, <2>4, <3>1
  <2>6. mm * a <= l * a
    <3>1. CASE mm < l
      <4>1. mm * a + a <= l * a BY <2>3, <3>1, TimesStep
      <4> QED BY <2>4, <4>1
    <3> QED BY <2>3, <2>4, <3>1
  <2> QED BY <1>1, <1>2, <2>1, <2>2, <2>4, <2>5, <2>6
<1>7. PICK z : z = FlushSingleton(x) OBVIOUS
<1>8. KvOf(z, held, e, kv) /\ z.single = NoSingle BY <1>7, FlushKv
<1>9. k \div Block = n BY <1>3, <1>5, PagesExact
<1>10. PICK u : u = CopyPoolToEngine(z, b, n) OBVIOUS
<1>11. n \in 0..LayerPages /\ n * Block \in Nat BY <1>3, <1>5
<1>12. RunsOf(b, n) \subseteq PoolPages BY <1>1, <1>2, <1>5, RunsPart
<1>13. IsExec(z) /\ Memory(z) BY <1>8 DEF KvOf
<1>14. /\ IsExec(u) /\ Memory(u) /\ u.store = z.store /\ u.single = z.single /\ u.pool = z.pool
       /\ \A seq : Len(seq) \in Nat /\ Len(seq) <= n * Block /\ Filled(z.store, b, seq) => HeldBy(u.engine, seq)
  BY <1>6, <1>10, <1>11, <1>12, <1>13, CopyIn
<1>15. PICK s \in Seq(Nat) : s = SubSeq(ids, 1, k) /\ Len(s) = k BY CutFacts
<1>16. Filled(z.store, b, s)
  <2>1. Filled(z.store, b, key) BY <1>2, <1>8 DEF KvOf
  <2>2. ASSUME NEW i \in 1..k PROVE SubSeq(s, 1, i) = SubSeq(key, 1, i) /\ i \in 1..Len(key)
    <3>1. i \in 0..k BY <1>6
    <3>2. SubSeq(s, 1, i) = SubSeq(ids, 1, i) BY <1>15, <3>1, CutCut
    <3>3. Len(key) \in Nat BY <1>1
    <3> QED BY <1>6, <3>2, <3>3
  <2> QED BY <1>15, <2>1, <2>2 DEF Filled
<1>17. HeldBy(u.engine, s)
  <2>1. Len(s) \in Nat /\ Len(s) <= n * Block BY <1>6, <1>15
  <2> QED BY <1>14, <1>16, <2>1
<1>18. PICK suffix : suffix = SubSeq(ids, k + 1, Len(ids)) OBVIOUS
<1>19. PICK fn : fn = Stepped(k, suffix, u.engine, [j \in 1..Len(suffix) |-> j]) OBVIOUS
<1>20. y = [u EXCEPT !.engine = fn]
  <2>1. y = [CopyPoolToEngine(FlushSingleton(x), e[key], k \div Block) EXCEPT
               !.engine = Stepped(k, suffix, @, [j \in 1..Len(suffix) |-> j])]
    BY <1>18, HitIs
  <2> QED BY <1>2, <1>7, <1>9, <1>10, <1>19, <2>1
<1>21. y = [pool |-> u.pool, store |-> u.store, engine |-> fn, single |-> u.single] BY <1>14, <1>20 DEF IsExec
<1>22. y.store = u.store /\ y.engine = fn /\ y.single = u.single /\ IsExec(y) BY <1>21 DEF IsExec
<1>23. fn \in [0..w - 1 -> Seq(Tokens)] /\ HeldBy(fn, ids)
  <2>1. ids \in Seq(Tokens) BY DEF Tokens
  <2>2. u.engine \in [0..w - 1 -> Seq(Tokens)] BY <1>4, <1>14 DEF Memory
  <2>3. Len(ids) <= w
    <3>1. Len(ids) <= PagesFor(Len(ids)) * Block /\ PagesFor(Len(ids)) * Block <= LayerPages * Block
          /\ PagesFor(Len(ids)) * Block \in Nat /\ Len(ids) \in Nat
      BY PagesFacts
    <3> QED BY <1>4, <3>1
  <2> QED BY <1>15, <1>17, <1>18, <1>19, <2>1, <2>2, <2>3, StepsHold
<1>24. Memory(y) BY <1>4, <1>14, <1>22, <1>23 DEF Memory
<1>25. KvOf(y, held, e, kv) BY <1>8, <1>14, <1>22, <1>24, EngineFree
<1> QED BY <1>8, <1>14, <1>22, <1>23, <1>25

-----------------------------------------------------------------------------
(* The chunk in its place *)

\* c has the window `seg` and, if it decodes now, the KV of `ids`.
EntersKv(held, kv, g, lv, c, seg, ids) ==
  /\ c \in Client /\ c \in DOMAIN g /\ g[c] = seg
  /\ \A d \in DOMAIN lv : \/ d = c /\ lv[d] = ids
                          \/ d # c /\ d \in DOMAIN kv /\ lv[d] = kv[d] /\ d \in DOMAIN g /\ g[d] = held[d]

LEMMA CommitKv ==
  ASSUME NEW x, NEW held, NEW e, NEW kv, KvOf(x, held, e, kv), x.single = NoSingle,
         NEW ids \in Seq(Nat), Len(ids) <= MaxLen, HeldBy(x.engine, ids),
         NEW g, NEW lv, NEW c, NEW seg, Tables(g, e), EntersKv(held, kv, g, lv, c, seg, ids),
         NEW y, y = CommitStage(x, seg, 0, Len(ids))
  PROVE  KvOf(y, g, e, lv)
<1>1. Block \in Nat \ {0} /\ Len(ids) \in Nat /\ 0 \in Nat BY ConfigAssumption
<1>2. 0 \div Block = 0 BY <1>1, DivMod
<1>3. PICK n : n = PagesFor(Len(ids)) OBVIOUS
<1>4. n \in 0..LayerPages /\ Len(ids) <= n * Block /\ n * Block <= LayerPages * Block /\ n * Block \in Nat
  BY <1>1, <1>3, PagesFacts
<1>5. y = CopyEngineToPool(x, seg, 0, n) BY <1>2, <1>3 DEF CommitStage
<1>6. c \in DOMAIN g /\ g[c] = seg BY DEF EntersKv
<1>7. Window(seg) /\ SegPages(seg) \subseteq PoolPages BY <1>6 DEF Tables
<1>8. IsExec(x) /\ Memory(x) BY DEF KvOf
<1>9. /\ IsExec(y) /\ Memory(y) /\ y.engine = x.engine /\ y.single = x.single /\ y.pool = x.pool
      /\ Spares(x.store, y.store, SegPages(seg))
      /\ \A seq : Len(seq) \in Nat /\ Len(seq) <= n * Block /\ HeldBy(x.engine, seq) => Filled(y.store, seg.base, seq)
  BY <1>4, <1>5, <1>7, <1>8, CopyOut
<1>10. Filled(y.store, seg.base, ids) BY <1>1, <1>4, <1>9
<1>11. DOMAIN x.store = 0..KvPages * Block - 1 BY <1>8 DEF Memory
<1>12. ASSUME NEW d \in DOMAIN lv
       PROVE  d \in DOMAIN g /\ d \in Client /\ lv[d] \in Seq(Tokens) /\ Len(lv[d]) <= MaxLen /\ Has(y, g, d, lv[d])
  <2>1. CASE d = c /\ lv[d] = ids
    <3>1. ids \in Seq(Tokens) BY DEF Tokens
    <3>2. c \in Client BY DEF EntersKv
    <3>3. y.single.id # c BY <1>9, <3>2, NotNone
    <3> QED BY <1>6, <1>10, <2>1, <3>1, <3>2, <3>3 DEF Has
  <2>2. CASE d # c /\ d \in DOMAIN kv /\ lv[d] = kv[d] /\ d \in DOMAIN g /\ g[d] = held[d]
    <3>1. d \in Client /\ kv[d] \in Seq(Tokens) /\ Len(kv[d]) <= MaxLen /\ Has(x, held, d, kv[d]) BY <2>2 DEF KvOf
    <3>2. PICK s \in Seq(Tokens), t \in {g[d]} : s = kv[d] BY <3>1
    <3>3. d # NoSingle.id BY <3>1, NotNone
    <3>4. Filled(x.store, t.base, s) BY <2>2, <3>1, <3>2, <3>3 DEF Has
    <3>5. Window(t) /\ SegPages(t) \subseteq PoolPages /\ SegPages(t) \intersect SegPages(seg) = {}
      BY <1>6, <2>2, <3>2 DEF Tables
    <3>6. Len(s) \in Nat /\ Len(s) <= MaxLen BY <3>1, <3>2
    <3>7. Filled(y.store, t.base, s) BY <1>9, <1>11, <3>4, <3>5, <3>6, SegOn
    <3> QED BY <1>9, <2>2, <3>1, <3>2, <3>3, <3>7 DEF Has
  <2> QED BY <2>1, <2>2 DEF EntersKv
<1>13. ASSUME NEW k \in DOMAIN e PROVE Filled(y.store, e[k], k)
  <2>1. RunOf(e, k) \intersect SegPages(seg) = {} BY <1>6 DEF Tables
  <2>2. Filled(x.store, e[k], k) BY DEF KvOf
  <2> QED BY <1>9, <1>11, <2>1, <2>2, RunOn
<1>14. Singled(y, g, e, lv) BY <1>9 DEF Singled
<1> QED BY <1>9, <1>12, <1>13, <1>14 DEF KvOf

LEMMA AdoptKv ==
  ASSUME NEW x, NEW held, NEW e, NEW kv, KvOf(x, held, e, kv),
         NEW ids \in Seq(Nat), Len(ids) <= MaxLen, HeldBy(x.engine, ids),
         NEW g, NEW lv, NEW c, NEW seg, Tables(g, e), EntersKv(held, kv, g, lv, c, seg, ids), DOMAIN lv = {c},
         NEW y, y = AdoptSingleton(x, c, seg, 0, Len(ids))
  PROVE  KvOf(y, g, e, lv)
<1>1. PICK n \in Nat : n = Len(ids) OBVIOUS
<1>2. PICK s : s = [id |-> c, seg |-> seg, kvLen |-> n] OBVIOUS
<1>3. y = [x EXCEPT !.single = s]
  <2>1. 0 + n = n /\ ~(0 > 0) OBVIOUS
  <2> QED BY <1>1, <1>2, <2>1 DEF AdoptSingleton
<1>4. IsExec(x) /\ Memory(x) BY DEF KvOf
<1>5. y = [pool |-> x.pool, store |-> x.store, engine |-> x.engine, single |-> s] BY <1>3, <1>4 DEF IsExec
<1>6. y.store = x.store /\ y.engine = x.engine /\ y.single = s /\ IsExec(y) BY <1>5 DEF IsExec
<1>7. Memory(y) BY <1>4, <1>6 DEF Memory
<1>8. c \in Client /\ c \in DOMAIN g /\ g[c] = seg /\ lv[c] = ids BY DEF EntersKv
<1>9. Window(seg) /\ SegPages(seg) \subseteq PoolPages BY <1>8 DEF Tables
<1>10. s.id = c /\ s.seg = seg /\ s.kvLen = n BY <1>2
<1>11. Has(y, g, c, lv[c]) BY <1>1, <1>6, <1>8, <1>10 DEF Has
<1>12. Singled(y, g, e, lv) BY <1>1, <1>6, <1>8, <1>9, <1>10 DEF Singled
<1>13. ids \in Seq(Tokens) BY DEF Tokens
<1>14. \A k \in DOMAIN e : Filled(y.store, e[k], k) BY <1>6 DEF KvOf
<1> QED BY <1>6, <1>7, <1>8, <1>10, <1>11, <1>12, <1>13, <1>14 DEF KvOf

-----------------------------------------------------------------------------
(* A batch of one *)

\* r computes the next position of c, whose KV grows from s to t.
Computes(r, seg, s, t) ==
  /\ r.token \in Tokens /\ r.pos = Len(s) /\ r.kvLen = Len(s) + 1 /\ Len(s) + 1 <= MaxLen
  /\ r.seg = seg /\ t = Append(s, r.token)

LEMMA DecodeAloneKv ==
  ASSUME NEW x, NEW held, NEW e, NEW kv, Tables(held, e), KvOf(x, held, e, kv), NEW c, DOMAIN kv = {c}, NEW r,
         NEW lv, DOMAIN lv = {c}, Computes(r, held[c], kv[c], lv[c]), NEW y, y = DecodeAlone(x, c, r)
  PROVE  KvOf(y, held, e, lv) /\ y.single.id = c
<1>0. /\ r.token \in Tokens /\ r.pos = Len(kv[c]) /\ r.kvLen = Len(kv[c]) + 1 /\ Len(kv[c]) + 1 <= MaxLen
      /\ r.seg = held[c] /\ lv[c] = Append(kv[c], r.token)
  BY DEF Computes
<1>01. PICK token \in Tokens : token = r.token BY <1>0
<1>1. PICK seq \in Seq(Tokens) : seq = kv[c]
  <2>1. kv[c] \in Seq(Tokens) BY DEF KvOf
  <2> QED BY <2>1
<1>2. PICK n \in Nat : n = Len(seq) OBVIOUS
<1>3. c \in DOMAIN held /\ c \in Client /\ Len(seq) <= MaxLen /\ Has(x, held, c, seq) BY <1>1 DEF KvOf
<1>4. PICK seg : seg = held[c] OBVIOUS
<1>5. Window(seg) /\ SegPages(seg) \subseteq PoolPages BY <1>3, <1>4 DEF Tables
<1>6. PICK z : z = IF x.single.id = c THEN x ELSE CopyPoolToEngine(x, seg.base, PagesFor(n + 1)) OBVIOUS
<1>7. MaxLen \in Nat /\ n + 1 <= MaxLen /\ n + 1 \in Nat BY <1>0, <1>1, <1>2, ConfigAssumption
<1>8. PICK w \in Nat : w = LayerPages * Block BY MemoryWide
<1>9. PICK p \in Nat : p = PagesFor(n + 1) /\ p \in 0..LayerPages /\ n + 1 <= p * Block /\ p * Block <= w /\ p * Block \in Nat
  BY <1>7, <1>8, PagesFacts, WindowFacts
<1>10. n < w BY <1>9
<1>11. IsExec(z) /\ Memory(z) /\ z.store = x.store /\ HeldBy(z.engine, seq)
  <2>1. CASE x.single.id = c BY <1>3, <1>6, <2>1 DEF Has, KvOf
  <2>2. CASE x.single.id # c
    <3>1. seg.base \in Nat /\ seg = Seg(seg.base, WindowPages) BY <1>5, WindowIs
    <3>2. PICK b \in Nat : b = seg.base BY <3>1
    <3>3. RunsOf(b, p) \subseteq PoolPages
      <4>1. p # 0
        <5>1. CASE p = 0
          <6>1. p * Block = 0 BY <5>1, ConfigAssumption
          <6> QED BY <1>9, <6>1
        <5> QED BY <5>1
      <4>2. p \in 1..LayerPages BY <1>9, <4>1, WindowFacts
      <4>3. RunsOf(b, p) \subseteq SegPages(Seg(b, WindowPages)) BY <4>2, LayerFacts
      <4> QED BY <1>5, <3>1, <3>2, <4>3
    <3>4. z = CopyPoolToEngine(x, b, p) BY <1>6, <1>9, <2>2, <3>2
    <3>5. IsExec(x) /\ Memory(x) BY DEF KvOf
    <3>6. /\ IsExec(z) /\ Memory(z) /\ z.store = x.store
          /\ \A s : Len(s) \in Nat /\ Len(s) <= p * Block /\ Filled(x.store, b, s) => HeldBy(z.engine, s)
      <4>1. p \in 0..LayerPages /\ p * Block \in Nat BY <1>9
      <4>2. p * Block <= LayerPages * Block BY <1>8, <1>9
      <4> QED BY <3>3, <3>4, <3>5, <4>1, <4>2, CopyIn
    <3>7. Filled(x.store, b, seq) BY <1>3, <1>4, <2>2, <3>2 DEF Has
    <3>8. Len(seq) <= p * Block BY <1>2, <1>9
    <3> QED BY <1>2, <3>6, <3>7, <3>8
  <2> QED BY <2>1, <2>2
<1>12. PICK en : en = z.engine OBVIOUS
<1>13. PICK fn : fn = [en EXCEPT ![n] = KvAfter(en, n, token)] OBVIOUS
<1>14. PICK s : s = [id |-> c, seg |-> seg, kvLen |-> n + 1] OBVIOUS
<1>15. y = [z EXCEPT !.engine = fn, !.single = s]
  <2>1. r.pos = n /\ r.token = token /\ r.kvLen = n + 1 /\ r.seg = seg BY <1>0, <1>01, <1>1, <1>2, <1>4
  <2>2. y = [z EXCEPT !.engine[n] = KvAfter(en, n, token), !.single = s] BY <1>6, <1>12, <1>14, <2>1 DEF DecodeAlone
  <2> QED BY <1>12, <1>13, <2>2
<1>16. y = [pool |-> z.pool, store |-> z.store, engine |-> fn, single |-> s] BY <1>11, <1>15 DEF IsExec
<1>17. y.store = x.store /\ y.engine = fn /\ y.single = s /\ IsExec(y) BY <1>11, <1>16 DEF IsExec
<1>18. en \in [0..w - 1 -> Seq(Tokens)] BY <1>8, <1>11, <1>12 DEF Memory
<1>19. n \in 0..w - 1 BY <1>10
<1>20. KvAfter(en, n, token) \in Seq(Tokens)
  <2>1. n \in 0..w BY <1>19
  <2> QED BY <1>18, <2>1, KvAfterType
<1>21. fn \in [0..w - 1 -> Seq(Tokens)] BY <1>13, <1>18, <1>19, <1>20
<1>22. Memory(y) BY <1>8, <1>11, <1>17, <1>21 DEF Memory
<1>23. PICK more \in Seq(Tokens) : more = Append(seq, token) /\ Len(more) = n + 1
  <2>1. Append(seq, token) \in Seq(Tokens) /\ Len(Append(seq, token)) = n + 1 BY <1>2
  <2> QED BY <2>1
<1>24. HeldBy(fn, more)
  <2>1. Len(seq) \in DOMAIN en BY <1>2, <1>18, <1>19
  <2> QED BY <1>2, <1>11, <1>12, <1>13, <1>23, <2>1, OneMore
<1>25. lv[c] = more BY <1>0, <1>01, <1>1, <1>23
<1>26. s.id = c /\ s.seg = seg /\ s.kvLen = n + 1 BY <1>14
<1>27. Has(y, held, c, more) BY <1>4, <1>7, <1>17, <1>23, <1>24, <1>26 DEF Has
<1>28. Singled(y, held, e, lv) BY <1>3, <1>5, <1>7, <1>17, <1>26 DEF Singled
<1>29. \A k \in DOMAIN e : Filled(y.store, e[k], k) BY <1>17 DEF KvOf
<1> QED BY <1>3, <1>7, <1>17, <1>22, <1>23, <1>25, <1>26, <1>27, <1>28, <1>29 DEF KvOf

-----------------------------------------------------------------------------
(* A batch of several *)

\* Those who write have windows apart.
Writers(W) ==
  /\ \A r \in W : /\ Window(r.seg) /\ SegPages(r.seg) \subseteq PoolPages
                  /\ r.pos \in Nat /\ r.pos < MaxLen /\ r.token \in Tokens
  /\ \A r, q \in W : r # q => SegPages(r.seg) \intersect SegPages(q.seg) = {}

\* A slot is written by one of them at most.
LEMMA OneWriter ==
  ASSUME NEW W, Writers(W), NEW r \in W, NEW q \in W, NEW li \in Layers, NEW lj \in Layers,
         NEW i \in Nat, i < LayerPages * Block, SlotOf(r.seg.base, li, i) = SlotOf(q.seg.base, lj, q.pos)
  PROVE  q = r /\ lj = li /\ i = r.pos
<1>1. Window(r.seg) /\ SegPages(r.seg) \subseteq PoolPages /\ Window(q.seg) /\ SegPages(q.seg) \subseteq PoolPages
      /\ q.pos \in Nat /\ q.pos < MaxLen
  BY DEF Writers
<1>2. PICK j \in Nat : j = q.pos /\ j < LayerPages * Block BY <1>1, WideEnough
<1>3. PICK s, t : s = r.seg /\ t = q.seg OBVIOUS
<1>4. s.base \in Nat /\ Page(SlotOf(s.base, li, i)) \in SegPages(s) BY <1>1, <1>3, WindowSlot
<1>5. Page(SlotOf(t.base, lj, j)) \in SegPages(t) BY <1>1, <1>2, <1>3, WindowSlot
<1>6. SlotOf(s.base, li, i) = SlotOf(t.base, lj, j) BY <1>2, <1>3
<1>7. SegPages(s) \intersect SegPages(t) # {} BY <1>4, <1>5, <1>6
<1>8. q = r BY <1>3, <1>7 DEF Writers
<1>9. PICK b \in Nat : b = s.base BY <1>4
<1>10. SlotOf(b, li, i) = SlotOf(b, lj, j) BY <1>3, <1>6, <1>8, <1>9
<1>11. li = lj /\ i = j BY <1>2, <1>10, SlotsApart
<1> QED BY <1>2, <1>8, <1>11

LEMMA BatchKv ==
  ASSUME NEW st \in [0..KvPages * Block - 1 -> Seq(Tokens)], NEW W, Writers(W),
         NEW tt, tt = Apply(st, Writes(st, W))
  PROVE  /\ tt \in [0..KvPages * Block - 1 -> Seq(Tokens)]
         /\ Spares(st, tt, UNION {SegPages(r.seg) : r \in W})
         /\ \A r \in W, seq \in Seq(Tokens) :
              Len(seq) = r.pos /\ Filled(st, r.seg.base, seq) => Filled(tt, r.seg.base, Append(seq, r.token))
<1>0. PICK D : D = 0..KvPages * Block - 1 OBVIOUS
<1>1. PICK wide \in Nat : wide = LayerPages * Block BY MemoryWide
<1>2. \A r \in W : /\ Window(r.seg) /\ SegPages(r.seg) \subseteq PoolPages
                   /\ r.pos \in Nat /\ r.pos < wide /\ r.token \in Tokens
  <2> TAKE r \in W
  <2>1. Window(r.seg) /\ SegPages(r.seg) \subseteq PoolPages /\ r.pos \in Nat /\ r.pos < MaxLen /\ r.token \in Tokens BY DEF Writers
  <2> QED BY <1>1, <2>1, WideEnough
<1>3. ASSUME NEW r \in W, NEW li \in Layers
      PROVE  /\ SlotOf(r.seg.base, li, r.pos) \in D /\ Page(SlotOf(r.seg.base, li, r.pos)) \in SegPages(r.seg)
             /\ KvAfter(LayerKv(st, r, li), r.pos, r.token) \in Seq(Tokens)
  <2>1. PICK p \in Nat, token \in Tokens, seg \in {r.seg} : p = r.pos /\ token = r.token /\ seg = r.seg BY <1>2
  <2>2. Window(seg) /\ SegPages(seg) \subseteq PoolPages /\ p < wide BY <1>2, <2>1
  <2>3. \A i \in 0..p : SlotOf(seg.base, li, i) \in D
    <3> TAKE i \in 0..p
    <3>1. i \in Nat /\ i < LayerPages * Block BY <1>1, <2>2
    <3> QED BY <1>0, <2>2, <3>1, WindowSlot
  <2>4. p < LayerPages * Block BY <1>1, <2>2
  <2>5. SlotOf(seg.base, li, p) \in D /\ Page(SlotOf(seg.base, li, p)) \in SegPages(seg) BY <1>0, <2>2, <2>4, WindowSlot
  <2>6. PICK w \in Nat : w = p + 1 OBVIOUS
  <2>7. PICK en : en = LayerKv(st, r, li) OBVIOUS
  <2>8. en = [i \in 0..p |-> st[SlotOf(seg.base, li, i)]] BY <2>1, <2>7 DEF LayerKv
  <2>9. w - 1 = p /\ p \in 0..w BY <2>6
  <2>10. en \in [0..w - 1 -> Seq(Tokens)] BY <1>0, <2>3, <2>8, <2>9
  <2>11. KvAfter(en, p, token) \in Seq(Tokens) BY <2>9, <2>10, KvAfterType
  <2> QED BY <2>1, <2>5, <2>7, <2>11
<1>4. PICK writes : writes = Writes(st, W) OBVIOUS
<1>5. \A w : w \in writes <=> \E r \in W, li \in Layers : w = Write(st, r, li) BY <1>4 DEF Writes
<1>6. DOMAIN st = D /\ DOMAIN tt = D /\ \E E : tt = [s \in E |-> tt[s]] BY <1>0 DEF Apply
<1>7. ASSUME NEW s \in D, \A w \in writes : w[1] # s PROVE tt[s] = st[s]
  <2>1. ~\E w \in writes : w[1] = s BY <1>7
  <2> QED BY <1>4, <1>6, <2>1 DEF Apply
<1>8. ASSUME NEW s \in D, NEW v \in writes, v[1] = s PROVE \E w \in writes : w[1] = s /\ tt[s] = w[2]
  <2>1. PICK w : w = CHOOSE u \in writes : u[1] = s OBVIOUS
  <2>2. w \in writes /\ w[1] = s BY <1>8, <2>1
  <2>3. tt[s] = (CHOOSE u \in writes : u[1] = s)[2] BY <1>4, <1>6, <1>8 DEF Apply
  <2> QED BY <2>1, <2>2, <2>3
<1>9. ASSUME NEW w \in writes
      PROVE  \E r \in W, li \in Layers : w[1] = SlotOf(r.seg.base, li, r.pos) /\ w[2] = KvAfter(LayerKv(st, r, li), r.pos, r.token)
  <2>1. PICK r \in W, li \in Layers : w = Write(st, r, li) BY <1>5
  <2>2. w = <<SlotOf(r.seg.base, li, r.pos), KvAfter(LayerKv(st, r, li), r.pos, r.token)>> BY <2>1 DEF Write
  <2>3. w[1] = SlotOf(r.seg.base, li, r.pos) /\ w[2] = KvAfter(LayerKv(st, r, li), r.pos, r.token) BY <2>2
  <2> QED BY <2>3
<1>10. ASSUME NEW s \in D PROVE tt[s] \in Seq(Tokens)
  <2>1. CASE \A w \in writes : w[1] # s BY <1>0, <1>7, <2>1
  <2>2. CASE \E w \in writes : w[1] = s
    <3>1. PICK w \in writes : w[1] = s /\ tt[s] = w[2] BY <1>8, <2>2
    <3> QED BY <1>3, <1>9, <3>1
  <2> QED BY <2>1, <2>2
<1>11. Spares(st, tt, UNION {SegPages(r.seg) : r \in W})
  <2>1. ASSUME NEW s \in D, Page(s) \notin UNION {SegPages(r.seg) : r \in W} PROVE tt[s] = st[s]
    <3>1. ASSUME NEW w \in writes, w[1] = s PROVE FALSE
      <4>1. PICK r \in W : Page(s) \in SegPages(r.seg) BY <1>3, <1>9, <3>1
      <4> QED BY <2>1, <4>1
    <3> QED BY <1>7, <3>1
  <2> QED BY <1>6, <2>1 DEF Spares
<1>12. ASSUME NEW r \in W, NEW seq \in Seq(Tokens), Len(seq) = r.pos, Filled(st, r.seg.base, seq)
       PROVE  Filled(tt, r.seg.base, Append(seq, r.token))
  <2>1. PICK n \in Nat, token \in Tokens, seg \in {r.seg} : n = r.pos /\ token = r.token /\ seg = r.seg /\ n = Len(seq) BY <1>2, <1>12
  <2>2. Window(seg) /\ SegPages(seg) \subseteq PoolPages /\ n < wide BY <1>2, <2>1
  <2>3. PICK more \in Seq(Tokens) : more = Append(seq, token)
    <3>1. Append(seq, token) \in Seq(Tokens) OBVIOUS
    <3> QED BY <3>1
  <2>4. Len(more) = n + 1 /\ SubSeq(more, 1, n + 1) = more /\ \A i \in 1..n : SubSeq(more, 1, i) = SubSeq(seq, 1, i)
    BY <2>1, <2>3, MoreCuts
  <2>5. ASSUME NEW li \in Layers, NEW j \in 0..n PROVE tt[SlotOf(seg.base, li, j)] = SubSeq(more, 1, j + 1)
    <3>1. j \in Nat /\ j < LayerPages * Block BY <1>1, <2>2
    <3>2. PICK s : s = SlotOf(seg.base, li, j) OBVIOUS
    <3>3. s \in D BY <1>0, <2>2, <3>1, <3>2, WindowSlot
    <3>4. ASSUME NEW q \in W, NEW lj \in Layers, SlotOf(q.seg.base, lj, q.pos) = s PROVE q = r /\ lj = li /\ j = n
      <4>1. PICK i \in Nat : i = j /\ i < LayerPages * Block BY <3>1
      <4>2. SlotOf(r.seg.base, li, i) = SlotOf(q.seg.base, lj, q.pos) BY <2>1, <3>2, <3>4, <4>1
      <4>3. q = r /\ lj = li /\ i = r.pos BY <4>1, <4>2, OneWriter
      <4> QED BY <2>1, <4>1, <4>3
    <3>5. CASE j < n
      <4>1. \A w \in writes : w[1] # s
        <5>1. ASSUME NEW w \in writes, w[1] = s PROVE FALSE
          <6>1. j = n BY <1>9, <3>4, <5>1
          <6> QED BY <3>5, <6>1
        <5> QED BY <5>1
      <4>2. tt[s] = st[s] BY <1>7, <3>3, <4>1
      <4>3. j + 1 \in 1..n /\ (j + 1) - 1 = j BY <3>5
      <4>4. \A i \in 1..n : st[SlotOf(seg.base, li, i - 1)] = SubSeq(seq, 1, i) BY <1>12, <2>1 DEF Filled
      <4>5. st[s] = SubSeq(seq, 1, j + 1) BY <3>2, <4>3, <4>4
      <4> QED BY <2>4, <3>2, <4>2, <4>3, <4>5
    <3>6. CASE j = n
      <4>1. PICK v : v = Write(st, r, li) OBVIOUS
      <4>2. v \in writes BY <1>5, <4>1
      <4>3. v[1] = s
        <5>1. v = <<SlotOf(r.seg.base, li, r.pos), KvAfter(LayerKv(st, r, li), r.pos, r.token)>> BY <4>1 DEF Write
        <5>2. v[1] = SlotOf(r.seg.base, li, r.pos) BY <5>1
        <5> QED BY <2>1, <3>2, <3>6, <5>2
      <4>4. PICK w \in writes : w[1] = s /\ tt[s] = w[2] BY <1>8, <3>3, <4>2, <4>3
      <4>5. w[2] = KvAfter(LayerKv(st, r, li), n, token) BY <1>9, <2>1, <3>4, <4>4
      <4>6. PICK en : en = LayerKv(st, r, li) OBVIOUS
      <4>7. en = [i \in 0..n |-> st[SlotOf(seg.base, li, i)]] BY <2>1, <4>6 DEF LayerKv
      <4>8. HeldBy(en, seq)
        <5>1. \A i \in 1..n : st[SlotOf(seg.base, li, i - 1)] = SubSeq(seq, 1, i) BY <1>12, <2>1 DEF Filled
        <5>2. ASSUME NEW i \in 1..n PROVE en[i - 1] = SubSeq(seq, 1, i)
          <6>1. i - 1 \in 0..n OBVIOUS
          <6> QED BY <4>7, <5>1, <6>1
        <5> QED BY <2>1, <5>2 DEF HeldBy
      <4>9. KvAfter(en, Len(seq), token) = Append(seq, token) BY <4>8, KvAfterIs
      <4> QED BY <2>1, <2>3, <2>4, <3>2, <3>6, <4>4, <4>5, <4>6, <4>9
    <3> QED BY <3>5, <3>6
  <2>6. ASSUME NEW li \in Layers, NEW i \in 1..n + 1 PROVE tt[SlotOf(seg.base, li, i - 1)] = SubSeq(more, 1, i)
    <3>1. PICK j \in 0..n : j = i - 1 /\ i = j + 1 OBVIOUS
    <3> QED BY <2>5, <3>1
  <2> QED BY <2>1, <2>3, <2>4, <2>6 DEF Filled
<1> QED BY <1>0, <1>6, <1>10, <1>11, <1>12

LEMMA DecodeTogetherKv ==
  ASSUME NEW x, NEW held, NEW e, NEW kv, Tables(held, e), KvOf(x, held, e, kv), NEW rs, DOMAIN rs = DOMAIN kv,
         \A c \in DOMAIN kv : rs[c].token \in Tokens /\ rs[c].pos = Len(kv[c]) /\ Len(kv[c]) + 1 <= MaxLen /\ rs[c].seg = held[c],
         NEW lv, DOMAIN lv = DOMAIN kv, \A c \in DOMAIN kv : lv[c] = Append(kv[c], rs[c].token),
         NEW y, y = DecodeTogether(x, rs)
  PROVE  KvOf(y, held, e, lv) /\ y.single = NoSingle
<1>1. PICK z : z = FlushSingleton(x) OBVIOUS
<1>2. KvOf(z, held, e, kv) /\ z.single = NoSingle BY <1>1, FlushKv
<1>3. PICK st, W : st = z.store /\ W = Batch(rs) OBVIOUS
<1>4. PICK tt : tt = Apply(st, Writes(st, W)) OBVIOUS
<1>5. y = [z EXCEPT !.store = tt] BY <1>1, <1>3, <1>4, TogetherIs
<1>6. IsExec(z) /\ Memory(z) BY <1>2 DEF KvOf
<1>7. y = [pool |-> z.pool, store |-> tt, engine |-> z.engine, single |-> z.single] BY <1>5, <1>6 DEF IsExec
<1>8. y.store = tt /\ y.engine = z.engine /\ y.single = NoSingle /\ IsExec(y) BY <1>2, <1>7 DEF IsExec
<1>9. st \in [0..KvPages * Block - 1 -> Seq(Tokens)] BY <1>3, <1>6 DEF Memory
<1>10. MaxLen \in Nat \ {0} BY ConfigAssumption
<1>11. ASSUME NEW c \in DOMAIN kv
       PROVE  /\ c \in DOMAIN held /\ c \in Client /\ rs[c] \in W /\ Window(held[c]) /\ SegPages(held[c]) \subseteq PoolPages
              /\ rs[c].seg = held[c] /\ rs[c].pos \in Nat /\ rs[c].pos < MaxLen /\ rs[c].token \in Tokens
              /\ kv[c] \in Seq(Tokens) /\ Len(kv[c]) = rs[c].pos /\ Filled(st, held[c].base, kv[c])
  <2>1. c \in DOMAIN held /\ c \in Client /\ kv[c] \in Seq(Tokens) /\ Has(z, held, c, kv[c]) BY <1>2 DEF KvOf
  <2>2. PICK n \in Nat : n = Len(kv[c]) BY <2>1
  <2>3. rs[c].token \in Tokens /\ rs[c].pos = n /\ n + 1 <= MaxLen /\ rs[c].seg = held[c] BY <2>2
  <2>4. n < MaxLen BY <1>10, <2>3
  <2>5. rs[c] \in W BY <1>3 DEF Batch
  <2>6. Window(held[c]) /\ SegPages(held[c]) \subseteq PoolPages BY <2>1 DEF Tables
  <2>7. Filled(st, held[c].base, kv[c]) BY <1>2, <1>3, <2>1, NotNone DEF Has
  <2> QED BY <2>1, <2>2, <2>3, <2>4, <2>5, <2>6, <2>7
<1>12. \A r \in W : r = Phantom \/ \E c \in DOMAIN kv : r = rs[c] BY <1>3 DEF Batch
<1>13. Phantom.seg = Anchor /\ Phantom.pos = 0 /\ Phantom.token \in Tokens
  BY DEF Phantom, PhantomToken, Tokens
<1>14. Writers(W)
  <2>1. ASSUME NEW r \in W
        PROVE  /\ Window(r.seg) /\ SegPages(r.seg) \subseteq PoolPages
               /\ r.pos \in Nat /\ r.pos < MaxLen /\ r.token \in Tokens
    <3>1. CASE r = Phantom BY <1>10, <1>13, <3>1, AnchorWindow
    <3>2. ASSUME NEW c \in DOMAIN kv, r = rs[c] PROVE Window(r.seg) /\ SegPages(r.seg) \subseteq PoolPages /\ r.pos \in Nat /\ r.pos < MaxLen /\ r.token \in Tokens
      BY <1>11, <3>2
    <3> QED BY <1>12, <3>1, <3>2
  <2>2. ASSUME NEW r \in W, NEW q \in W, r # q PROVE SegPages(r.seg) \intersect SegPages(q.seg) = {}
    <3>1. \A c \in DOMAIN kv : SegPages(rs[c].seg) \intersect SegPages(Phantom.seg) = {} BY <1>11, <1>13 DEF Tables
    <3>2. \A c, d \in DOMAIN kv : c # d => SegPages(rs[c].seg) \intersect SegPages(rs[d].seg) = {} BY <1>11 DEF Tables
    <3>3. CASE r = Phantom
      <4>1. PICK c \in DOMAIN kv : q = rs[c] BY <1>12, <2>2, <3>3
      <4> QED BY <3>1, <3>3, <4>1
    <3>4. CASE q = Phantom
      <4>1. PICK c \in DOMAIN kv : r = rs[c] BY <1>12, <2>2, <3>4
      <4> QED BY <3>1, <3>4, <4>1
    <3>5. CASE r # Phantom /\ q # Phantom
      <4>1. PICK c \in DOMAIN kv, d \in DOMAIN kv : r = rs[c] /\ q = rs[d] BY <1>12, <3>5
      <4>2. c # d BY <2>2, <4>1
      <4> QED BY <3>2, <4>1, <4>2
    <3> QED BY <3>3, <3>4, <3>5
  <2> QED BY <2>1, <2>2 DEF Writers
<1>15. /\ tt \in [0..KvPages * Block - 1 -> Seq(Tokens)]
       /\ Spares(st, tt, UNION {SegPages(r.seg) : r \in W})
       /\ \A r \in W, seq \in Seq(Tokens) :
            Len(seq) = r.pos /\ Filled(st, r.seg.base, seq) => Filled(tt, r.seg.base, Append(seq, r.token))
  BY <1>4, <1>9, <1>14, BatchKv
<1>16. PICK P : P = UNION {SegPages(r.seg) : r \in W} OBVIOUS
<1>17. Memory(y) BY <1>6, <1>8, <1>15 DEF Memory
<1>18. ASSUME NEW c \in DOMAIN lv
       PROVE  c \in DOMAIN held /\ c \in Client /\ lv[c] \in Seq(Tokens) /\ Len(lv[c]) <= MaxLen /\ Has(y, held, c, lv[c])
  <2>1. PICK seq \in Seq(Tokens), token \in Tokens : seq = kv[c] /\ token = rs[c].token BY <1>11
  <2>2. lv[c] = Append(seq, token) BY <2>1
  <2>3. Append(seq, token) \in Seq(Tokens) /\ Len(Append(seq, token)) = Len(seq) + 1 OBVIOUS
  <2>4. Filled(tt, held[c].base, Append(seq, token)) BY <1>11, <1>15, <2>1
  <2>5. Len(lv[c]) <= MaxLen BY <2>1, <2>2, <2>3
  <2>6. y.single.id # c BY <1>8, <1>11, NotNone
  <2> QED BY <1>8, <1>11, <2>2, <2>3, <2>4, <2>5, <2>6 DEF Has
<1>19. ASSUME NEW k \in DOMAIN e PROVE Filled(y.store, e[k], k)
  <2>1. RunOf(e, k) \intersect P = {}
    <3>1. RunOf(e, k) \intersect SegPages(Anchor) = {} BY DEF Tables
    <3>2. \A c \in DOMAIN kv : RunOf(e, k) \intersect SegPages(rs[c].seg) = {} BY <1>11 DEF Tables
    <3>3. \A r \in W : RunOf(e, k) \intersect SegPages(r.seg) = {} BY <1>12, <1>13, <3>1, <3>2
    <3> QED BY <1>16, <3>3
  <2>2. Filled(st, e[k], k) BY <1>2, <1>3 DEF KvOf
  <2>3. DOMAIN st = 0..KvPages * Block - 1 BY <1>9
  <2>4. Filled(tt, e[k], k) BY <1>15, <1>16, <2>1, <2>2, <2>3, RunOn
  <2> QED BY <1>8, <2>4
<1>20. Singled(y, held, e, lv) BY <1>8 DEF Singled
<1> QED BY <1>8, <1>17, <1>18, <1>19, <1>20 DEF KvOf

-----------------------------------------------------------------------------
(* What leaves the memory alone *)

\* The requests s are gone, and the singleton with its request.
Kin(x, y, s) ==
  /\ IsExec(y) /\ y.store = x.store /\ y.engine = x.engine
  /\ y.single = IF x.single.id \in s THEN NoSingle ELSE x.single

LEMMA KinMore ==
  ASSUME NEW x, NEW y, NEW t, Kin(x, y, t), NEW c, NEW held, NEW s, s = t \union {c}
  PROVE  Kin(x, Releases(y, c, held), s)
<1>1. PICK u : u = IF c \in DOMAIN held THEN FreeSegment(y, held[c]) ELSE y OBVIOUS
<1>2. IsExec(u) /\ u.store = x.store /\ u.engine = x.engine /\ u.single = y.single
  <2>1. CASE c \in DOMAIN held
    <3>1. PICK q : q = Unref(y.pool, held[c]) OBVIOUS
    <3>2. u = [y EXCEPT !.pool = q] BY <1>1, <2>1, <3>1 DEF FreeSegment
    <3> QED BY <3>2, PoolOnly DEF Kin
  <2>2. CASE c \notin DOMAIN held BY <1>1, <2>2 DEF Kin
  <2> QED BY <2>1, <2>2
<1>3. PICK v : v = DropSingleton(u, c) OBVIOUS
<1>4. Releases(y, c, held) = v BY <1>1, <1>3 DEF Releases
<1>5. IsExec(v) /\ v.store = x.store /\ v.engine = x.engine /\ v.single = IF y.single.id = c THEN NoSingle ELSE y.single
  <2>1. CASE u.single.id = c
    <3>1. v = [u EXCEPT !.single = NoSingle] BY <1>3, <2>1 DEF DropSingleton
    <3> QED BY <1>2, <2>1, <3>1, SingleOnly
  <2>2. CASE u.single.id # c
    <3>1. v = u BY <1>3, <2>2 DEF DropSingleton
    <3> QED BY <1>2, <2>2, <3>1
  <2> QED BY <2>1, <2>2
<1>6. v.single = IF x.single.id \in s THEN NoSingle ELSE x.single BY <1>5 DEF Kin
<1> QED BY <1>4, <1>5, <1>6 DEF Kin

LEMMA KinRelease ==
  ASSUME NEW x, IsExec(x), NEW held, NEW ids, IsFiniteSet(ids), NEW y, y = ReleaseAll(x, ids, held)
  PROVE  Kin(x, y, ids)
<1> DEFINE Fix(f) == f = [s \in SUBSET ids |->
                            IF s = {} THEN x ELSE Releases(f[s \ {CHOOSE c \in s : TRUE}], CHOOSE c \in s : TRUE, held)]
           iter == CHOOSE f : Fix(f)
           n == Cardinality(ids)
           P == {k \in 0..n : \A s \in SUBSET ids : Cardinality(s) = k => Kin(x, iter[s], s)}
<1>1. y = iter[ids] BY Zenon DEF ReleaseAll, FoldSet, MapThenFoldSet, Releases
<1>2. PICK f : ReleasesOver(f, x, held, ids) BY ReleasesExist
<1>3. Fix(f) BY <1>2 DEF ReleasesOver
<1>4. Fix(iter) BY <1>3
<1> HIDE DEF iter
<1>5. \A s \in SUBSET ids :
        iter[s] = IF s = {} THEN x ELSE Releases(iter[s \ {CHOOSE c \in s : TRUE}], CHOOSE c \in s : TRUE, held)
  BY <1>4
<1> HIDE DEF Fix
<1>6. n \in Nat BY FS_CardinalityType
<1>7. \A s \in SUBSET ids : IsFiniteSet(s) /\ Cardinality(s) \in 0..n
  <2> TAKE s \in SUBSET ids
  <2>1. IsFiniteSet(s) /\ Cardinality(s) <= n BY FS_Subset
  <2>2. Cardinality(s) \in Nat BY <2>1, FS_CardinalityType
  <2> QED BY <1>6, <2>1, <2>2
<1>8. 0 \in P
  <2>1. ASSUME NEW s \in SUBSET ids, Cardinality(s) = 0 PROVE Kin(x, iter[s], s)
    <3>1. s = {} BY <1>7, <2>1, FS_EmptySet
    <3>2. iter[s] = x BY <1>5, <3>1
    <3> QED BY <3>1, <3>2 DEF Kin
  <2> QED BY <1>6, <2>1
<1>9. ASSUME NEW k \in 1..n, k - 1 \in P PROVE k \in P
  <2>1. ASSUME NEW s \in SUBSET ids, Cardinality(s) = k PROVE Kin(x, iter[s], s)
    <3>1. s # {}
      <4>1. Cardinality(s) # 0 BY <2>1
      <4> QED BY <4>1, FS_EmptySet
    <3>2. PICK c : c = CHOOSE d \in s : TRUE OBVIOUS
    <3>3. c \in s BY <3>1, <3>2
    <3>4. PICK t : t = s \ {c} OBVIOUS
    <3>5. t \in SUBSET ids /\ Cardinality(t) = k - 1 BY <1>7, <2>1, <3>3, <3>4, FewerLeft
    <3>6. Kin(x, iter[t], t) BY <1>9, <3>5
    <3>7. iter[s] = Releases(iter[t], c, held) BY <1>5, <3>1, <3>2, <3>4
    <3>8. s = t \union {c} BY <3>3, <3>4
    <3> QED BY <3>6, <3>7, <3>8, KinMore
  <2> QED BY <1>6, <2>1
<1>10. n \in P
  <2> HIDE DEF P
  <2>1. \A k \in 0..n : k \in P BY <1>6, <1>8, <1>9, PrefixInduction
  <2> QED BY <1>6, <2>1
<1> QED BY <1>1, <1>10

\* The requests that remain, as they were; the entries that remain and the one gained.
Remain(held, kv, g, lv) == \A d \in DOMAIN lv : d \in DOMAIN kv /\ d \in DOMAIN g /\ g[d] = held[d] /\ lv[d] = kv[d]

Gains(e, key, base, f) == \A k \in DOMAIN f : \/ k = key /\ f[k] = base
                                              \/ k \in DOMAIN e /\ f[k] = e[k]

\* The request ends and leaves the beginning of its KV to the cache.
LEMMA RefillKv ==
  ASSUME NEW x, NEW held, NEW e, NEW kv, Tables(held, e), KvOf(x, held, e, kv),
         NEW c \in DOMAIN kv, x.single = NoSingle \/ x.single.id = c,
         NEW key, Begins(key, kv[c]), NEW g, NEW f, NEW lv,
         Remain(held, kv, g, lv), Gains(e, key, held[c].base, f), NEW pages, NEW y, y = RefillPrefix(x, c, held[c], pages)
  PROVE  KvOf(y, g, f, lv) /\ y.single = NoSingle
<1>1. PICK seg : seg = held[c] OBVIOUS
<1>2. PICK u : u = IF x.single.id = c THEN CopyEngineToPool(x, seg, 0, PagesFor(x.single.kvLen)) ELSE x OBVIOUS
<1>3. PICK z : z = FlushSingleton(x) OBVIOUS
<1>4. KvOf(z, held, e, kv) /\ z.single = NoSingle BY <1>3, FlushKv
<1>5. c \in Client /\ c \in DOMAIN held /\ c # NoSingle.id /\ kv[c] \in Seq(Tokens)
  <2>1. c \in Client /\ c \in DOMAIN held /\ kv[c] \in Seq(Tokens) BY DEF KvOf
  <2> QED BY <2>1, NotNone
<1>6. IsExec(x) /\ Memory(x) BY DEF KvOf
<1>7. IsExec(u) /\ u.store = z.store /\ u.engine = z.engine
  <2>1. CASE x.single = NoSingle
    <3>1. u = x /\ z = x BY <1>2, <1>3, <1>5, <2>1 DEF FlushSingleton
    <3> QED BY <1>6, <3>1
  <2>2. CASE x.single # NoSingle
    <3>1. x.single.id = c BY <2>2
    <3>2. x.single.seg = seg
      <4>1. Has(x, held, c, kv[c]) BY DEF KvOf
      <4> QED BY <1>1, <3>1, <4>1 DEF Has
    <3>3. z = [u EXCEPT !.single = NoSingle] BY <1>2, <1>3, <2>2, <3>1, <3>2 DEF FlushSingleton
    <3>4. Keeps(x, u) BY <1>2, <1>6, <3>1, CopyKeeps
    <3>5. IsExec(u) BY <3>4 DEF Keeps
    <3> QED BY <3>3, <3>5, SingleOnly
  <2> QED BY <2>1, <2>2
<1>8. PICK p : p = FoldLeft(Ref, u.pool, LayerRuns(seg.base, pages)) OBVIOUS
<1>9. PICK v : v = [u EXCEPT !.pool = p, !.single = NoSingle] OBVIOUS
<1>10. v = [pool |-> p, store |-> u.store, engine |-> u.engine, single |-> NoSingle] BY <1>7, <1>9 DEF IsExec
<1>11. IsExec(v) /\ v.store = u.store /\ v.engine = u.engine /\ v.single = NoSingle BY <1>10 DEF IsExec
<1>12. y = FreeSegment(v, seg)
  <2>1. y = FreeSegment([u EXCEPT !.pool = FoldLeft(Ref, @, LayerRuns(seg.base, pages)), !.single = NoSingle], seg)
    BY <1>1, <1>2, Zenon DEF RefillPrefix
  <2> QED BY <1>8, <1>9, <2>1
<1>13. PICK q : q = Unref(v.pool, seg) OBVIOUS
<1>14. y = [v EXCEPT !.pool = q] BY <1>12, <1>13 DEF FreeSegment
<1>15. IsExec(y) /\ y.store = z.store /\ y.engine = z.engine /\ y.single = NoSingle BY <1>7, <1>11, <1>14, PoolOnly
<1>16. Memory(y) BY <1>4, <1>15 DEF KvOf, Memory
<1>17. ASSUME NEW d \in DOMAIN lv
       PROVE  d \in DOMAIN g /\ d \in Client /\ lv[d] \in Seq(Tokens) /\ Len(lv[d]) <= MaxLen /\ Has(y, g, d, lv[d])
  <2>1. d \in DOMAIN kv /\ d \in DOMAIN g /\ g[d] = held[d] /\ lv[d] = kv[d] BY DEF Remain
  <2>2. d \in Client /\ kv[d] \in Seq(Tokens) /\ Len(kv[d]) <= MaxLen /\ Has(z, held, d, kv[d]) BY <1>4, <2>1 DEF KvOf
  <2>3. d # NoSingle.id BY <2>2, NotNone
  <2>4. Filled(z.store, held[d].base, kv[d]) BY <1>4, <2>2, <2>3 DEF Has
  <2> QED BY <1>15, <2>1, <2>2, <2>3, <2>4 DEF Has
<1>18. ASSUME NEW k \in DOMAIN f PROVE Filled(y.store, f[k], k)
  <2>1. CASE k = key /\ f[k] = held[c].base
    <3>1. PICK t \in Seq(Tokens) : t = kv[c] BY <1>5
    <3>2. Filled(z.store, seg.base, t)
      <4>1. Has(z, held, c, t) BY <1>4, <3>1 DEF KvOf
      <4> QED BY <1>1, <1>4, <1>5, <4>1 DEF Has
    <3>3. Filled(z.store, seg.base, key) BY <3>1, <3>2, BeginsFilled
    <3> QED BY <1>1, <1>15, <2>1, <3>3
  <2>2. CASE k \in DOMAIN e /\ f[k] = e[k] BY <1>4, <1>15, <2>2 DEF KvOf
  <2> QED BY <2>1, <2>2 DEF Gains
<1>19. Singled(y, g, f, lv) BY <1>15 DEF Singled
<1> QED BY <1>15, <1>16, <1>17, <1>18, <1>19 DEF KvOf

-----------------------------------------------------------------------------
(* Histories *)

\* The prompt and the tokens generated last, k tokens in all, and those of them
\* whose KV the request has: all once its next token is computed.
Hist(p, gen, k) == p \o SubSeq(gen, Len(gen) - (k - Len(p)) + 1, Len(gen))

KvSeq(p, gen, k, done) == SubSeq(Hist(p, gen, k), 1, IF done THEN k ELSE k - 1)

\* The prompt has l tokens, d + n are generated, and the history has n of them.
Lengths(p, gen, l, d, n) ==
  /\ p \in Seq(Nat) /\ gen \in Seq(Vocab) /\ l \in Nat /\ d \in Nat /\ n \in Nat
  /\ Len(p) = l /\ Len(gen) = d + n

Spliced(h, p, gen, l, d, n) ==
  /\ h \in Seq(Tokens) /\ Len(h) = l + n
  /\ \A i \in 1..l : h[i] = p[i]
  /\ \A i \in 1..n : h[l + i] = gen[d + i]

LEMMA HistFacts ==
  ASSUME NEW p, NEW gen, NEW l, NEW d, NEW n, Lengths(p, gen, l, d, n)
  PROVE  Spliced(Hist(p, gen, l + n), p, gen, l, d, n)
<1>0. p \in Seq(Nat) /\ gen \in Seq(Vocab) /\ l \in Nat /\ d \in Nat /\ n \in Nat /\ Len(p) = l /\ Len(gen) = d + n
  BY DEF Lengths
<1>2. PICK h : h = Hist(p, gen, l + n) OBVIOUS
<1>1. PICK m \in Nat : m = d + n BY <1>0
<1>3. PICK t : t = SubSeq(gen, d + 1, m) OBVIOUS
<1>4. t \in Seq(Vocab) /\ Len(t) = n /\ \A i \in 1..n : t[i] = gen[d + i]
  <2>1. \A i \in d + 1..m : gen[i] \in Vocab
    <3>1. \A i \in d + 1..m : i \in 1..Len(gen) BY <1>0, <1>1
    <3> QED BY <1>0, <3>1
  <2>2. d + 1 \in Int /\ m \in Int BY <1>0, <1>1
  <2>3. /\ t \in Seq(Vocab) /\ Len(t) = IF d + 1 <= m THEN m - (d + 1) + 1 ELSE 0
        /\ \A i \in 1..m - (d + 1) + 1 : t[i] = gen[(d + 1) + i - 1]
    BY <1>3, <2>1, <2>2, SubSeqProperties
  <2>4. m - (d + 1) + 1 = n BY <1>0, <1>1
  <2>5. \A i \in 1..n : (d + 1) + i - 1 = d + i BY <1>0
  <2>6. Len(t) = n BY <1>0, <1>1, <2>3
  <2> QED BY <2>3, <2>4, <2>5, <2>6
<1>5. p \in Seq(Tokens) /\ t \in Seq(Tokens) BY <1>0, <1>4 DEF Tokens
<1>6. h = p \o t
  <2>1. Len(gen) - ((l + n) - Len(p)) + 1 = d + 1 /\ Len(gen) = m BY <1>0, <1>1
  <2> QED BY <1>2, <1>3, <2>1 DEF Hist
<1>7. h \in Seq(Tokens) /\ Len(h) = l + n
      /\ \A i \in 1..Len(p) + Len(t) : h[i] = IF i <= Len(p) THEN p[i] ELSE t[i - Len(p)]
  <2>1. /\ p \o t \in Seq(Tokens) /\ Len(p \o t) = Len(p) + Len(t)
        /\ \A i \in 1..Len(p) + Len(t) : (p \o t)[i] = IF i <= Len(p) THEN p[i] ELSE t[i - Len(p)]
    BY <1>5, ConcatProperties
  <2> QED BY <1>0, <1>4, <1>6, <2>1
<1>8. \A i \in 1..l + n : h[i] = IF i <= l THEN p[i] ELSE t[i - l] BY <1>0, <1>4, <1>7
<1>9. ASSUME NEW i \in 1..l PROVE h[i] = p[i]
  <2>1. i \in 1..l + n /\ i <= l BY <1>0
  <2> QED BY <1>8, <2>1
<1>10. ASSUME NEW i \in 1..n PROVE h[l + i] = gen[d + i]
  <2>1. l + i \in 1..l + n /\ ~(l + i <= l) /\ (l + i) - l = i BY <1>0
  <2> QED BY <1>4, <1>8, <2>1
<1> QED BY <1>2, <1>7, <1>9, <1>10 DEF Spliced

\* Right after the prefill, and with one more token.
LEMMA HistFresh ==
  ASSUME NEW p \in Seq(Nat), NEW gen \in Seq(Vocab)
  PROVE  Hist(p, gen, Len(p)) = p
<1>1. PICK l \in Nat, d \in Nat : l = Len(p) /\ d = Len(gen) OBVIOUS
<1>2. PICK n \in {0} : TRUE OBVIOUS
<1>3. Lengths(p, gen, l, d, n) /\ n \in Nat /\ Len(p) = l /\ Len(gen) = d + n /\ l + n = l BY <1>1, <1>2 DEF Lengths
<1>4. PICK h : h = Hist(p, gen, l + n) OBVIOUS
<1>5. h \in Seq(Tokens) /\ Len(h) = l + n /\ \A i \in 1..l : h[i] = p[i] BY <1>3, <1>4, HistFacts DEF Spliced
<1>6. p \in Seq(Tokens) BY DEF Tokens
<1>7. h = p BY <1>3, <1>5, <1>6, SameSeq
<1> QED BY <1>3, <1>4, <1>7

LEMMA HistGrows ==
  ASSUME NEW p, NEW gen, NEW l, NEW d, NEW n, Lengths(p, gen, l, d, n), NEW token \in Vocab
  PROVE  Hist(p, Append(gen, token), l + n + 1) = Append(Hist(p, gen, l + n), token)
<1>0. p \in Seq(Nat) /\ gen \in Seq(Vocab) /\ l \in Nat /\ d \in Nat /\ n \in Nat /\ Len(p) = l /\ Len(gen) = d + n
  BY DEF Lengths
<1>1. PICK m \in Nat : m = d + n /\ m = Len(gen) BY <1>0
<1>3. PICK more \in Seq(Vocab) : more = Append(gen, token) /\ Len(more) = m + 1 /\ more[m + 1] = token
                                 /\ \A i \in 1..m : more[i] = gen[i]
  <2>1. Append(gen, token) \in Seq(Vocab) BY <1>0, AppendProperties
  <2>2. Len(Append(gen, token)) = m + 1 /\ Append(gen, token)[m + 1] = token
        /\ \A i \in 1..m : Append(gen, token)[i] = gen[i]
    BY <1>0, <1>1, AppendProperties
  <2> QED BY <2>1, <2>2
<1>4. PICK h : h = Hist(p, gen, l + n) OBVIOUS
<1>5. /\ h \in Seq(Tokens) /\ Len(h) = l + n
      /\ \A i \in 1..l : h[i] = p[i]
      /\ \A i \in 1..n : h[l + i] = gen[d + i]
  BY <1>4, HistFacts DEF Spliced
<1>6. PICK k \in Nat : k = n + 1 BY <1>0
<1>7. PICK g : g = Hist(p, more, l + k) OBVIOUS
<1>71. /\ g \in Seq(Tokens) /\ Len(g) = l + k
       /\ \A i \in 1..l : g[i] = p[i]
       /\ \A i \in 1..k : g[l + i] = more[d + i]
  <2>1. Lengths(p, more, l, d, k) BY <1>0, <1>1, <1>3, <1>6 DEF Lengths
  <2> QED BY <1>7, <2>1, HistFacts DEF Spliced
<1>8. PICK a : a = Append(h, token) OBVIOUS
<1>9. a \in Seq(Tokens) /\ Len(a) = l + n + 1 /\ a[l + n + 1] = token /\ \A i \in 1..l + n : a[i] = h[i]
  <2>1. token \in Tokens BY DEF Tokens
  <2> QED BY <1>5, <1>8, <2>1, AppendProperties
<1>10. ASSUME NEW i \in 1..l + n + 1 PROVE g[i] = a[i]
  <2>2. CASE i \in 1..l
    <3>1. i \in 1..l + n BY <1>0, <2>2
    <3> QED BY <1>5, <1>71, <1>9, <2>2, <3>1
  <2>3. CASE i \in l + 1..l + n
    <3>1. PICK j \in 1..n : i = l + j
      <4>1. i - l \in 1..n /\ i = l + (i - l) BY <1>0, <2>3
      <4> QED BY <4>1
    <3>2. i \in 1..l + n /\ j \in 1..k /\ d + j \in 1..m BY <1>0, <1>1, <1>6, <3>1
    <3>3. g[i] = more[d + j] BY <1>0, <1>71, <3>1, <3>2
    <3>4. a[i] = gen[d + j] BY <1>0, <1>5, <1>9, <3>1, <3>2
    <3> QED BY <1>3, <3>2, <3>3, <3>4
  <2>4. CASE i = l + n + 1
    <3>1. k \in 1..k /\ i = l + k /\ d + k = m + 1 BY <1>0, <1>1, <1>6, <2>4
    <3>2. g[i] = more[m + 1] BY <1>0, <1>71, <3>1
    <3> QED BY <1>3, <1>9, <2>4, <3>2
  <2>5. i \in 1..l \/ i \in l + 1..l + n \/ i = l + n + 1 BY <1>0
  <2> QED BY <2>2, <2>3, <2>4, <2>5
<1>11. g = a
  <2>1. Len(g) = Len(a) /\ Len(g) = l + n + 1 BY <1>0, <1>6, <1>71, <1>9
  <2> QED BY <1>71, <1>9, <1>10, <2>1, SameSeq
<1>12. l + n + 1 = l + k BY <1>0, <1>6
<1> QED BY <1>3, <1>4, <1>7, <1>8, <1>11, <1>12

\* What a decoding request has in its record: its prompt, its output cap, and
\* the last token of its history, which goes into the next batch.
Grounded(p, max, m, r) ==
  /\ p # <<>> /\ Len(p) <= r.cached /\ r.cached <= Len(p) + max
  /\ r.cached - Len(p) <= Len(m.gen) /\ m.cur = Last(Hist(p, m.gen, r.cached))

\* A prompt and a cap that fit the window; the history h of a request, and the
\* part s of it whose KV it has while the last token is still to be computed.
Fits(p, max) == p \in Seq(Nat) /\ max \in Nat /\ Len(p) + max <= MaxLen

Continues(p, m, k, h, s) ==
  /\ h \in Seq(Tokens) /\ Len(h) = k /\ k <= MaxLen /\ k # 0 /\ Begins(p, h)
  /\ KvSeq(p, m.gen, k, TRUE) = h
  /\ s \in Seq(Tokens) /\ Len(s) = k - 1 /\ Begins(s, h) /\ m.cur \in Tokens /\ Append(s, m.cur) = h
  /\ \A token \in Vocab : /\ Hist(p, Append(m.gen, token), k + 1) = Append(h, token)
                          /\ KvSeq(p, Append(m.gen, token), k + 1, FALSE) = h

LEMMA GroundedFacts ==
  ASSUME NEW p, NEW max, Fits(p, max), NEW m, m.gen \in Seq(Vocab), NEW r, NEW k \in Nat, k = r.cached,
         Grounded(p, max, m, r), NEW h, h = Hist(p, m.gen, k), NEW s, s = KvSeq(p, m.gen, k, FALSE)
  PROVE  Continues(p, m, k, h, s)
<1>0. p \in Seq(Nat) /\ max \in Nat /\ Len(p) + max <= MaxLen BY DEF Fits
<1>01. p \in Seq(Tokens)
  <2>1. p \in Seq(Nat) BY <1>0
  <2> QED BY <2>1 DEF Tokens
<1>1. PICK l \in Nat, t \in Nat : l = Len(p) /\ t = Len(m.gen) BY <1>0
<1>2. p # <<>> /\ l <= k /\ k <= l + max /\ k - l <= t /\ m.cur = Last(h) BY <1>1 DEF Grounded
<1>3. PICK n \in Nat : k = l + n
  <2>1. k - l \in Nat /\ k = l + (k - l) BY <1>2
  <2> QED BY <2>1
<1>4. PICK d \in Nat : t = d + n
  <2>1. t - n \in Nat /\ t = (t - n) + n BY <1>2, <1>3
  <2> QED BY <2>1
<1>5. Lengths(p, m.gen, l, d, n) BY <1>0, <1>1, <1>4 DEF Lengths
<1>6. Spliced(h, p, m.gen, l, d, n)
  <2>1. h = Hist(p, m.gen, l + n) BY <1>3
  <2> QED BY <1>5, <2>1, HistFacts
<1>7. h \in Seq(Tokens) /\ Len(h) = k /\ \A i \in 1..l : h[i] = p[i] BY <1>3, <1>6 DEF Spliced
<1>71. PICK w \in Seq(Tokens) : w = h /\ Len(w) = k BY <1>7
<1>8. l # 0 /\ k # 0 /\ k <= MaxLen
  <2>1. l # 0 BY <1>1, <1>2
  <2>2. MaxLen \in Nat BY ConfigAssumption
  <2> QED BY <1>0, <1>1, <1>2, <2>1, <2>2
<1>9. Begins(p, h)
  <2>1. ASSUME NEW i \in 1..l PROVE SubSeq(p, 1, i) = SubSeq(h, 1, i)
    <3>1. i \in 0..Len(p) /\ i \in 0..Len(w) BY <1>1, <1>2, <1>71
    <3>2. p \in Seq(Tokens) BY <1>01
    <3>3. PICK a \in Seq(Tokens) : a = SubSeq(p, 1, i) /\ Len(a) = i /\ \A j \in 1..i : a[j] = p[j] BY <3>1, <3>2, CutFacts
    <3>4. PICK b \in Seq(Tokens) : b = SubSeq(w, 1, i) /\ Len(b) = i /\ \A j \in 1..i : b[j] = w[j] BY <3>1, CutFacts
    <3>5. \A j \in 1..i : j \in 1..l OBVIOUS
    <3>6. a = b BY <1>7, <1>71, <3>3, <3>4, <3>5, SameSeq
    <3> QED BY <1>71, <3>3, <3>4, <3>6
  <2>2. p \in Seq(Tokens) BY <1>01
  <2> QED BY <1>1, <1>2, <1>7, <2>1, <2>2 DEF Begins
<1>10. KvSeq(p, m.gen, k, TRUE) = h
  <2>1. KvSeq(p, m.gen, k, TRUE) = SubSeq(h, 1, k) BY DEF KvSeq
  <2> QED BY <1>7, <2>1, SubSeqFull
<1>11. PICK j \in Nat : k = j + 1
  <2>1. k - 1 \in Nat /\ k = (k - 1) + 1 BY <1>8
  <2> QED BY <2>1
<1>111. k - 1 = j /\ j <= k BY <1>11
<1>12. s = SubSeq(w, 1, j) BY <1>71, <1>111 DEF KvSeq
<1>13. j \in 0..Len(w) BY <1>71, <1>11
<1>14. s \in Seq(Tokens) /\ Len(s) = j BY <1>12, <1>13, CutFacts
<1>15. Begins(s, h)
  <2>1. ASSUME NEW i \in 1..j PROVE SubSeq(s, 1, i) = SubSeq(w, 1, i)
    <3>1. i \in 0..j OBVIOUS
    <3> QED BY <1>12, <1>13, <3>1, CutCut
  <2>2. Len(s) <= Len(w) BY <1>71, <1>111, <1>14, Zenon
  <2> QED BY <1>71, <1>14, <2>1, <2>2 DEF Begins
<1>16. m.cur = h[j + 1] /\ h[j + 1] \in Tokens BY <1>2, <1>7, <1>11 DEF Last
<1>17. Append(s, h[j + 1]) = h
  <2>1. j \in 0..Len(w) - 1 BY <1>71, <1>11
  <2>2. SubSeq(w, 1, j + 1) = Append(SubSeq(w, 1, j), w[j + 1]) BY <2>1, NextCut
  <2>3. SubSeq(w, 1, j + 1) = w BY <1>71, <1>11, SubSeqFull
  <2> QED BY <1>71, <1>12, <2>2, <2>3
<1>18. Len(s) = k - 1 BY <1>111, <1>14, Zenon
<1>19. ASSUME NEW token \in Vocab
       PROVE  /\ Hist(p, Append(m.gen, token), k + 1) = Append(h, token)
              /\ KvSeq(p, Append(m.gen, token), k + 1, FALSE) = h
  <2>1. Hist(p, Append(m.gen, token), k + 1) = Append(h, token) BY <1>3, <1>5, HistGrows
  <2>2. token \in Tokens BY DEF Tokens
  <2>3. PICK more : more = Append(h, token) OBVIOUS
  <2>4. more \in Seq(Tokens) /\ \A i \in 1..k : SubSeq(more, 1, i) = SubSeq(h, 1, i) BY <1>7, <2>2, <2>3, MoreCuts
  <2>5. SubSeq(more, 1, k) = h
    <3>1. k \in 1..k BY <1>8
    <3>2. SubSeq(more, 1, k) = SubSeq(h, 1, k) BY <2>4, <3>1
    <3> QED BY <1>7, <3>2, SubSeqFull
  <2>6. KvSeq(p, Append(m.gen, token), k + 1, FALSE) = SubSeq(more, 1, (k + 1) - 1) BY <2>1, <2>3 DEF KvSeq
  <2>7. (k + 1) - 1 = k OBVIOUS
  <2> QED BY <2>1, <2>5, <2>6, <2>7
<1> QED BY <1>7, <1>8, <1>9, <1>10, <1>14, <1>15, <1>16, <1>17, <1>18, <1>19 DEF Continues

-----------------------------------------------------------------------------
(* The KV, step by step *)

\* A chunk that is not its prompt's first is prefilled without what is before
\* it, so the KV is right only as long as each prompt is prefilled in one go.
WholePrefills == pc = "prefill" /\ plan # <<>> /\ Runnable => Job.start = 0

Fixed(p, max, r) == r.st \in {"Chunked", "Decode"} => r.prompt = Len(p) /\ r.maxOut = max

Kvs == [c \in decoding |-> KvSeq(Prompt[c], meta[c].gen, reqs[c].cached, c \in batch)]

\* The singleton decodes alone.
Alone(p, D, single) == p = "confirm" => single = NoSingle \/ D \subseteq {single.id}

RequestsOK == /\ \A c \in decoding : Grounded(Prompt[c], MaxTokens[c], meta[c], reqs[c])
              /\ \A c \in Live : Fixed(Prompt[c], MaxTokens[c], reqs[c])

KvOK == RequestsOK /\ KvOf(exec, segs, cache.entry, Kvs) /\ Alone(pc, decoding, exec.single)

LEMMA KvOKIs ==
  /\ KvOK <=> RequestsOK /\ KvOf(exec, segs, cache.entry, Kvs) /\ Alone(pc, decoding, exec.single)
  /\ KvOK' <=> RequestsOK' /\ KvOf(exec', segs', cache'.entry, Kvs') /\ Alone(pc', decoding', exec'.single)
BY DEF KvOK

LEMMA RequestsOKIs ==
  RequestsOK' <=> /\ \A c \in decoding' : Grounded(Prompt[c], MaxTokens[c], meta'[c], reqs'[c])
                  /\ \A c \in DOMAIN meta' : Fixed(Prompt[c], MaxTokens[c], reqs'[c])
BY DEF RequestsOK, Live

LEMMA KvsAre ==
  /\ DOMAIN Kvs = decoding /\ DOMAIN Kvs' = decoding'
  /\ \A c \in decoding : Kvs[c] = KvSeq(Prompt[c], meta[c].gen, reqs[c].cached, c \in batch)
  /\ \A c \in decoding' : Kvs'[c] = KvSeq(Prompt[c], meta'[c].gen, reqs'[c].cached, c \in batch')
BY DEF Kvs

LEMMA KeptKeys == ASSUME NEW r, Kept(r, Nat) PROVE \A k \in DOMAIN r.entry : k \in Seq(Nat) /\ Len(k) = PagesOf(k) * Block
<1>1. Tree(r, Nat) /\ Paged(r) BY DEF Kept, Sound
<1> QED BY <1>1 DEF Tree, Paged, Keys

LEMMA NowTables == ASSUME PagesOK PROVE Tables(segs, cache.entry)
<1>1. PICK x, held, r, e : x = exec /\ held = segs /\ r = cache /\ e = r.entry OBVIOUS
<1>2. Holding(x, held, e) /\ Kept(r, Nat) BY <1>1, PagesOKIs
<1>3. Tables(held, e) BY <1>1, <1>2, KeptKeys, TablesHold
<1> QED BY <1>1, <1>3

\* The same memory, and the same singleton.
LEMMA KvSame ==
  ASSUME NEW x, NEW held, NEW e, NEW kv, Tables(held, e), KvOf(x, held, e, kv),
         NEW y, IsExec(y), y.store = x.store, y.engine = x.engine, y.single = x.single
  PROVE  KvOf(y, held, e, kv)
<1>1. ASSUME NEW c \in DOMAIN kv PROVE c \in DOMAIN held /\ Begins(kv[c], kv[c])
  <2>1. c \in DOMAIN held /\ kv[c] \in Seq(Tokens) BY DEF KvOf
  <2>2. Len(kv[c]) \in Nat BY <2>1
  <2> QED BY <2>1, <2>2 DEF Begins
<1>2. Fewer(x, held, kv, y, held, kv) BY <1>1 DEF Fewer
<1> QED BY <1>2, KvLess

LEMMA DecodingFacts ==
  ASSUME Inv
  PROVE  /\ \A c \in decoding : /\ c \in Live /\ c \in Accepted /\ c \in Client /\ c \in DOMAIN segs
                                /\ reqs[c] \in Request /\ reqs[c].st = "Decode" /\ reqs[c].cached \in Nat
                                /\ meta[c].gen \in Seq(Vocab)
         /\ Live \subseteq Client /\ Live \subseteq Accepted /\ batch \subseteq decoding
         /\ \A c \in Client : Fits(Prompt[c], MaxTokens[c])
<1>1. Live \subseteq Accepted /\ Accepted \subseteq Client /\ \A c \in Accepted : reqs[c] \in Request BY Views DEF Inv, Shape
<1>2. decoding = Live \ Queued /\ DOMAIN segs = {c \in Live : reqs[c].st \in {"Chunked", "Decode"}} /\ batch \subseteq decoding
  BY DEF Inv, TablesOK
<1>3. ASSUME NEW c \in decoding PROVE c \in Live /\ c \in DOMAIN segs /\ reqs[c].st = "Decode" BY <1>2 DEF Queued
<1>4. \A c \in Live : meta[c].gen \in Seq(Vocab) BY DEF Inv, Shape
<1>5. \A c \in Accepted : reqs[c].cached \in Nat BY <1>1, RequestFields
<1>6. \A c \in Client : Fits(Prompt[c], MaxTokens[c]) BY LoopAssumption DEF Fits
<1> QED BY <1>1, <1>2, <1>3, <1>4, <1>5, <1>6

\* Requests leave, on whatever way out; the others keep their KV.
LEMMA LeavingKv ==
  ASSUME Inv, PagesOK, KvOK, NEW ids, IsFiniteSet(ids), NEW x, KvOf(x, segs, cache.entry, Kvs), NEW h,
         exec' = ReleaseAll(x, ids, h), segs' = Restrict(segs, DOMAIN segs \ ids), cache' = cache,
         decoding' = decoding \ ids, DOMAIN meta' \subseteq Live,
         \A c \in decoding' : meta'[c] = meta[c] /\ reqs'[c] = reqs[c] /\ (c \in batch' <=> c \in batch),
         \A c \in DOMAIN meta' : Fixed(Prompt[c], MaxTokens[c], reqs'[c]),
         Alone(pc', decoding, x.single)
  PROVE  KvOK'
<1>1. PICK held, e, kv, lv, g, y : held = segs /\ e = cache.entry /\ kv = Kvs /\ lv = Kvs' /\ g = segs' /\ y = exec' OBVIOUS
<1>2. Tables(held, e) /\ KvOf(x, held, e, kv) BY <1>1, NowTables
<1>3. IsExec(x) BY <1>2 DEF KvOf
<1>4. y = ReleaseAll(x, ids, h) BY <1>1
<1>5. Kin(x, y, ids) BY <1>3, <1>4, KinRelease
<1>6. DOMAIN kv = decoding /\ DOMAIN lv = decoding \ ids BY <1>1, KvsAre
<1>7. DOMAIN g = DOMAIN held \ ids /\ \A d \in DOMAIN g : d \in DOMAIN held /\ g[d] = held[d] BY <1>1 DEF Restrict
<1>8. ASSUME NEW c \in DOMAIN lv PROVE c \in DOMAIN kv /\ c \in DOMAIN g /\ lv[c] = kv[c] /\ Begins(lv[c], kv[c])
  <2>1. c \in decoding' /\ c \in decoding /\ c \notin ids /\ c \in DOMAIN held BY <1>1, <1>6, DecodingFacts
  <2>2. lv[c] = KvSeq(Prompt[c], meta'[c].gen, reqs'[c].cached, c \in batch') BY <1>1, <2>1, KvsAre
  <2>3. kv[c] = KvSeq(Prompt[c], meta[c].gen, reqs[c].cached, c \in batch) BY <1>1, <2>1, KvsAre
  <2>4. meta'[c] = meta[c] /\ reqs'[c] = reqs[c] /\ (c \in batch') = (c \in batch) BY <2>1
  <2>5. lv[c] = kv[c] BY <2>2, <2>3, <2>4
  <2>6. kv[c] \in Seq(Tokens) BY <1>2, <1>6, <2>1 DEF KvOf
  <2>7. Len(kv[c]) \in Nat BY <2>6
  <2> QED BY <1>6, <1>7, <2>1, <2>5, <2>6, <2>7 DEF Begins
<1>9. Fewer(x, held, kv, y, g, lv)
  <2>1. y.store = x.store /\ y.engine = x.engine BY <1>5 DEF Kin
  <2>2. \/ y.single = x.single /\ (x.single.id \in DOMAIN kv \ DOMAIN lv => x.single.id \notin DOMAIN g)
        \/ y.single = NoSingle /\ x.single.id \notin DOMAIN lv
    BY <1>5, <1>6, <1>7 DEF Kin
  <2> QED BY <1>7, <1>8, <2>1, <2>2 DEF Fewer
<1>10. IsExec(y) BY <1>5 DEF Kin
<1>11. KvOf(y, g, e, lv) BY <1>2, <1>9, <1>10, KvLess
<1>12. KvOf(exec', segs', cache'.entry, Kvs') BY <1>1, <1>11
<1>13. RequestsOK'
  <2>1. \A c \in decoding' : Grounded(Prompt[c], MaxTokens[c], meta'[c], reqs'[c]) BY DEF KvOK, RequestsOK
  <2> QED BY <2>1, RequestsOKIs
<1>14. Alone(pc', decoding', exec'.single) BY <1>1, <1>5 DEF Kin, Alone
<1> QED BY <1>12, <1>13, <1>14, KvOKIs

\* A step that leaves the requests that decode, their KV and the cache alone.
LEMMA StillKv ==
  ASSUME KvOK, UNCHANGED <<exec, segs, cache, decoding, batch>>, pc' # "confirm" \/ pc' = pc,
         \A c \in decoding : meta'[c] = meta[c] /\ reqs'[c] = reqs[c],
         \A c \in DOMAIN meta' : Fixed(Prompt[c], MaxTokens[c], reqs'[c])
  PROVE  KvOK'
<1>1. Kvs' = Kvs
  <2>1. \A c \in decoding : KvSeq(Prompt[c], meta'[c].gen, reqs'[c].cached, c \in batch')
                            = KvSeq(Prompt[c], meta[c].gen, reqs[c].cached, c \in batch)
    OBVIOUS
  <2> QED BY <2>1, Zenon DEF Kvs
<1>2. KvOf(exec', segs', cache'.entry, Kvs') BY <1>1, KvOKIs
<1>3. RequestsOK' BY KvOKIs, RequestsOKIs DEF RequestsOK
<1>4. Alone(pc', decoding', exec'.single) BY KvOKIs DEF Alone
<1> QED BY <1>2, <1>3, <1>4, KvOKIs

LEMMA FixedAt ==
  ASSUME NEW p, NEW m, NEW r \in Request, NEW n \in Nat
  PROVE  /\ r.st \in {"Waiting", "Preempted"} => Fixed(p, m, r)
         /\ Fixed(p, m, NewReq) /\ Fixed(p, m, Preempt(r))
         /\ Fixed(p, m, r) => Fixed(p, m, DispatchChunk(r, n))
<1>1. r.st \in {"Waiting", "Preempted"} => Fixed(p, m, r) BY DEF Fixed
<1>2. Fixed(p, m, NewReq) BY DEF Fixed, NewReq
<1>3. Fixed(p, m, Preempt(r))
  <2>1. Preempt(r).st = "Preempted" BY PreemptFields
  <2> QED BY <2>1 DEF Fixed
<1>4. Fixed(p, m, r) => Fixed(p, m, DispatchChunk(r, n)) BY DEF Fixed, DispatchChunk, Request
<1> QED BY <1>1, <1>2, <1>3, <1>4

\* A confirmed chunk: the request decodes once its prompt is there.
LEMMA FixedConfirm ==
  ASSUME NEW p \in Seq(Nat), NEW m \in Nat, NEW r \in Request, r.prompt = Len(p), r.maxOut = m
  PROVE  Fixed(p, m, Confirm(r)) /\ Confirm(r).prompt = Len(p) /\ Confirm(r).maxOut = m
BY DEF Fixed, Confirm, Request

LEMMA FixedToken ==
  ASSUME NEW p, NEW m, NEW r \in Request, Fixed(p, m, r)
  PROVE  Fixed(p, m, DecodeStep(r, "token")) \/ DecodeEvent(r, "token") # "confirmed"
<1>1. CASE DecodeEvent(r, "token") = "confirmed"
  <2>1. PICK s : s = DecodeStep(r, "token") OBVIOUS
  <2>2. s = [[r EXCEPT !.device = r.cached + 1] EXCEPT !.cached = [r EXCEPT !.device = r.cached + 1].device]
    BY <1>1, <2>1, Zenon DEF DecodeStep
  <2>3. s.st = r.st /\ s.prompt = r.prompt /\ s.maxOut = r.maxOut BY <2>2 DEF Request
  <2> QED BY <2>1, <2>3 DEF Fixed
<1> QED BY <1>1

LEMMA NowFixed == ASSUME KvOK, NEW c \in Live PROVE Fixed(Prompt[c], MaxTokens[c], reqs[c]) BY DEF KvOK, RequestsOK

\* The steps that leave the executor alone.
LEMMA ClientKv == ASSUME KvOK, ClientNext PROVE KvOK'
<1>1. UNCHANGED <<exec, segs, cache, decoding, batch, pc, meta, reqs>>
  BY DEF ClientNext, SendSubmit, SendAbort, Disconnect, DropHandle, LoopIdle, books
<1>2. \A c \in DOMAIN meta' : Fixed(Prompt[c], MaxTokens[c], reqs'[c]) BY <1>1, NowFixed DEF Live
<1> QED BY <1>1, <1>2, StillKv

LEMMA PutOffKv == ASSUME KvOK, PrefillPutOff PROVE KvOK'
<1>1. UNCHANGED <<exec, segs, cache, decoding, batch, pc, meta, reqs>> BY DEF PrefillPutOff, PrefillStep
<1>2. \A c \in DOMAIN meta' : Fixed(Prompt[c], MaxTokens[c], reqs'[c]) BY <1>1, NowFixed DEF Live
<1> QED BY <1>1, <1>2, StillKv

LEMMA StutterKv == ASSUME KvOK, UNCHANGED vars PROVE KvOK'
<1>1. UNCHANGED <<exec, segs, cache, decoding, batch, pc, meta, reqs>> BY DEF vars, books
<1>2. \A c \in DOMAIN meta' : Fixed(Prompt[c], MaxTokens[c], reqs'[c]) BY <1>1, NowFixed DEF Live
<1> QED BY <1>1, <1>2, StillKv

LEMMA SubmitKv ==
  ASSUME Inv, KvOK, NEW c, c \notin Accepted, Submit(c), UNCHANGED <<exec, cache, batch, pc>>
  PROVE  KvOK'
<1>1. CASE UNCHANGED books
  <2>1. UNCHANGED <<segs, decoding, meta, reqs>> BY <1>1 DEF books
  <2>2. \A d \in DOMAIN meta' : Fixed(Prompt[d], MaxTokens[d], reqs'[d]) BY <2>1, NowFixed DEF Live
  <2> QED BY <2>1, <2>2, StillKv
<1>2. CASE ~UNCHANGED books
  <2>1. UNCHANGED <<segs, decoding>> /\ reqs' = [d \in DOMAIN reqs \union {c} |-> IF d = c THEN NewReq ELSE reqs[d]]
        /\ \/ meta' = meta
           \/ meta' = [d \in DOMAIN meta \union {c} |-> IF d = c THEN [gen |-> <<>>, cur |-> 0] ELSE meta[d]]
    BY <1>2 DEF Submit
  <2>2. \A d \in decoding : d \in Live /\ d \in Accepted BY DecodingFacts
  <2>3. Live \subseteq Accepted BY DecodingFacts
  <2>4. \A d \in decoding : meta'[d] = meta[d] /\ reqs'[d] = reqs[d] BY <2>1, <2>2 DEF Live, Accepted
  <2>5. ASSUME NEW d \in DOMAIN meta' PROVE Fixed(Prompt[d], MaxTokens[d], reqs'[d])
    <3>1. CASE d = c
      <4>1. reqs'[d] = NewReq BY <2>1, <3>1
      <4> QED BY <4>1 DEF Fixed, NewReq
    <3>2. CASE d # c
      <4>1. d \in Live BY <2>1, <3>2 DEF Live
      <4>2. reqs'[d] = reqs[d] BY <2>1, <2>3, <3>2, <4>1 DEF Accepted
      <4> QED BY <4>1, <4>2, NowFixed
    <3> QED BY <3>1, <3>2
  <2> QED BY <2>1, <2>4, <2>5, StillKv
<1> QED BY <1>1, <1>2

\* Requests end with an error.
LEMMA AbortsKv ==
  ASSUME Inv, PagesOK, KvOK, NEW ids, IsFiniteSet(ids), NEW x, KvOf(x, segs, cache.entry, Kvs), NEW h, NEW rs,
         DOMAIN rs = Accepted, \A c \in Accepted \ ids : rs[c] = reqs[c], AbortReqs(ids, rs),
         exec' = ReleaseAll(x, ids, h), cache' = cache, \A c \in decoding \ ids : c \in batch' <=> c \in batch,
         Alone(pc', decoding, x.single)
  PROVE  KvOK'
<1>1. /\ segs' = Restrict(segs, DOMAIN segs \ ids) /\ decoding' = decoding \ ids
      /\ DOMAIN meta' = Live \ ids /\ \A c \in Live \ ids : meta'[c] = meta[c]
  BY DEF AbortReqs, Forget, Restrict, Live
<1>2. Live \subseteq Accepted /\ \A c \in decoding : c \in Live BY DecodingFacts
<1>3. \A c \in Live \ ids : reqs'[c] = reqs[c] BY <1>2 DEF AbortReqs
<1>4. \A c \in DOMAIN meta' : Fixed(Prompt[c], MaxTokens[c], reqs'[c]) BY <1>1, <1>3, NowFixed
<1>5. \A c \in decoding' : meta'[c] = meta[c] /\ reqs'[c] = reqs[c] /\ (c \in batch' <=> c \in batch)
  BY <1>1, <1>2, <1>3
<1>6. DOMAIN meta' \subseteq Live BY <1>1
<1> QED BY <1>1, <1>4, <1>5, <1>6, LeavingKv

LEMMA AbortKv == ASSUME Inv, PagesOK, KvOK, NEW c, AbortCmd(c), pc' # "confirm", UNCHANGED <<cache, batch>> PROVE KvOK'
<1>1. PICK ids : ids = {c} OBVIOUS
<1>2. CASE c \in Live
  <2>1. AbortReqs(ids, reqs) /\ exec' = ReleaseAll(exec, ids, segs) BY <1>1, <1>2 DEF AbortCmd, Live
  <2>2. IsFiniteSet(ids) BY <1>1, FS_Singleton
  <2>3. KvOf(exec, segs, cache.entry, Kvs) BY KvOKIs
  <2>4. Alone(pc', decoding, exec.single) BY DEF Alone
  <2>5. DOMAIN reqs = Accepted BY DEF Accepted
  <2> QED BY <2>1, <2>2, <2>3, <2>4, <2>5, AbortsKv
<1>3. CASE c \notin Live
  <2>1. UNCHANGED <<exec, segs, decoding, meta, reqs>> BY <1>3 DEF AbortCmd, Live, books
  <2>2. \A d \in DOMAIN meta' : Fixed(Prompt[d], MaxTokens[d], reqs'[d]) BY <2>1, NowFixed DEF Live
  <2> QED BY <2>1, <2>2, StillKv
<1> QED BY <1>2, <1>3

LEMMA HandleCmdKv == ASSUME Inv, PagesOK, KvOK, HandleCmd PROVE KvOK'
<1>1. pc = "cmds" /\ cmds # <<>> /\ UNCHANGED <<cache, batch>> BY DEF HandleCmd
<1>2. PICK c : c = Head(cmds).id OBVIOUS
<1>3. CASE Head(cmds).op = "submit" /\ Submit(c) /\ UNCHANGED <<exec, pc>>
  <2>1. c \notin Accepted BY <1>1, <1>2, <1>3, SubmitFacts
  <2> QED BY <1>1, <1>3, <2>1, SubmitKv
<1>4. CASE AbortCmd(c) /\ pc' = pc
  <2>1. pc' # "confirm" BY <1>1, <1>4
  <2> QED BY <1>1, <1>4, <2>1, AbortKv
<1>5. CASE pc' = "stopped" /\ UNCHANGED <<books, exec>>
  <2>1. UNCHANGED <<segs, decoding, meta, reqs>> /\ pc' # "confirm" BY <1>5 DEF books
  <2>2. \A d \in DOMAIN meta' : Fixed(Prompt[d], MaxTokens[d], reqs'[d]) BY <2>1, NowFixed DEF Live
  <2> QED BY <1>1, <1>5, <2>1, <2>2, StillKv
<1>6. \/ Head(cmds).op = "submit" /\ Submit(c) /\ UNCHANGED <<exec, pc>>
      \/ AbortCmd(c) /\ pc' = pc
      \/ pc' = "stopped" /\ UNCHANGED <<books, exec>>
  BY <1>2 DEF HandleCmd
<1> QED BY <1>3, <1>4, <1>5, <1>6

LEMMA AdmitKv == ASSUME Inv, PagesOK, KvOK, AdmitSchedule PROVE KvOK'
<1> DEFINE ids == Range(Selection.preempted)
<1>1. /\ exec' = ReleaseAll(exec, ids, segs) /\ segs' = Restrict(segs, DOMAIN segs \ ids) /\ cache' = cache /\ pc' = "prefill"
      /\ decoding' = decoding \ ids /\ meta' = meta /\ batch' = batch
      /\ reqs' = [c \in DOMAIN reqs |-> IF c \in ids THEN Preempt(reqs[c]) ELSE reqs[c]]
  BY DEF AdmitSchedule
<1>2. ids \in SUBSET Live
  <2>1. Selection.preempted \in Seq(decoding) BY SelectionFacts
  <2>2. Range(Selection.preempted) \subseteq decoding BY <2>1 DEF Range
  <2> QED BY <2>2, DecodingFacts
<1> HIDE DEF ids
<1>3. IsFiniteSet(ids) BY <1>2, LeaversFinite
<1>4. Live \subseteq Accepted /\ (\A c \in decoding : c \in Live) /\ \A c \in Accepted : reqs[c] \in Request
  BY DecodingFacts, Views DEF Inv
<1>5. \A c \in decoding' : meta'[c] = meta[c] /\ reqs'[c] = reqs[c] /\ (c \in batch' <=> c \in batch) BY <1>1, <1>4 DEF Accepted
<1>6. ASSUME NEW c \in DOMAIN meta' PROVE Fixed(Prompt[c], MaxTokens[c], reqs'[c])
  <2>1. c \in Live /\ c \in Accepted BY <1>1, <1>4 DEF Live
  <2>2. CASE c \in ids
    <3>1. reqs'[c] = Preempt(reqs[c]) BY <1>1, <2>1, <2>2 DEF Accepted
    <3>2. reqs[c] \in Request /\ 0 \in Nat BY <1>4, <2>1
    <3> QED BY <3>1, <3>2, FixedAt
  <2>3. CASE c \notin ids
    <3>1. reqs'[c] = reqs[c] BY <1>1, <2>1, <2>3 DEF Accepted
    <3> QED BY <2>1, <3>1, NowFixed
  <2> QED BY <2>2, <2>3
<1>7. DOMAIN meta' \subseteq Live BY <1>1 DEF Live
<1>8. KvOf(exec, segs, cache.entry, Kvs) BY KvOKIs
<1>9. Alone(pc', decoding, exec.single) BY <1>1 DEF Alone
<1> QED BY <1>1, <1>3, <1>5, <1>6, <1>7, <1>8, <1>9, LeavingKv

LEMMA BatchFailKv == ASSUME Inv, PagesOK, KvOK, DecodeBatchFails PROVE KvOK'
<1>1. PICK x : x = IF Cardinality(decoding) > 1 THEN FlushSingleton(exec) ELSE exec OBVIOUS
<1>2. PICK ids : ids = decoding OBVIOUS
<1>3. exec' = ReleaseAll(x, ids, segs) /\ AbortReqs(ids, reqs) /\ cache' = cache /\ pc' = "cmds" /\ batch' = batch
  BY <1>1, <1>2 DEF DecodeBatchFails
<1>4. IsFiniteSet(ids)
  <2>1. ids \in SUBSET Live BY <1>2, DecodingFacts
  <2> QED BY <2>1, LeaversFinite
<1>5. PICK w, held, e, kv : w = exec /\ held = segs /\ e = cache.entry /\ kv = Kvs OBVIOUS
<1>6. Tables(held, e) /\ KvOf(w, held, e, kv) BY <1>5, NowTables, KvOKIs
<1>7. KvOf(x, held, e, kv)
  <2>1. PICK y : y = FlushSingleton(w) OBVIOUS
  <2>2. KvOf(y, held, e, kv) BY <1>6, <2>1, FlushKv
  <2>3. x = y \/ x = w BY <1>1, <1>5, <2>1
  <2> QED BY <1>6, <2>2, <2>3
<1>8. KvOf(x, segs, cache.entry, Kvs) BY <1>5, <1>7
<1>9. Alone(pc', decoding, x.single) BY <1>3 DEF Alone
<1>10. DOMAIN reqs = Accepted BY DEF Accepted
<1> QED BY <1>3, <1>4, <1>8, <1>9, <1>10, AbortsKv

\* A request of the batch ends with an error, or with its client gone.
LEMMA OneEndsKv ==
  ASSUME Inv, PagesOK, KvOK, NEW c, NEW rs, DOMAIN rs = Accepted, \A d \in Accepted \ {c} : rs[d] = reqs[d],
         ConfirmOf(c), AbortReqs({c}, rs), exec' = ReleaseAll(exec, {c}, segs), cache' = cache
  PROVE  KvOK'
<1>1. pc = "confirm" /\ batch' = batch \ {c} BY DEF ConfirmOf
<1>2. PICK ids : ids = {c} OBVIOUS
<1>3. IsFiniteSet(ids) BY <1>2, FS_Singleton
<1>4. KvOf(exec, segs, cache.entry, Kvs) /\ Alone(pc, decoding, exec.single) BY KvOKIs
<1>5. Alone(pc', decoding, exec.single) BY <1>1, <1>4 DEF Alone
<1>6. \A d \in decoding \ ids : d \in batch' <=> d \in batch BY <1>1, <1>2
<1>7. exec' = ReleaseAll(exec, ids, segs) /\ AbortReqs(ids, rs) /\ \A d \in Accepted \ ids : rs[d] = reqs[d] BY <1>2
<1> QED BY <1>3, <1>4, <1>5, <1>6, <1>7, AbortsKv

LEMMA SampleFailKv == ASSUME Inv, PagesOK, KvOK, NEW c, SampleFails(c) PROVE KvOK'
<1>1. ConfirmOf(c) /\ AbortReqs({c}, reqs) /\ exec' = ReleaseAll(exec, {c}, segs) /\ cache' = cache BY DEF SampleFails
<1>2. DOMAIN reqs = Accepted BY DEF Accepted
<1> QED BY <1>1, <1>2, OneEndsKv

\* A confirmed token joins the history, its KV comes with the next batch.
SameKv(p, m, r, n, s) == KvSeq(p, n.gen, s.cached, FALSE) = KvSeq(p, m.gen, r.cached, TRUE)

LEMMA GroundedToken ==
  ASSUME NEW p, NEW max, Fits(p, max), NEW m, m.gen \in Seq(Vocab), NEW r \in Request,
         Grounded(p, max, m, r), Fixed(p, max, r), r.st = "Decode", DecodeEvent(r, "token") = "confirmed",
         NEW token \in Vocab, NEW n, n = [gen |-> Append(m.gen, token), cur |-> token], NEW s, s = DecodeStep(r, "token")
  PROVE  Grounded(p, max, n, s) /\ SameKv(p, m, r, n, s)
<1>0. p \in Seq(Nat) /\ max \in Nat BY DEF Fits
<1>1. PICK k \in Nat : k = r.cached BY RequestFields
<1>2. s.cached = k + 1 BY <1>1, TokenFields
<1>3. n.gen = Append(m.gen, token) /\ n.cur = token OBVIOUS
<1>4. PICK h : h = Hist(p, m.gen, k) OBVIOUS
<1>5. PICK w : w = KvSeq(p, m.gen, k, FALSE) OBVIOUS
<1>6. /\ h \in Seq(Tokens) /\ KvSeq(p, m.gen, k, TRUE) = h
      /\ Hist(p, Append(m.gen, token), k + 1) = Append(h, token)
      /\ KvSeq(p, Append(m.gen, token), k + 1, FALSE) = h
  <2>1. r.cached = k BY <1>1
  <2>2. Continues(p, m, k, h, w) BY <1>4, <1>5, <2>1, GroundedFacts
  <2> QED BY <2>2 DEF Continues
<1>7. PICK l \in Nat, t \in Nat : l = Len(p) /\ t = Len(m.gen) BY <1>0
<1>8. p # <<>> /\ l <= k /\ k - l <= t BY <1>1, <1>7 DEF Grounded
<1>9. k + 1 <= l + max
  <2>1. r.prompt = l /\ r.maxOut = max BY <1>7 DEF Fixed
  <2>2. ~(k + 1 > l + max) BY <1>1, <2>1 DEF DecodeEvent
  <2> QED BY <1>0, <1>1, <1>7, <2>2
<1>10. Len(n.gen) = t + 1
  <2>1. token \in Vocab /\ m.gen \in Seq(Vocab) OBVIOUS
  <2> QED BY <1>3, <1>7, <2>1, AppendProperties
<1>11. n.cur = Last(Hist(p, n.gen, s.cached))
  <2>1. token \in Tokens BY DEF Tokens
  <2>2. PICK a : a = Append(h, token) OBVIOUS
  <2>3. Len(a) = Len(h) + 1 /\ a[Len(h) + 1] = token BY <1>6, <2>1, <2>2, AppendProperties
  <2>4. Last(a) = token BY <2>3 DEF Last
  <2> QED BY <1>2, <1>3, <1>6, <2>2, <2>4
<1>12. PICK j \in Nat : j = k + 1 BY <1>1
<1>13. l <= j /\ j <= l + max /\ j - l <= t + 1 BY <1>8, <1>9, <1>12
<1>14. Grounded(p, max, n, s)
  <2>1. s.cached = j BY <1>2, <1>12
  <2> QED BY <1>7, <1>8, <1>10, <1>11, <1>13, <2>1 DEF Grounded
<1>15. KvSeq(p, n.gen, s.cached, FALSE) = h BY <1>2, <1>3, <1>6
<1> QED BY <1>1, <1>6, <1>14, <1>15 DEF SameKv

LEMMA TokenKv == ASSUME Inv, PagesOK, KvOK, NEW c, NEW token \in Vocab, TokenConfirmed(c, token) PROVE KvOK'
<1>1. PICK rs : rs = [reqs EXCEPT ![c] = DecodeStep(reqs[c], "token")] OBVIOUS
<1>2. ConfirmOf(c) /\ StepOver /\ DecodeEvent(reqs[c], "token") = "confirmed" /\ cache' = cache BY DEF TokenConfirmed
<1>3. c \in batch /\ c \in decoding /\ batch' = batch \ {c} /\ pc = "confirm" BY <1>2, DecodingFacts DEF ConfirmOf
<1>4. DOMAIN rs = Accepted /\ \A d \in Accepted \ {c} : rs[d] = reqs[d] BY <1>1 DEF Accepted
<1>5. CASE c \in gone
  <2>1. AbortReqs({c}, rs) /\ exec' = ReleaseAll(exec, {c}, segs) BY <1>1, <1>5 DEF TokenConfirmed
  <2> QED BY <1>2, <1>4, <2>1, OneEndsKv
<1>6. CASE c \notin gone
  <2>1. reqs' = rs /\ UNCHANGED <<decoding, segs, exec>>
        /\ meta' = [meta EXCEPT ![c] = [gen |-> Append(meta[c].gen, token), cur |-> token]]
    BY <1>1, <1>6 DEF TokenConfirmed
  <2>2. /\ c \in Live /\ c \in Accepted /\ c \in Client /\ reqs[c] \in Request /\ reqs[c].st = "Decode" /\ meta[c].gen \in Seq(Vocab)
        /\ Fits(Prompt[c], MaxTokens[c])
        /\ Live \subseteq Accepted /\ \A d \in decoding : d \in Live
    BY <1>3, DecodingFacts
  <2>3. PICK p, max, m, r, n, s : p = Prompt[c] /\ max = MaxTokens[c] /\ m = meta[c] /\ r = reqs[c]
                                  /\ n = [gen |-> Append(m.gen, token), cur |-> token] /\ s = DecodeStep(r, "token")
    OBVIOUS
  <2>4. reqs'[c] = s /\ meta'[c] = n BY <1>1, <2>1, <2>2, <2>3 DEF Accepted, Live
  <2>5. DOMAIN meta' = Live /\ \A d \in Live : d # c => meta'[d] = meta[d] /\ reqs'[d] = reqs[d]
    BY <1>4, <2>1, <2>2 DEF Live
  <2>6. Fixed(p, max, r) BY <2>2, <2>3, NowFixed
  <2>7. Grounded(p, max, m, r) BY <1>3, <2>3, KvOKIs DEF RequestsOK
  <2>8. Grounded(p, max, n, s) /\ SameKv(p, m, r, n, s)
    <3>1. Fits(p, max) /\ m.gen \in Seq(Vocab) /\ r \in Request /\ r.st = "Decode" /\ DecodeEvent(r, "token") = "confirmed"
      BY <1>2, <2>2, <2>3
    <3> QED BY <2>3, <2>6, <2>7, <3>1, GroundedToken
  <2>9. ASSUME NEW d \in decoding
        PROVE  KvSeq(Prompt[d], meta'[d].gen, reqs'[d].cached, d \in batch') = KvSeq(Prompt[d], meta[d].gen, reqs[d].cached, d \in batch)
    <3>1. CASE d = c
      <4>1. (d \in batch') = FALSE /\ (d \in batch) = TRUE BY <1>3, <3>1
      <4> QED BY <2>3, <2>4, <2>8, <3>1, <4>1 DEF SameKv
    <3>2. CASE d # c
      <4>1. (d \in batch') = (d \in batch) BY <1>3, <3>2
      <4> QED BY <2>2, <2>5, <3>2, <4>1
    <3> QED BY <3>1, <3>2
  <2>10. Kvs' = Kvs BY <2>1, <2>9, Zenon DEF Kvs
  <2>11. KvOf(exec', segs', cache'.entry, Kvs') BY <1>2, <2>1, <2>10, KvOKIs
  <2>12. Alone(pc', decoding', exec'.single) BY <1>3, <2>1, KvOKIs DEF Alone
  <2>13. \A d \in decoding' : Grounded(Prompt[d], MaxTokens[d], meta'[d], reqs'[d])
    <3>1. \A d \in decoding : d # c => Grounded(Prompt[d], MaxTokens[d], meta'[d], reqs'[d])
      BY <2>2, <2>5, KvOKIs DEF RequestsOK
    <3> QED BY <2>1, <2>3, <2>4, <2>8, <3>1
  <2>14. \A d \in DOMAIN meta' : Fixed(Prompt[d], MaxTokens[d], reqs'[d])
    <3>1. \A d \in Live : d # c => Fixed(Prompt[d], MaxTokens[d], reqs'[d]) BY <2>5, NowFixed
    <3>2. Fixed(p, max, s) BY <1>2, <2>2, <2>3, <2>6, FixedToken
    <3> QED BY <2>3, <2>4, <2>5, <3>1, <3>2
  <2> QED BY <2>11, <2>12, <2>13, <2>14, KvOKIs, RequestsOKIs
<1> QED BY <1>5, <1>6

-----------------------------------------------------------------------------
(* A batch is decoded *)

\* Each request of the batch computes its next position.
Ready(kv, lv, rs, held) == \A c \in DOMAIN kv : Computes(rs[c], held[c], kv[c], lv[c])

LEMMA ReadyBatch ==
  ASSUME Inv, KvOK, DecodeStart, batch = {}, batch' = decoding, UNCHANGED <<meta, reqs, decoding>>,
         NEW rs, rs = ExecReqs
  PROVE  DOMAIN rs = decoding /\ Ready(Kvs, Kvs', rs, segs)
<1>1. DOMAIN rs = decoding BY DEF ExecReqs
<1>2. ASSUME NEW c \in decoding
      PROVE  Computes(rs[c], segs[c], Kvs[c], Kvs'[c])
  <2>1. PICK p, max, m, r : p = Prompt[c] /\ max = MaxTokens[c] /\ m = meta[c] /\ r = reqs[c] OBVIOUS
  <2>2. Fits(p, max) /\ m.gen \in Seq(Vocab) BY <2>1, DecodingFacts
  <2>3. Grounded(p, max, m, r) BY <2>1, KvOKIs DEF RequestsOK
  <2>4. PICK k \in Nat : k = r.cached BY <2>1, DecodingFacts
  <2>5. PICK h, s : h = Hist(p, m.gen, k) /\ s = KvSeq(p, m.gen, k, FALSE) OBVIOUS
  <2>6. Continues(p, m, k, h, s) BY <2>2, <2>3, <2>4, <2>5, GroundedFacts
  <2>7. Kvs[c] = s
    <3>1. (c \in batch) = FALSE OBVIOUS
    <3>2. Kvs[c] = KvSeq(Prompt[c], meta[c].gen, reqs[c].cached, c \in batch) BY KvsAre
    <3> QED BY <2>1, <2>4, <2>5, <3>1, <3>2
  <2>8. Kvs'[c] = h
    <3>1. (c \in batch') = TRUE OBVIOUS
    <3>2. Kvs'[c] = KvSeq(Prompt[c], meta'[c].gen, reqs'[c].cached, c \in batch') BY KvsAre
    <3>3. Kvs'[c] = KvSeq(p, m.gen, k, TRUE) BY <2>1, <2>4, <3>1, <3>2
    <3> QED BY <2>6, <3>3 DEF Continues
  <2>9. rs[c].token = m.cur /\ rs[c].pos = k - 1 /\ rs[c].kvLen = k /\ rs[c].seg = segs[c] BY <2>1, <2>4 DEF ExecReqs
  <2>10. m.cur \in Tokens /\ Len(s) = k - 1 /\ k <= MaxLen /\ Append(s, m.cur) = h BY <2>6 DEF Continues
  <2>11. (k - 1) + 1 = k BY <2>4
  <2>12. Len(s) + 1 = k BY <2>10, <2>11
  <2> QED BY <2>7, <2>8, <2>9, <2>10, <2>12 DEF Computes
<1>3. DOMAIN Kvs = decoding BY KvsAre
<1> QED BY <1>1, <1>2, <1>3 DEF Ready

LEMMA DecodeKv ==
  ASSUME NEW x, NEW held, NEW e, NEW kv, Tables(held, e), KvOf(x, held, e, kv), NEW rs, DOMAIN rs = DOMAIN kv, IsFiniteSet(DOMAIN kv),
         NEW lv, DOMAIN lv = DOMAIN kv, Ready(kv, lv, rs, held), NEW y, y = DecodeBatch(x, rs)
  PROVE  KvOf(y, held, e, lv) /\ (y.single = NoSingle \/ DOMAIN kv \subseteq {y.single.id})
<1>1. CASE Cardinality(DOMAIN rs) = 1
  <2>1. PICK c : c = CHOOSE d \in DOMAIN rs : TRUE OBVIOUS
  <2>2. DOMAIN kv = {c} BY <1>1, <2>1, OneMember
  <2>3. PICK r : r = rs[c] OBVIOUS
  <2>4. y = DecodeAlone(x, c, r) BY <1>1, <2>1, <2>3 DEF DecodeBatch
  <2>5. Computes(r, held[c], kv[c], lv[c]) BY <2>2, <2>3 DEF Ready
  <2>6. DOMAIN lv = {c} BY <2>2
  <2>7. KvOf(y, held, e, lv) /\ y.single.id = c BY <2>2, <2>4, <2>5, <2>6, DecodeAloneKv
  <2> QED BY <2>2, <2>7
<1>2. CASE Cardinality(DOMAIN rs) # 1
  <2>1. y = DecodeTogether(x, rs) BY <1>2 DEF DecodeBatch
  <2>2. \A c \in DOMAIN kv : rs[c].token \in Tokens /\ rs[c].pos = Len(kv[c]) /\ Len(kv[c]) + 1 <= MaxLen /\ rs[c].seg = held[c]
    BY DEF Ready, Computes
  <2>3. \A c \in DOMAIN kv : lv[c] = Append(kv[c], rs[c].token) BY DEF Ready, Computes
  <2>4. KvOf(y, held, e, lv) /\ y.single = NoSingle BY <2>1, <2>2, <2>3, DecodeTogetherKv
  <2> QED BY <2>4
<1> QED BY <1>1, <1>2

LEMMA DecodeRunsKv == ASSUME Inv, PagesOK, KvOK, DecodeBatchRuns PROVE KvOK'
<1>1. UNCHANGED <<segs, cache, decoding, meta, reqs>> /\ batch' = decoding /\ DecodeStart BY DEF DecodeBatchRuns, books
<1>2. batch = {} BY <1>1 DEF Inv, TablesOK, DecodeStart
<1>3. \A c \in DOMAIN meta' : Fixed(Prompt[c], MaxTokens[c], reqs'[c]) BY <1>1, NowFixed DEF Live
<1>4. CASE decoding = {}
  <2>1. exec' = exec /\ pc' = "cmds" /\ batch' = batch BY <1>1, <1>2, <1>4 DEF DecodeBatchRuns
  <2> QED BY <1>1, <1>3, <2>1, StillKv
<1>5. CASE decoding # {}
  <2>1. PICK x, held, e, kv, lv, rs, y : x = exec /\ held = segs /\ e = cache.entry /\ kv = Kvs /\ lv = Kvs'
                                         /\ rs = ExecReqs /\ y = exec'
    OBVIOUS
  <2>2. Tables(held, e) /\ KvOf(x, held, e, kv) BY <2>1, NowTables, KvOKIs
  <2>3. DOMAIN rs = decoding /\ Ready(kv, lv, rs, held) BY <1>1, <1>2, <2>1, ReadyBatch
  <2>4. DOMAIN kv = decoding /\ DOMAIN lv = decoding BY <1>1, <2>1, KvsAre
  <2>5. y = DecodeBatch(x, rs) BY <1>5, <2>1 DEF DecodeBatchRuns
  <2>6. IsFiniteSet(DOMAIN kv)
    <3>1. decoding \in SUBSET Live BY DecodingFacts
    <3> QED BY <2>4, <3>1, LeaversFinite
  <2>7. KvOf(y, held, e, lv) /\ (y.single = NoSingle \/ DOMAIN kv \subseteq {y.single.id})
    BY <2>2, <2>3, <2>4, <2>5, <2>6, DecodeKv
  <2>8. KvOf(exec', segs', cache'.entry, Kvs') BY <1>1, <2>1, <2>7
  <2>9. Alone(pc', decoding', exec'.single) BY <1>1, <2>1, <2>4, <2>7 DEF Alone
  <2>10. RequestsOK' BY <1>1, <1>3, KvOKIs, RequestsOKIs DEF RequestsOK
  <2> QED BY <2>8, <2>9, <2>10, KvOKIs
<1> QED BY <1>4, <1>5

-----------------------------------------------------------------------------
(* A chunk is prefilled *)

\* The entry that serves a prompt begins like it, for whole pages.
Shares(key, ids, k, n) == /\ n \in 1..PagesOf(key) /\ k \in 0..Len(ids) /\ k = n * Block
                          /\ \A i \in 1..k : SubSeq(key, 1, i) = SubSeq(ids, 1, i)

LEMMA ServedRun ==
  ASSUME NEW r, Kept(r, Nat), NEW ids \in Seq(Nat), Hits(r, ids), NEW key, key = Serving(r, ids), NEW k, k = HitLen(r, ids)
  PROVE  key \in DOMAIN r.entry /\ \E n : Shares(key, ids, k, n)
<1>1. Sound(r, Nat, {}) /\ Block \in Nat \ {0} BY ConfigAssumption DEF Kept
<1>2. key \in Servers(r, ids) /\ key \in Keys(r) BY <1>1, ServingIs
<1>3. k \in 0..Len(ids) /\ k % Block = 0 /\ (Servers(r, ids) # {} <=> k > 0)
      /\ (k > 0 => \A q \in Servers(r, ids) : IsPrefix(Stem(ids, k), q))
  BY <1>1, HitFacts
<1>4. PICK l \in Nat : l = Len(ids) OBVIOUS
<1>5. k \in Nat /\ k > 0 /\ k <= l /\ k \in 0..Len(ids) BY <1>2, <1>3, <1>4
<1>6. IsPrefix(Stem(ids, k), key) BY <1>2, <1>3, <1>5
<1>61. PICK s : s = SubSeq(ids, 1, k) OBVIOUS
<1>62. k \in 0..Len(ids) BY <1>3
<1>7. s \in Seq(Nat) /\ s = SubSeq(ids, 1, k) /\ Len(s) = k /\ \A i \in 1..k : s[i] = ids[i] BY <1>61, <1>62, CutFacts
<1>8. key \in Seq(Nat) /\ Len(key) = PagesOf(key) * Block BY <1>1, <1>2 DEF Sound, Tree, Paged
<1>9. Len(s) <= Len(key) /\ \A i \in 1..Len(s) : s[i] = key[i]
  <2>1. IsPrefix(s, key) BY <1>6, <1>61 DEF Stem
  <2>2. s \in Seq(Nat) /\ key \in Seq(Nat) BY <1>7, <1>8
  <2> QED BY <2>1, <2>2, PrefixIs
<1>10. PICK n \in Nat : k = n * Block
  <2>1. k \div Block \in Nat /\ k = (k \div Block) * Block BY <1>1, <1>3, <1>5, DivMod
  <2> QED BY <2>1
<1>11. n \in 1..PagesOf(key)
  <2>1. PICK a \in Nat \ {0} : a = Block BY <1>1
  <2>2. PICK m \in Nat : m = Len(key) \div a /\ m = PagesOf(key)
    <3>1. Len(key) \in Nat BY <1>8
    <3>2. Len(key) \div a \in Nat BY <2>1, <3>1, DivMod
    <3> QED BY <2>1, <3>2 DEF PagesOf
  <2>3. n * a <= m * a /\ n * a > 0 BY <1>5, <1>7, <1>8, <1>9, <1>10, <2>1, <2>2
  <2>4. n # 0
    <3>1. CASE n = 0 BY <2>3, <3>1
    <3> QED BY <3>1
  <2>5. n <= m
    <3>1. CASE m < n
      <4>1. m * a + a <= n * a /\ m * a \in Nat /\ n * a \in Nat BY <3>1, TimesStep
      <4> QED BY <2>1, <2>3, <4>1
    <3> QED BY <3>1
  <2> QED BY <2>2, <2>4, <2>5
<1>12. ASSUME NEW i \in 1..k PROVE SubSeq(key, 1, i) = SubSeq(ids, 1, i)
  <2>1. PICK j \in 0..k : j = i BY <1>5
  <2>2. PICK m \in Nat : m = Len(key) BY <1>8
  <2>3. k <= m BY <1>7, <1>9, <2>2
  <2>4. j \in 0..m /\ j \in 0..l BY <1>5, <2>3
  <2>41. j \in 0..Len(key) /\ j \in 0..Len(ids) BY <1>4, <2>2, <2>4
  <2>42. key \in Seq(Nat) /\ ids \in Seq(Nat) BY <1>8
  <2>43. PICK a, b : a = SubSeq(key, 1, j) /\ b = SubSeq(ids, 1, j) OBVIOUS
  <2>5. a \in Seq(Nat) /\ a = SubSeq(key, 1, j) /\ Len(a) = j /\ \A q \in 1..j : a[q] = key[q] BY <2>41, <2>42, <2>43, CutFacts
  <2>6. b \in Seq(Nat) /\ b = SubSeq(ids, 1, j) /\ Len(b) = j /\ \A q \in 1..j : b[q] = ids[q] BY <2>41, <2>42, <2>43, CutFacts
  <2>7. \A q \in 1..j : q \in 1..k BY <1>5
  <2>8. a = b BY <1>7, <1>9, <2>5, <2>6, <2>7, SameSeq
  <2> QED BY <2>1, <2>5, <2>6, <2>8
<1> QED BY <1>2, <1>3, <1>10, <1>11, <1>12 DEF Shares, Keys

LEMMA JobExecIs ==
  ASSUME PagesOK, KvOK, NEW x, x = JobExec
  PROVE  KvOf(x, segs, cache.entry, Kvs) /\ x.single = exec.single
<1>1. PICK w, held, e, kv : w = exec /\ held = segs /\ e = cache.entry /\ kv = Kvs OBVIOUS
<1>2. Tables(held, e) /\ KvOf(w, held, e, kv) /\ IsExec(w) BY <1>1, NowTables, KvOKIs, ExecIs
<1>3. PICK q : q = Alloc(w.pool, WindowPages) OBVIOUS
<1>4. CASE x = w BY <1>1, <1>2, <1>4
<1>5. CASE x = [w EXCEPT !.pool = q]
  <2>1. IsExec(x) /\ x.store = w.store /\ x.engine = w.engine /\ x.single = w.single BY <1>2, <1>5, PoolOnly
  <2>2. KvOf(x, held, e, kv) BY <1>2, <2>1, KvSame
  <2> QED BY <1>1, <2>1, <2>2
<1>6. x = w \/ x = [w EXCEPT !.pool = q] BY <1>1, <1>3 DEF JobExec
<1> QED BY <1>4, <1>5, <1>6

LEMMA StagedKv ==
  ASSUME Inv, PagesOK, KvOK, pc = "prefill", plan # <<>>, Runnable, NEW y, y = Staged
  PROVE  /\ KvOf(y, segs, cache.entry, Kvs) /\ y.single = NoSingle
         /\ Job.start = 0 => HeldBy(y.engine, SubSeq(Prompt[Job.id], 1, JobEnd))
<1>1. PICK x, held, e, kv : x = JobExec /\ held = segs /\ e = cache.entry /\ kv = Kvs OBVIOUS
<1>2. Tables(held, e) /\ KvOf(x, held, e, kv) BY <1>1, NowTables, JobExecIs
<1>3. PICK c, p : c = Job.id /\ p = Prompt[c] OBVIOUS
<1>4. Job \in Jobs /\ c \in Live /\ JobEnd \in Nat /\ JobEnd <= Len(p) /\ JobEnd > Job.start
  BY <1>3, JobFacts DEF Runnable
<1>5. c \in Client /\ Job.start \in Nat BY <1>4, DecodingFacts DEF Jobs
<1>51. p \in Seq(Nat) /\ Len(p) <= MaxLen
  <2>1. MaxTokens[c] \in Nat /\ p \in Seq(Nat) /\ Len(p) + MaxTokens[c] <= MaxLen BY <1>3, <1>5, LoopAssumption
  <2>2. MaxLen \in Nat BY ConfigAssumption
  <2> QED BY <2>1, <2>2
<1>6. CASE CacheServes
  <2>1. Job.start = 0 /\ JobEnd = Len(p) /\ Hits(cache, p) BY <1>3, <1>6 DEF CacheServes
  <2>2. PICK key, k : key = Serving(cache, p) /\ k = HitLen(cache, p) OBVIOUS
  <2>3. Kept(cache, Nat) BY PagesOKIs
  <2>4. key \in DOMAIN e /\ \E n : Shares(key, p, k, n) BY <1>1, <1>51, <2>1, <2>2, <2>3, ServedRun
  <2>5. PICK n : Shares(key, p, k, n) BY <2>4
  <2>6. y = PrefillPrefixHit(x, e[key], k, SubSeq(p, k + 1, Len(p)))
    BY <1>1, <1>3, <1>6, <2>1, <2>2 DEF Staged, Lookup
  <2>7. n \in 1..PagesOf(key) /\ k \in 0..Len(p) /\ k = n * Block /\ \A i \in 1..k : SubSeq(key, 1, i) = SubSeq(p, 1, i)
    BY <2>5 DEF Shares
  <2>8. KvOf(y, held, e, kv) /\ y.single = NoSingle /\ HeldBy(y.engine, p) BY <1>2, <1>51, <2>4, <2>6, <2>7, HitKv
  <2>9. SubSeq(p, 1, JobEnd) = p BY <1>51, <2>1, SubSeqFull
  <2> QED BY <1>1, <1>3, <2>8, <2>9
<1>7. CASE ~CacheServes
  <2>1. PICK ids : ids = SubSeq(p, Job.start + 1, JobEnd) OBVIOUS
  <2>11. Job.start \in Nat /\ JobEnd \in Nat BY <1>4, <1>5
  <2>12. Len(p) \in Nat BY <1>51
  <2>2. PICK a \in Nat, b \in Nat, l \in Nat : a = Job.start /\ b = JobEnd /\ l = Len(p) BY <2>11, <2>12
  <2>3. ids \in Seq(Nat) /\ Len(ids) <= MaxLen
    <3>1. \A i \in a + 1..b : p[i] \in Nat
      <4>1. \A i \in a + 1..b : i \in 1..l BY <1>4, <2>2
      <4> QED BY <1>51, <2>2, <4>1
    <3>2. a + 1 \in Int /\ b \in Int BY <2>2
    <3>3. ids = SubSeq(p, a + 1, b) BY <2>1, <2>2
    <3>4. ids \in Seq(Nat) /\ Len(ids) = IF a + 1 <= b THEN b - (a + 1) + 1 ELSE 0 BY <3>1, <3>2, <3>3, SubSeqProperties
    <3>5. MaxLen \in Nat BY ConfigAssumption
    <3> QED BY <1>4, <1>51, <2>2, <3>4, <3>5
  <2>4. y = Prefill(x, ids) BY <1>1, <1>3, <1>7, <2>1 DEF Staged
  <2>5. KvOf(y, held, e, kv) /\ y.single = NoSingle /\ HeldBy(y.engine, ids) BY <1>2, <2>3, <2>4, PrefillKv
  <2>6. Job.start = 0 => ids = SubSeq(p, 1, JobEnd) BY <2>1
  <2> QED BY <1>1, <1>3, <2>5, <2>6
<1> QED BY <1>6, <1>7

LEMMA PrefillAbortKv ==
  ASSUME Inv, PagesOK, KvOK, NEW r, NEW x, KvOf(x, segs, cache.entry, Kvs), PrefillAborts(r, x)
  PROVE  KvOK'
<1>1. PICK ids, rs, h : ids = {Job.id} /\ rs = WithReq(r) /\ h = WithSeg(JobSeg) OBVIOUS
<1>2. pc = "prefill" /\ pc' = pc /\ UNCHANGED <<cache, batch>> /\ AbortReqs(ids, rs) /\ exec' = ReleaseAll(x, ids, h)
  BY <1>1 DEF PrefillAborts, PrefillStep
<1>3. IsFiniteSet(ids) BY <1>1, FS_Singleton
<1>4. DOMAIN rs = Accepted /\ \A c \in Accepted \ ids : rs[c] = reqs[c] BY <1>1 DEF WithReq, Accepted
<1>5. Alone(pc', decoding, x.single) BY <1>2 DEF Alone
<1>6. \A c \in decoding \ ids : c \in batch' <=> c \in batch BY <1>2
<1> QED BY <1>2, <1>3, <1>4, <1>5, <1>6, AbortsKv

LEMMA PrefillFailKv == ASSUME Inv, PagesOK, KvOK, "flush" \notin Failing, PrefillFails PROVE KvOK'
<1>1. PICK w, held, e, kv : w = JobExec /\ held = segs /\ e = cache.entry /\ kv = Kvs OBVIOUS
<1>2. Tables(held, e) /\ KvOf(w, held, e, kv) BY <1>1, NowTables, JobExecIs
<1>3. CASE PrefillAborts(JobReq, FlushSingleton(JobExec))
  <2>1. PICK x, r : x = FlushSingleton(w) /\ r = JobReq OBVIOUS
  <2>2. KvOf(x, held, e, kv) BY <1>2, <2>1, FlushKv
  <2>3. PrefillAborts(r, x) BY <1>1, <1>3, <2>1
  <2> QED BY <1>1, <2>2, <2>3, PrefillAbortKv
<1>4. CASE PrefillAborts(Confirm(JobReq), Staged)
  <2>1. PICK x, r : x = Staged /\ r = Confirm(JobReq) OBVIOUS
  <2>2. pc = "prefill" /\ plan # <<>> /\ Runnable BY <1>4 DEF PrefillAborts, PrefillStep
  <2>3. KvOf(x, segs, cache.entry, Kvs) BY <2>1, <2>2, StagedKv
  <2>4. PrefillAborts(r, x) BY <1>4, <2>1
  <2> QED BY <2>3, <2>4, PrefillAbortKv
<1> QED BY <1>3, <1>4 DEF PrefillFails, Fails

\* The record of the request whose chunk is confirmed.
LEMMA JobFixed ==
  ASSUME Inv, KvOK, pc = "prefill", plan # <<>>, Runnable, Job.start = 0, NEW c, c = Job.id, NEW r, r = Confirm(JobReq)
  PROVE  /\ r \in Request /\ Fixed(Prompt[c], MaxTokens[c], r)
         /\ r.st = "Decode" => r.cached = Len(Prompt[c]) /\ JobEnd = Len(Prompt[c])
<1>1. PICK p, m, q, s : p = Prompt[c] /\ m = MaxTokens[c] /\ q = reqs[c] /\ s = JobReq OBVIOUS
<1>2. c \in Live /\ JobEnd \in Nat /\ JobEnd <= Len(p) /\ JobEnd > 0 /\ q.st \in {"Waiting", "Chunked", "Preempted"}
  BY <1>1, JobFacts DEF Runnable
<1>3. c \in Client /\ q \in Request
  <2>1. c \in Client /\ c \in Accepted BY <1>2, DecodingFacts
  <2> QED BY <1>1, <2>1, Views DEF Inv
<1>4. p \in Seq(Nat) /\ m \in Nat BY <1>1, <1>3, LoopAssumption
<1>5. PICK l \in Nat, n \in Nat : l = Len(p) /\ n = JobEnd
  <2>1. Len(p) \in Nat BY <1>4
  <2> QED BY <1>2, <2>1
<1>51. /\ StartPrefill(q, l, m, n) \in Request
       /\ StartPrefill(q, l, m, n).prompt = l
       /\ StartPrefill(q, l, m, n).device = IF n < l THEN n ELSE l
       /\ StartPrefill(q, l, m, n).st = IF n < l THEN "Chunked" ELSE "Prefill"
  <2>1. PICK qq \in Request, mm \in Nat : qq = q /\ mm = m BY <1>3, <1>4
  <2>2. /\ StartPrefill(qq, l, mm, n) \in Request
        /\ StartPrefill(qq, l, mm, n).prompt = l
        /\ StartPrefill(qq, l, mm, n).device = IF n < l THEN n ELSE l
        /\ StartPrefill(qq, l, mm, n).st = IF n < l THEN "Chunked" ELSE "Prefill"
    BY StartPrefillFields
  <2> QED BY <2>1, <2>2, Zenon
<1>6. s \in Request /\ s.prompt = l /\ s.maxOut = m /\ s.device <= n /\ s.device <= l
  <2>1. CASE Starting
    <3>1. s = StartPrefill(q, l, m, n) BY <1>1, <1>5, <2>1 DEF JobReq
    <3>2. s.maxOut = m BY <1>3, <3>1 DEF StartPrefill, Request
    <3>3. s \in Request /\ s.prompt = l /\ s.device = IF n < l THEN n ELSE l BY <1>51, <3>1
    <3> QED BY <1>5, <3>2, <3>3
  <2>2. CASE ~Starting
    <3>1. s = DispatchChunk(q, n) BY <1>1, <1>5, <2>2 DEF JobReq
    <3>2. q.st = "Chunked" BY <1>1, <1>2, <2>2 DEF Starting
    <3>3. q.prompt = l /\ q.maxOut = m BY <1>1, <1>2, <1>5, <3>2, NowFixed DEF Fixed
    <3>4. s \in Request /\ s.prompt = q.prompt /\ s.device = n BY <1>3, <1>5, <3>1, DispatchChunkFields
    <3>5. s.maxOut = q.maxOut BY <1>3, <3>1 DEF DispatchChunk, Request
    <3> QED BY <1>2, <1>5, <3>3, <3>4, <3>5
  <2> QED BY <2>1, <2>2
<1>7. r = Confirm(s) BY <1>1
<1>8. Fixed(p, m, r) BY <1>4, <1>5, <1>6, <1>7, FixedConfirm
<1>9. r \in Request /\ r.cached = s.device /\ r.st = IF s.device >= s.prompt THEN "Decode" ELSE s.st
  BY <1>6, <1>7, ConfirmFields
<1>10. ASSUME r.st = "Decode" PROVE r.cached = l /\ n = l
  <2>1. s.st # "Decode"
    <3>1. CASE Starting
      <4>1. s = StartPrefill(q, l, m, n) BY <1>1, <1>5, <3>1 DEF JobReq
      <4>2. s.st = IF n < l THEN "Chunked" ELSE "Prefill" BY <1>51, <4>1
      <4> QED BY <4>2
    <3>2. CASE ~Starting
      <4>1. s = DispatchChunk(q, n) BY <1>1, <1>5, <3>2 DEF JobReq
      <4>2. s.st = q.st BY <1>3, <1>5, <4>1, DispatchChunkFields
      <4> QED BY <1>2, <4>2
    <3> QED BY <3>1, <3>2
  <2>2. s.device >= l BY <1>6, <1>9, <1>10, <2>1
  <2>3. s.device \in Nat BY <1>6, RequestFields
  <2> QED BY <1>1, <1>2, <1>5, <1>6, <1>9, <2>2, <2>3
<1> QED BY <1>1, <1>5, <1>8, <1>9, <1>10

LEMMA GroundedFresh ==
  ASSUME NEW p, NEW max, Fits(p, max), p # <<>>, NEW m, m.gen \in Seq(Vocab), m.cur = Last(p), NEW r, r.cached = Len(p)
  PROVE  Grounded(p, max, m, r) /\ Begins(KvSeq(p, m.gen, r.cached, FALSE), p)
<1>1. p \in Seq(Nat) /\ max \in Nat BY DEF Fits
<1>2. PICK k \in Nat : k = Len(p) BY <1>1
<1>3. PICK h : h = Hist(p, m.gen, k) OBVIOUS
<1>4. h = p
  <2>1. Hist(p, m.gen, Len(p)) = p BY <1>1, HistFresh
  <2> QED BY <1>2, <1>3, <2>1
<1>5. PICK t \in Nat : t = Len(m.gen) OBVIOUS
<1>6. Grounded(p, max, m, r)
  <2>1. k <= k /\ k <= k + max /\ k - k <= t BY <1>1, <1>2, <1>5
  <2>2. m.cur = Last(Hist(p, m.gen, r.cached)) BY <1>2, <1>3, <1>4
  <2>3. r.cached = k /\ Len(p) = k BY <1>2
  <2> QED BY <1>5, <2>1, <2>2, <2>3 DEF Grounded
<1>7. PICK s : s = KvSeq(p, m.gen, k, FALSE) OBVIOUS
<1>8. Continues(p, m, k, h, s)
  <2>1. r.cached = k BY <1>2
  <2> QED BY <1>3, <1>6, <1>7, <2>1, GroundedFacts
<1>9. Begins(s, h) BY <1>8 DEF Continues
<1>10. r.cached = k BY <1>2
<1> QED BY <1>4, <1>6, <1>7, <1>9, <1>10

\* Where the chunk goes.
LEMMA PlacedIs ==
  ASSUME NEW y, y = Staged, Job.start = 0, NEW n \in Nat, n = JobEnd, NEW c, c = Job.id, NEW seg, seg = JobSeg
  PROVE  Placed(TRUE) = AdoptSingleton(y, c, seg, 0, n) /\ Placed(FALSE) = CommitStage(y, seg, 0, n)
<1>1. JobEnd - Job.start = n OBVIOUS
<1> QED BY <1>1 DEF Placed

\* The tables with the window of the job.
LEMMA JobTables ==
  ASSUME Inv, PagesOK, pc = "prefill", plan # <<>>, Runnable, NEW g, g = WithSeg(JobSeg)
  PROVE  Tables(g, cache.entry) /\ Job.id \in DOMAIN g /\ g[Job.id] = JobSeg
         /\ \A d \in DOMAIN segs : d # Job.id => d \in DOMAIN g /\ g[d] = segs[d]
<1>1. PICK x, r, e : x = JobExec /\ r = cache /\ e = r.entry OBVIOUS
<1>2. Holding(x, g, e) BY <1>1, JobHolds
<1>3. Kept(r, Nat) BY <1>1, PagesOKIs
<1>4. Tables(g, e) BY <1>1, <1>2, <1>3, KeptKeys, TablesHold
<1> QED BY <1>1, <1>4 DEF WithSeg

LEMMA PlacedKv ==
  ASSUME NEW y, NEW held, NEW e, NEW kv, KvOf(y, held, e, kv), y.single = NoSingle,
         NEW ids \in Seq(Nat), Len(ids) <= MaxLen, HeldBy(y.engine, ids),
         NEW g, NEW lv, NEW c, NEW seg, Tables(g, e), EntersKv(held, kv, g, lv, c, seg, ids),
         NEW z, \/ z = CommitStage(y, seg, 0, Len(ids))
                \/ z = AdoptSingleton(y, c, seg, 0, Len(ids)) /\ DOMAIN lv = {c}
  PROVE  KvOf(z, g, e, lv)
<1>1. CASE z = CommitStage(y, seg, 0, Len(ids)) BY <1>1, CommitKv
<1>2. CASE z = AdoptSingleton(y, c, seg, 0, Len(ids)) /\ DOMAIN lv = {c}
  <2>1. z = AdoptSingleton(y, c, seg, 0, Len(ids)) BY <1>2
  <2>2. DOMAIN lv = {c} BY <1>2
  <2> QED BY <2>1, <2>2, AdoptKv
<1> QED BY <1>1, <1>2

LEMMA PrefillConfirmKv == ASSUME Inv, PagesOK, KvOK, WholePrefills, PrefillConfirmed PROVE KvOK'
<1>1. /\ pc = "prefill" /\ plan # <<>> /\ Runnable /\ Job.start = 0 /\ UNCHANGED <<cache, pc, batch>>
      /\ reqs' = WithReq(Confirm(JobReq)) /\ segs' = WithSeg(JobSeg)
  BY DEF PrefillConfirmed, PrefillStep, WholePrefills
<1>2. batch = {} BY <1>1 DEF Inv, TablesOK
<1>3. PICK c, p, max, r, seg, g, e, held, kv, y, z :
        /\ c = Job.id /\ p = Prompt[c] /\ max = MaxTokens[c] /\ r = Confirm(JobReq) /\ seg = JobSeg /\ g = WithSeg(JobSeg)
        /\ e = cache.entry /\ held = segs /\ kv = Kvs /\ y = Staged /\ z = exec'
  OBVIOUS
<1>4. KvOf(y, held, e, kv) /\ y.single = NoSingle /\ HeldBy(y.engine, SubSeq(p, 1, JobEnd)) BY <1>1, <1>3, StagedKv
<1>5. c \in Live /\ c \in Queued /\ JobEnd \in Nat /\ JobEnd <= Len(p) /\ JobEnd > 0 BY <1>1, <1>3, JobFacts DEF Runnable
<1>6. c \in Client /\ Fits(p, max) /\ Live \subseteq Accepted /\ \A d \in decoding : d \in Live /\ d \in DOMAIN segs
  BY <1>3, <1>5, DecodingFacts
<1>7. c \notin decoding BY <1>5 DEF Inv, TablesOK
<1>8. p \in Seq(Nat) /\ Len(p) <= MaxLen /\ p # <<>>
  <2>1. max \in Nat /\ p \in Seq(Nat) /\ Len(p) + max <= MaxLen BY <1>6 DEF Fits
  <2>2. MaxLen \in Nat BY ConfigAssumption
  <2> QED BY <1>5, <2>1, <2>2
<1>9. PICK n \in Nat : n = JobEnd /\ n <= Len(p) /\ n \in 0..Len(p) BY <1>5, <1>8
<1>10. PICK ids : ids = SubSeq(p, 1, n) OBVIOUS
<1>11. ids \in Seq(Nat) /\ Len(ids) = n
  <2>1. n \in 0..Len(p) /\ p \in Seq(Nat) BY <1>8, <1>9
  <2> QED BY <1>10, <2>1, CutFacts
<1>12. Len(ids) <= MaxLen /\ HeldBy(y.engine, ids)
  <2>1. MaxLen \in Nat BY ConfigAssumption
  <2> QED BY <1>4, <1>8, <1>9, <1>10, <1>11, <2>1
<1>13. Tables(g, e) /\ c \in DOMAIN g /\ g[c] = seg /\ \A d \in DOMAIN held : d # c => d \in DOMAIN g /\ g[d] = held[d]
  BY <1>1, <1>3, JobTables
<1>14. Placed(TRUE) = AdoptSingleton(y, c, seg, 0, Len(ids)) /\ Placed(FALSE) = CommitStage(y, seg, 0, Len(ids))
  BY <1>1, <1>3, <1>9, <1>11, PlacedIs
<1>15. Fixed(p, max, r) /\ (r.st = "Decode" => r.cached = Len(p) /\ n = Len(p)) BY <1>1, <1>3, <1>9, JobFixed
<1>16. reqs'[c] = r /\ \A d \in Live : d # c => reqs'[d] = reqs[d] BY <1>1, <1>3, <1>5, <1>6 DEF WithReq, Accepted
<1>17. Alone(pc', decoding', exec'.single) BY <1>1 DEF Alone
<1>18. DOMAIN kv = decoding BY <1>3, KvsAre
<1>19. segs' = g /\ cache'.entry = e BY <1>1, <1>3
<1>20. CASE r.st # "Decode"
  <2>1. UNCHANGED <<decoding, meta>> /\ z = Placed(FALSE) BY <1>3, <1>20 DEF PrefillConfirmed
  <2>2. EntersKv(held, kv, g, kv, c, seg, ids) BY <1>3, <1>6, <1>7, <1>13, <1>18 DEF EntersKv
  <2>3. KvOf(z, g, e, kv) BY <1>4, <1>11, <1>12, <1>13, <1>14, <2>1, <2>2, PlacedKv
  <2>4. \A d \in decoding : reqs'[d] = reqs[d] BY <1>6, <1>7, <1>16
  <2>5. Kvs' = Kvs
    <3>1. \A d \in decoding : KvSeq(Prompt[d], meta'[d].gen, reqs'[d].cached, d \in batch')
                              = KvSeq(Prompt[d], meta[d].gen, reqs[d].cached, d \in batch)
      BY <1>1, <2>1, <2>4
    <3> QED BY <2>1, <3>1, Zenon DEF Kvs
  <2>6. KvOf(exec', segs', cache'.entry, Kvs') BY <1>3, <1>19, <2>3, <2>5
  <2>7. \A d \in decoding' : Grounded(Prompt[d], MaxTokens[d], meta'[d], reqs'[d]) BY <2>1, <2>4, KvOKIs DEF RequestsOK
  <2>8. \A d \in DOMAIN meta' : Fixed(Prompt[d], MaxTokens[d], reqs'[d]) BY <1>3, <1>15, <1>16, <2>1, NowFixed DEF Live
  <2> QED BY <1>17, <2>6, <2>7, <2>8, KvOKIs, RequestsOKIs
<1>21. CASE r.st = "Decode"
  <2>1. decoding' = decoding \union {c} /\ meta' = [meta EXCEPT ![c].cur = Last(p)] /\ z = Placed(decoding' = {c})
    BY <1>3, <1>21 DEF PrefillConfirmed
  <2>2. r.cached = Len(p) /\ ids = p
    <3>1. n = Len(p) /\ r.cached = Len(p) BY <1>15, <1>21
    <3> QED BY <1>8, <1>10, <3>1, SubSeqFull
  <2>3. PICK lv : lv = [d \in decoding' |-> IF d = c THEN ids ELSE kv[d]] OBVIOUS
  <2>4. DOMAIN lv = decoding \union {c} /\ lv[c] = ids /\ \A d \in decoding : lv[d] = kv[d] BY <1>7, <2>1, <2>3
  <2>5. EntersKv(held, kv, g, lv, c, seg, ids) BY <1>3, <1>6, <1>7, <1>13, <1>18, <2>4 DEF EntersKv
  <2>6. KvOf(z, g, e, lv)
    <3>1. z = Placed(FALSE) \/ (z = Placed(TRUE) /\ decoding' = {c}) BY <2>1
    <3>2. \/ z = CommitStage(y, seg, 0, Len(ids))
          \/ z = AdoptSingleton(y, c, seg, 0, Len(ids)) /\ DOMAIN lv = {c}
      BY <1>14, <2>1, <2>4, <3>1
    <3> QED BY <1>4, <1>11, <1>12, <1>13, <2>5, <3>2, PlacedKv
  <2>7. PICK m : m = meta'[c] OBVIOUS
  <2>8. m.gen = meta[c].gen /\ m.cur = Last(p) /\ m.gen \in Seq(Vocab)
    <3>1. meta[c] = [gen |-> meta[c].gen, cur |-> meta[c].cur] /\ meta[c].gen \in Seq(Vocab) BY <1>5 DEF Inv, Shape
    <3>2. c \in DOMAIN meta BY <1>5 DEF Live
    <3>3. m = [meta[c] EXCEPT !.cur = Last(p)] BY <2>1, <2>7, <3>2
    <3> QED BY <3>1, <3>3
  <2>9. Grounded(p, max, m, r) /\ Begins(KvSeq(p, m.gen, r.cached, FALSE), p) BY <1>6, <1>8, <2>2, <2>8, GroundedFresh
  <2>10. \A d \in decoding : meta'[d] = meta[d] /\ reqs'[d] = reqs[d] BY <1>6, <1>7, <1>16, <2>1
  <2>11. PICK nv : nv = Kvs' OBVIOUS
  <2>12. DOMAIN nv = decoding \union {c} BY <2>1, <2>11, KvsAre
  <2>13. nv[c] = KvSeq(p, m.gen, r.cached, FALSE)
    <3>1. c \in decoding' /\ (c \in batch') = FALSE BY <1>1, <1>2, <2>1
    <3>2. nv[c] = KvSeq(Prompt[c], meta'[c].gen, reqs'[c].cached, c \in batch') BY <2>11, <3>1, KvsAre
    <3> QED BY <1>3, <1>16, <2>7, <3>1, <3>2
  <2>14. ASSUME NEW d \in decoding PROVE nv[d] = lv[d] /\ Begins(nv[d], lv[d])
    <3>1. d \in decoding' /\ (d \in batch') = (d \in batch) BY <1>1, <2>1
    <3>2. nv[d] = KvSeq(Prompt[d], meta'[d].gen, reqs'[d].cached, d \in batch') BY <2>11, <3>1, KvsAre
    <3>3. kv[d] = KvSeq(Prompt[d], meta[d].gen, reqs[d].cached, d \in batch) BY <1>3, KvsAre
    <3>4. nv[d] = lv[d] BY <2>4, <2>10, <3>1, <3>2, <3>3
    <3>5. lv[d] \in Seq(Tokens) BY <2>4, <2>6 DEF KvOf
    <3>6. Len(lv[d]) \in Nat BY <3>5
    <3> QED BY <3>4, <3>5, <3>6 DEF Begins
  <2>15. \A d \in DOMAIN nv : d \in DOMAIN lv /\ Begins(nv[d], lv[d]) BY <2>2, <2>4, <2>9, <2>12, <2>13, <2>14
  <2>16. \A d \in DOMAIN lv : d \in DOMAIN g BY <2>6 DEF KvOf
  <2>17. Fewer(z, g, lv, z, g, nv) BY <2>4, <2>12, <2>15, <2>16 DEF Fewer
  <2>18. IsExec(z) BY <2>6 DEF KvOf
  <2>19. KvOf(z, g, e, nv) BY <1>13, <2>6, <2>17, <2>18, KvLess
  <2>20. KvOf(exec', segs', cache'.entry, Kvs') BY <1>3, <1>19, <2>11, <2>19
  <2>21. \A d \in decoding' : Grounded(Prompt[d], MaxTokens[d], meta'[d], reqs'[d])
    <3>1. \A d \in decoding : Grounded(Prompt[d], MaxTokens[d], meta'[d], reqs'[d]) BY <2>10, KvOKIs DEF RequestsOK
    <3> QED BY <1>3, <1>16, <2>1, <2>7, <2>9, <3>1
  <2>22. DOMAIN meta' = Live BY <2>1 DEF Live
  <2>23. \A d \in DOMAIN meta' : Fixed(Prompt[d], MaxTokens[d], reqs'[d]) BY <1>3, <1>15, <1>16, <2>22, NowFixed
  <2> QED BY <1>17, <2>20, <2>21, <2>23, KvOKIs, RequestsOKIs
<1> QED BY <1>20, <1>21

-----------------------------------------------------------------------------
(* A request ends *)

LEMMA BeginsCut ==
  ASSUME NEW p, NEW h, Begins(p, h), h \in Seq(Tokens), NEW j \in 0..Len(p), NEW q, q = SubSeq(p, 1, j)
  PROVE  Begins(q, h)
<1>1. p \in Seq(Tokens) /\ Len(p) <= Len(h) /\ \A i \in 1..Len(p) : SubSeq(p, 1, i) = SubSeq(h, 1, i) BY DEF Begins
<1>2. PICK w \in Seq(Tokens) : w = p BY <1>1
<1>3. j \in 0..Len(w) BY <1>2
<1>4. q \in Seq(Tokens) /\ Len(q) = j BY <1>2, <1>3, CutFacts
<1>5. PICK l \in Nat, n \in Nat : l = Len(w) /\ n = Len(h) OBVIOUS
<1>6. j \in Nat /\ j <= l /\ j <= n BY <1>1, <1>2, <1>3, <1>5
<1>7. ASSUME NEW i \in 1..j PROVE SubSeq(q, 1, i) = SubSeq(h, 1, i)
  <2>1. i \in 0..j /\ i \in 1..Len(p) BY <1>2, <1>5, <1>6
  <2>2. SubSeq(SubSeq(w, 1, j), 1, i) = SubSeq(w, 1, i) BY <1>3, <2>1, CutCut
  <2> QED BY <1>1, <1>2, <2>1, <2>2
<1> QED BY <1>4, <1>5, <1>6, <1>7 DEF Begins

LEMMA KeyBegins ==
  ASSUME NEW c \in Client, NEW h \in Seq(Tokens), Begins(Prompt[c], h), NEW key, key = CacheKey(c)
  PROVE  Begins(key, h)
<1>1. PICK p : p = Prompt[c] OBVIOUS
<1>2. p \in Seq(Nat) BY <1>1, LoopAssumption
<1>3. PICK l \in Nat, a \in Nat \ {0} : l = Len(p) /\ a = Block BY <1>2, ConfigAssumption
<1>4. PICK j \in Nat : j = (l \div a) * a /\ j <= l
  <2>1. l \div a \in Nat /\ (l \div a) * a <= l BY <1>3, DivMod
  <2>2. (l \div a) * a \in Nat BY <1>3, <2>1
  <2> QED BY <2>1, <2>2
<1>5. j \in 0..Len(p) BY <1>3, <1>4
<1>6. key = SubSeq(p, 1, j) BY <1>1, <1>3, <1>4 DEF CacheKey
<1> QED BY <1>1, <1>5, <1>6, BeginsCut

\* What a refill does to the executor and the entries.
Refilling(c, seq) ==
  /\ seq \in Seq(DOMAIN cache.entry) /\ StepOver
  /\ exec' = RefillPrefix(Unreferencing(cache.entry, exec, seq), c, segs[c], KeyPages(c))
  /\ \A k \in DOMAIN cache'.entry : \/ k = CacheKey(c) /\ cache'.entry[k] = segs[c].base
                                    \/ k \in DOMAIN cache.entry /\ cache'.entry[k] = cache.entry[k]

LEMMA RefillIs ==
  ASSUME PagesOK, "refill" \notin Failing, NEW c \in Client, Refills(c), Released(c)
  PROVE  \E seq : Refilling(c, seq)
<1>1. PICK key : key = CacheKey(c) OBVIOUS
<1>2. PICK x, r, e : x = exec /\ r = cache /\ e = r.entry OBVIOUS
<1>3. Kept(r, Nat) BY <1>2, PagesOKIs
<1>4. KeyPages(c) > 0 BY DEF Refills
<1>5. PagesOf(key) = KeyPages(c) BY <1>1, <1>4, KeyFacts
<1>6. RadixAssumption BY RadixAssumption
<1>7. NewKey(r, Nat, key) /\ ~PathGone(r, key) BY <1>1, <1>2, <1>3, NewKeyOf
<1>8. PICK base : base = segs[c].base OBVIOUS
<1>9. PICK d : d = Insert(r, key, base) OBVIOUS
<1>10. Inserts(r, Nat, key, base, d) BY <1>3, <1>6, <1>7, <1>9, InsertKept
<1>11. PICK seq : seq = Evicted(r, key) OBVIOUS
<1>12. /\ DOMAIN d.entry = (DOMAIN e \ Among(seq)) \union {key}
       /\ \A k \in DOMAIN d.entry : d.entry[k] = IF k = key THEN base ELSE e[k]
       /\ seq \in Seq(DOMAIN e)
  BY <1>2, <1>10, <1>11 DEF Inserts, Keys
<1>13. EvictedFor(c) = seq BY <1>2, <1>5, <1>11 DEF EvictedFor, Evicted
<1>14. Unreferenced(c) = Unreferencing(e, x, seq)
  <2>1. Unreferenced(c) = Unreferencing(cache.entry, exec, EvictedFor(c)) BY Zenon DEF Unreferenced, Unreferencing
  <2> QED BY <1>2, <1>13, <2>1, Zenon
<1>15. ~PathGone(cache, CacheKey(c)) BY <1>1, <1>2, <1>7
<1>16. /\ StepOver /\ cache' = Insert(cache, CacheKey(c), segs[c].base)
       /\ faults' \in {faults} \union {n \in {faults + 1} : RefillCopyFails(c)}
       /\ exec' = IF faults' = faults THEN Refilled(c) ELSE NotRefilled(c)
  BY <1>15 DEF Released
<1>17. faults' = faults BY <1>16 DEF RefillCopyFails
<1>18. exec' = RefillPrefix(Unreferencing(e, x, seq), c, segs[c], KeyPages(c)) BY <1>14, <1>16, <1>17 DEF Refilled
<1>19. cache' = d BY <1>1, <1>2, <1>8, <1>9, <1>16
<1>20. Refilling(c, seq) BY <1>1, <1>2, <1>8, <1>12, <1>16, <1>18, <1>19 DEF Refilling
<1> QED BY <1>20

LEMMA EndKv ==
  ASSUME Inv, PagesOK, KvOK, "refill" \notin Failing, NEW c, NEW kind, Ends(c, kind)
  PROVE  KvOK'
<1>1. /\ pc = "confirm" /\ c \in batch /\ batch' = batch \ {c} /\ Released(c)
      /\ decoding' = decoding \ {c} /\ segs' = Restrict(segs, DOMAIN segs \ {c})
      /\ meta' = Restrict(meta, DOMAIN meta \ {c}) /\ \E r : reqs' = [reqs EXCEPT ![c] = r]
  BY DEF Ends, ConfirmOf, Forget
<1>2. c \in decoding /\ c \in Client /\ Live \subseteq Accepted BY <1>1, DecodingFacts
<1>3. PICK x, held, e, kv, lv, g, f, y :
        /\ x = exec /\ held = segs /\ e = cache.entry /\ kv = Kvs
        /\ lv = Kvs' /\ g = segs' /\ f = cache'.entry /\ y = exec'
  OBVIOUS
<1>4. Tables(held, e) /\ KvOf(x, held, e, kv) BY <1>3, NowTables, KvOKIs
<1>5. IsExec(x) BY <1>4 DEF KvOf
<1>6. DOMAIN meta' = Live \ {c} /\ \A d \in Live \ {c} : meta'[d] = meta[d] /\ reqs'[d] = reqs[d]
  BY <1>1, <1>2 DEF Restrict, Live, Accepted
<1>7. \A d \in decoding' : d \in decoding /\ d \in Live \ {c} /\ d \in DOMAIN held /\ (d \in batch') = (d \in batch)
  BY <1>1, <1>3, DecodingFacts
<1>8. DOMAIN g = DOMAIN held \ {c} /\ \A d \in DOMAIN g : d \in DOMAIN held /\ g[d] = held[d] BY <1>1, <1>3 DEF Restrict
<1>9. DOMAIN kv = decoding /\ DOMAIN lv = decoding' BY <1>3, KvsAre
<1>10. ASSUME NEW d \in DOMAIN lv PROVE d \in DOMAIN kv /\ d \in DOMAIN g /\ g[d] = held[d] /\ lv[d] = kv[d] /\ Begins(lv[d], kv[d])
  <2>1. d \in decoding' /\ d \in decoding /\ d \in Live \ {c} /\ d \in DOMAIN held /\ (d \in batch') = (d \in batch)
    BY <1>7, <1>9
  <2>2. lv[d] = KvSeq(Prompt[d], meta'[d].gen, reqs'[d].cached, d \in batch') BY <1>3, <2>1, KvsAre
  <2>3. kv[d] = KvSeq(Prompt[d], meta[d].gen, reqs[d].cached, d \in batch) BY <1>3, <2>1, KvsAre
  <2>4. lv[d] = kv[d] BY <1>6, <2>1, <2>2, <2>3
  <2>5. kv[d] \in Seq(Tokens) BY <1>4, <1>9, <2>1 DEF KvOf
  <2>6. Len(kv[d]) \in Nat BY <2>5
  <2> QED BY <1>8, <1>9, <2>1, <2>4, <2>5, <2>6 DEF Begins
<1>11. RequestsOK'
  <2>1. \A d \in decoding' : Grounded(Prompt[d], MaxTokens[d], meta'[d], reqs'[d])
    BY <1>6, <1>7, KvOKIs DEF RequestsOK
  <2>2. \A d \in DOMAIN meta' : Fixed(Prompt[d], MaxTokens[d], reqs'[d]) BY <1>6, NowFixed
  <2> QED BY <2>1, <2>2, RequestsOKIs
<1>12. x.single = NoSingle \/ decoding \subseteq {x.single.id} BY <1>1, <1>3, KvOKIs DEF Alone
<1>13. SUFFICES KvOf(y, g, f, lv) /\ (y.single = NoSingle \/ y.single = x.single)
  <2>1. Alone(pc', decoding', exec'.single) BY <1>1, <1>3, <1>12, <1>13 DEF Alone
  <2> QED BY <1>3, <1>11, <1>13, <2>1, KvOKIs
<1>14. CASE Refills(c)
  <2>1. PICK seq : Refilling(c, seq) BY <1>1, <1>2, <1>14, RefillIs
  <2>2. PICK key, pages, z : key = CacheKey(c) /\ pages = KeyPages(c) /\ z = Unreferencing(e, x, seq) OBVIOUS
  <2>3. /\ seq \in Seq(DOMAIN e) /\ y = RefillPrefix(z, c, held[c], pages)
        /\ \A k \in DOMAIN f : \/ k = key /\ f[k] = held[c].base
                               \/ k \in DOMAIN e /\ f[k] = e[k]
    BY <1>3, <2>1, <2>2 DEF Refilling
  <2>4. Holding(x, held, e) BY <1>3, PagesOKIs
  <2>5. IsExec(z) /\ z.store = x.store /\ z.engine = x.engine /\ z.single = x.single BY <2>2, <2>3, <2>4, EvictMemory
  <2>6. KvOf(z, held, e, kv) BY <1>4, <2>5, KvSame
  <2>7. z.single = NoSingle \/ z.single.id = c BY <1>2, <1>12, <2>5
  <2>8. Begins(key, kv[c])
    <3>1. PICK p, max, m, r : p = Prompt[c] /\ max = MaxTokens[c] /\ m = meta[c] /\ r = reqs[c] OBVIOUS
    <3>2. Fits(p, max) /\ m.gen \in Seq(Vocab) /\ r.cached \in Nat BY <1>2, <3>1, DecodingFacts
    <3>3. Grounded(p, max, m, r) BY <1>2, <3>1, KvOKIs DEF RequestsOK
    <3>4. PICK k \in Nat : k = r.cached BY <3>2
    <3>5. PICK h, s : h = Hist(p, m.gen, k) /\ s = KvSeq(p, m.gen, k, FALSE) OBVIOUS
    <3>6. Continues(p, m, k, h, s) BY <3>2, <3>3, <3>4, <3>5, GroundedFacts
    <3>7. h \in Seq(Tokens) /\ Begins(p, h) /\ KvSeq(p, m.gen, k, TRUE) = h BY <3>6 DEF Continues
    <3>8. kv[c] = h
      <4>1. kv[c] = KvSeq(Prompt[c], meta[c].gen, reqs[c].cached, c \in batch) BY <1>2, <1>3, KvsAre
      <4>2. (c \in batch) = TRUE BY <1>1
      <4> QED BY <3>1, <3>4, <3>7, <4>1, <4>2
    <3>9. Begins(Prompt[c], h) BY <3>1, <3>7
    <3>10. Begins(key, h) BY <1>2, <2>2, <3>7, <3>9, KeyBegins
    <3> QED BY <3>8, <3>10
  <2>9. c \in DOMAIN kv BY <1>2, <1>9
  <2>10. \A d \in DOMAIN lv : d \in DOMAIN kv /\ d \in DOMAIN g /\ g[d] = held[d] /\ lv[d] = kv[d] BY <1>10
  <2>11. Tables(held, e) /\ y = RefillPrefix(z, c, held[c], pages) BY <1>4, <2>3
  <2>12. Gains(e, key, held[c].base, f) BY <2>3 DEF Gains
  <2>13. Remain(held, kv, g, lv) BY <2>10 DEF Remain
  <2>14. KvOf(y, g, f, lv) /\ y.single = NoSingle BY <2>6, <2>7, <2>8, <2>9, <2>11, <2>12, <2>13, RefillKv
  <2> QED BY <2>14
<1>15. CASE ~Refills(c)
  <2>1. /\ exec' = FreeSegment(exec, segs[c])
        /\ cache' = IF Touches(c) THEN Touch(cache, CacheKey(c)) ELSE cache
    BY <1>1, <1>15 DEF Released
  <2>2. f = e
    <3>1. CASE ~Touches(c) BY <1>3, <2>1, <3>1
    <3>2. CASE Touches(c)
      <4>1. PICK key, r, d : key = CacheKey(c) /\ r = cache /\ d = cache' OBVIOUS
      <4>2. key \in Seq(Nat) BY <1>2, <3>2, <4>1, KeyFacts DEF Touches
      <4>3. d = Touch(r, key) BY <2>1, <3>2, <4>1
      <4>4. Kept(r, Nat) BY <4>1, PagesOKIs
      <4>5. d.entry = r.entry BY <4>2, <4>3, <4>4, TouchPages
      <4> QED BY <1>3, <4>1, <4>5
    <3> QED BY <3>1, <3>2
  <2>3. PICK q : q = Unref(x.pool, held[c]) OBVIOUS
  <2>4. y = [x EXCEPT !.pool = q] BY <1>3, <2>1, <2>3 DEF FreeSegment
  <2>5. IsExec(y) /\ y.store = x.store /\ y.engine = x.engine /\ y.single = x.single BY <1>5, <2>4, PoolOnly
  <2>6. x.single.id \in DOMAIN kv \ DOMAIN lv => x.single.id \notin DOMAIN g BY <1>1, <1>8, <1>9
  <2>7. Fewer(x, held, kv, y, g, lv) BY <1>8, <1>10, <2>5, <2>6 DEF Fewer
  <2>8. \A k \in DOMAIN f : k \in DOMAIN e /\ f[k] = e[k] BY <2>2
  <2>9. KvOf(y, g, f, lv) BY <1>4, <2>5, <2>7, <2>8, KvLess
  <2> QED BY <2>5, <2>9
<1> QED BY <1>14, <1>15

LEMMA InitKv == ASSUME Init PROVE KvOK
<1>1. /\ exec = NewExec /\ cache = EmptyCache /\ segs = [c \in {} |-> Anchor] /\ meta = [c \in {} |-> 0]
      /\ decoding = {} /\ pc = "cmds"
  BY DEF Init
<1>2. Keys(EmptyCache) = {} BY EmptyKept, RadixAssumption
<1>3. DOMAIN cache.entry = {} BY <1>1, <1>2 DEF Keys
<1>4. PICK q : q = AllocFromEnd(NewPool(KvPages), WindowPages) OBVIOUS
<1>5. NewExec = [pool |-> q, store |-> [s \in 0 .. KvPages * Block - 1 |-> Garbage],
                 engine |-> [i \in 0 .. LayerPages * Block - 1 |-> Garbage], single |-> NoSingle]
  BY <1>4 DEF NewExec
<1>6. IsExec(exec) /\ exec.single = NoSingle BY <1>1, <1>5 DEF IsExec
<1>7. Memory(exec)
  <2>1. Garbage \in Seq(Tokens) BY DEF Garbage
  <2> QED BY <1>1, <1>5, <2>1 DEF Memory
<1>8. DOMAIN Kvs = {} BY <1>1, KvsAre
<1>9. KvOf(exec, segs, cache.entry, Kvs) BY <1>3, <1>6, <1>7, <1>8 DEF KvOf, Singled
<1>10. RequestsOK /\ Alone(pc, decoding, exec.single) BY <1>1 DEF RequestsOK, Live, Alone
<1> QED BY <1>9, <1>10, KvOKIs

LEMMA NextKv ==
  ASSUME Inv, PagesOK, KvOK, {"flush", "refill"} \cap Failing = {}, WholePrefills, [Next]_vars
  PROVE  KvOK'
<1>0. "flush" \notin Failing /\ "refill" \notin Failing OBVIOUS
<1>1. CASE ClientNext BY <1>1, ClientKv
<1>2. CASE HandleCmd BY <1>2, HandleCmdKv
<1>3. CASE AdmitSchedule BY <1>3, AdmitKv
<1>4. CASE PrefillPutOff BY <1>4, PutOffKv
<1>5. CASE PrefillFails BY <1>0, <1>5, PrefillFailKv
<1>6. CASE PrefillConfirmed BY <1>6, PrefillConfirmKv
<1>7. CASE DecodeBatchRuns BY <1>7, DecodeRunsKv
<1>8. CASE DecodeBatchFails BY <1>8, BatchFailKv
<1>9. ASSUME NEW c \in Client, SampleFails(c) PROVE KvOK' BY <1>9, SampleFailKv
<1>10. ASSUME NEW c \in Client, NEW token \in Vocab, TokenConfirmed(c, token) PROVE KvOK' BY <1>10, TokenKv
<1>11. ASSUME NEW c \in Client, NEW kind, Ends(c, kind) PROVE KvOK' BY <1>0, <1>11, EndKv
<1>12. CASE AwaitCmd \/ UNCHANGED vars
  <2>1. UNCHANGED vars BY <1>12 DEF AwaitCmd
  <2> QED BY <2>1, StutterKv
<1>13. LoopNext =>
         \/ HandleCmd \/ AdmitSchedule \/ PrefillPutOff \/ PrefillFails \/ PrefillConfirmed
         \/ DecodeBatchRuns \/ DecodeBatchFails
         \/ \E c \in Client : \/ SampleFails(c)
                              \/ \E token \in Vocab : TokenConfirmed(c, token)
                              \/ \E kind \in {"token", "eos", "stop"} : Ends(c, kind)
  BY DEF LoopNext
<1>14. CASE LoopNext BY <1>2, <1>3, <1>4, <1>5, <1>6, <1>7, <1>8, <1>9, <1>10, <1>11, <1>13, <1>14
<1> QED BY <1>1, <1>12, <1>14 DEF Next

\* The positions the next decode reads are among those a request has.
Reads(seq, h, k) ==
  /\ \A i \in 0..k - 2 : i + 1 \in 1..Len(seq) /\ (i + 1) - 1 = i /\ SubSeq(h, 1, i + 1) = SubSeq(seq, 1, i + 1)
  /\ Len(seq) \in Nat /\ Len(seq) >= k - 1

LEMMA ReadPart ==
  ASSUME NEW p, NEW m, NEW k \in Nat, NEW h, NEW s, Continues(p, m, k, h, s), NEW seq, seq = h \/ seq = s
  PROVE  Reads(seq, h, k)
<1>1. h \in Seq(Tokens) /\ Len(h) = k /\ Len(s) = k - 1 /\ k # 0 /\ Begins(s, h) BY DEF Continues
<1>2. Len(seq) \in Nat /\ Len(seq) >= k - 1 BY <1>1
<1>3. ASSUME NEW i \in 0..k - 2
      PROVE  i + 1 \in 1..Len(seq) /\ (i + 1) - 1 = i /\ SubSeq(h, 1, i + 1) = SubSeq(seq, 1, i + 1)
  <2>1. i + 1 \in 1..k - 1 BY <1>1
  <2>2. i + 1 \in 1..Len(seq) BY <1>2, <2>1
  <2>3. SubSeq(s, 1, i + 1) = SubSeq(h, 1, i + 1) BY <1>1, <2>1 DEF Begins
  <2>4. (i + 1) - 1 = i OBVIOUS
  <2> QED BY <2>2, <2>3, <2>4
<1> QED BY <1>2, <1>3 DEF Reads

LEMMA KvOKFaithful == ASSUME Inv, PagesOK, KvOK PROVE KvFaithful
<1>1. PICK x, held, e, kv : x = exec /\ held = segs /\ e = cache.entry /\ kv = Kvs OBVIOUS
<1>2. KvOf(x, held, e, kv) BY <1>1, KvOKIs
<1>3. DOMAIN kv = decoding BY <1>1, KvsAre
<1>4. ASSUME NEW c \in decoding
      PROVE  /\ \A i \in 0 .. reqs[c].cached - 2, li \in Layers :
                  SubSeq(History(c), 1, i + 1) =
                    IF exec.single.id = c THEN exec.engine[i] ELSE exec.store[SlotOf(segs[c].base, li, i)]
             /\ exec.single.id = c => PagesFor(exec.single.kvLen) * Block >= reqs[c].cached - 1
  <2>1. PICK p, max, m, r : p = Prompt[c] /\ max = MaxTokens[c] /\ m = meta[c] /\ r = reqs[c] OBVIOUS
  <2>2. Fits(p, max) /\ m.gen \in Seq(Vocab) /\ r.cached \in Nat /\ c \in Client BY <2>1, DecodingFacts
  <2>3. Grounded(p, max, m, r) BY <2>1, KvOKIs DEF RequestsOK
  <2>4. PICK k \in Nat : k = r.cached BY <2>2
  <2>5. PICK h, s : h = Hist(p, m.gen, k) /\ s = KvSeq(p, m.gen, k, FALSE) OBVIOUS
  <2>6. Continues(p, m, k, h, s) BY <2>2, <2>3, <2>4, <2>5, GroundedFacts
  <2>7. PICK seq : seq = kv[c] OBVIOUS
  <2>8. seq = h \/ seq = s
    <3>1. seq = KvSeq(p, m.gen, k, c \in batch) BY <1>1, <2>1, <2>4, <2>7, KvsAre
    <3>2. CASE c \in batch
      <4>1. (c \in batch) = TRUE BY <3>2
      <4>2. KvSeq(p, m.gen, k, TRUE) = h BY <2>6 DEF Continues
      <4> QED BY <3>1, <4>1, <4>2
    <3>3. CASE c \notin batch
      <4>1. (c \in batch) = FALSE BY <3>3
      <4> QED BY <2>5, <3>1, <4>1
    <3> QED BY <3>2, <3>3
  <2>14. Reads(seq, h, k) BY <2>6, <2>8, ReadPart
  <2>9. /\ \A i \in 0..k - 2 : i + 1 \in 1..Len(seq) /\ (i + 1) - 1 = i /\ SubSeq(h, 1, i + 1) = SubSeq(seq, 1, i + 1)
        /\ Len(seq) \in Nat /\ Len(seq) >= k - 1
    BY <2>14 DEF Reads
  <2>10. History(c) = h BY <2>1, <2>4, <2>5, Zenon DEF History, Hist
  <2>11. Has(x, held, c, seq) /\ Singled(x, held, e, kv) BY <1>2, <1>3, <2>7 DEF KvOf
  <2>12. CASE exec.single.id = c
    <3>1. x.single.id = c BY <1>1, <2>12
    <3>2. Len(seq) <= x.single.kvLen /\ HeldBy(x.engine, seq) BY <2>11, <3>1 DEF Has
    <3>3. x.single # NoSingle BY <2>2, <3>1, NotNone
    <3>4. PICK n \in Nat : n = x.single.kvLen /\ n <= MaxLen BY <2>11, <3>3 DEF Singled
    <3>5. n <= PagesFor(n) * Block /\ PagesFor(n) \in 0..LayerPages BY <3>4, PagesFacts
    <3>6. PICK d \in Nat : d = PagesFor(n) * Block
      <4>1. PagesFor(n) \in Nat /\ Block \in Nat BY <3>5, WindowFacts, ConfigAssumption
      <4>2. PagesFor(n) * Block \in Nat BY <4>1
      <4> QED BY <4>2
    <3>7. d >= k - 1 BY <2>9, <3>2, <3>4, <3>5, <3>6
    <3>8. \A i \in 0..k - 2 : SubSeq(h, 1, i + 1) = x.engine[i]
      <4>1. ASSUME NEW i \in 0..k - 2 PROVE SubSeq(h, 1, i + 1) = x.engine[i]
        <5>1. x.engine[(i + 1) - 1] = SubSeq(seq, 1, i + 1) BY <2>9, <3>2 DEF HeldBy
        <5>2. (i + 1) - 1 = i /\ SubSeq(h, 1, i + 1) = SubSeq(seq, 1, i + 1) BY <2>9
        <5> QED BY <5>1, <5>2
      <4> QED BY <4>1
    <3> QED BY <1>1, <2>1, <2>4, <2>10, <2>12, <3>4, <3>6, <3>7, <3>8, Zenon
  <2>13. CASE exec.single.id # c
    <3>1. Filled(x.store, held[c].base, seq) BY <1>1, <2>11, <2>13 DEF Has
    <3>2. \A i \in 0..k - 2, li \in Layers : SubSeq(h, 1, i + 1) = x.store[SlotOf(held[c].base, li, i)]
      <4>1. ASSUME NEW i \in 0..k - 2, NEW li \in Layers
            PROVE  SubSeq(h, 1, i + 1) = x.store[SlotOf(held[c].base, li, i)]
        <5>1. x.store[SlotOf(held[c].base, li, (i + 1) - 1)] = SubSeq(seq, 1, i + 1) BY <2>9, <3>1 DEF Filled
        <5>2. (i + 1) - 1 = i /\ SubSeq(h, 1, i + 1) = SubSeq(seq, 1, i + 1) BY <2>9
        <5> QED BY <5>1, <5>2
      <4> QED BY <4>1
    <3> QED BY <1>1, <2>1, <2>4, <2>10, <2>13, <3>2, Zenon
  <2> QED BY <2>12, <2>13
<1> QED BY <1>4, Zenon DEF KvFaithful

LEMMA KvOKCache == ASSUME PagesOK, KvOK PROVE CacheFaithful
<1>1. PICK x, held, e, kv : x = exec /\ held = segs /\ e = cache.entry /\ kv = Kvs OBVIOUS
<1>2. KvOf(x, held, e, kv) /\ Tables(held, e) BY <1>1, KvOKIs, NowTables
<1>3. ASSUME NEW key \in DOMAIN e, NEW li \in Layers, NEW i \in 0..Len(key) - 1
      PROVE  x.store[SlotOf(e[key], li, i)] = SubSeq(key, 1, i + 1)
  <2>1. Filled(x.store, e[key], key) BY <1>2 DEF KvOf
  <2>2. key \in Seq(Nat) BY <1>2 DEF Tables
  <2>3. i + 1 \in 1..Len(key) /\ (i + 1) - 1 = i BY <2>2
  <2>4. x.store[SlotOf(e[key], li, (i + 1) - 1)] = SubSeq(key, 1, i + 1) BY <2>1, <2>3 DEF Filled
  <2> QED BY <2>3, <2>4
<1> QED BY <1>1, <1>3 DEF CacheFaithful, Keys

-----------------------------------------------------------------------------
(* What decodes and hits read *)

\* While each prompt is prefilled in one go and the copies of the flush and the
\* refill succeed, the two invariants above hold together.
LEMMA KvInvariant ==
  ASSUME {"flush", "refill"} \cap Failing = {}
  PROVE  Spec /\ []WholePrefills => [](Inv /\ PagesOK /\ KvOK)
<1>1. Init => KvOK BY InitKv
<1>2. (Inv /\ PagesOK /\ KvOK) /\ WholePrefills /\ [Next]_vars => KvOK' BY NextKv
<1>3. "refill" \notin Failing OBVIOUS
<1>4. Spec => [](Inv /\ PagesOK) BY <1>3, PagesInvariant
<1> QED BY <1>1, <1>2, <1>4, PTL DEF Spec

\* The KV a decode batch reads for a request (run_decode, KvExecutor::decode),
\* in the engine pool or in its window, was computed from the request's own
\* prompt and tokens, position by position, whatever clients, preemptions, ends
\* and other requests' failures did in between.
THEOREM KvIsFaithful ==
  ASSUME {"flush", "refill"} \cap Failing = {}
  PROVE  Spec /\ []WholePrefills => []KvFaithful
<1>1. Inv /\ PagesOK /\ KvOK => KvFaithful BY KvOKFaithful
<1>2. Spec /\ []WholePrefills => [](Inv /\ PagesOK /\ KvOK) BY KvInvariant
<1> QED BY <1>1, <1>2, PTL

\* A cached run (RadixTree, refill_prefix_release) holds the KV of its key in
\* every layer: a prefill that starts from it reads what it would have computed.
THEOREM CacheIsFaithful ==
  ASSUME {"flush", "refill"} \cap Failing = {}
  PROVE  Spec /\ []WholePrefills => []CacheFaithful
<1>1. Inv /\ PagesOK /\ KvOK => CacheFaithful BY KvOKCache
<1>2. Spec /\ []WholePrefills => [](Inv /\ PagesOK /\ KvOK) BY KvInvariant
<1> QED BY <1>1, <1>2, PTL

-----------------------------------------------------------------------------
(* Pools that hold what all ask for *)

\* The most tokens a request has on the device: its prompt, its output and the
\* token that finds the cap reached.
Demand == [c \in Client |-> [device |-> Len(Prompt[c]) + MaxTokens[c] + 1]]

\* The pool holds all requests at their longest, and a chunk the longest prompt.
Ample == /\ DeviceOf(Demand, Client) <= PoolTokens
         /\ \A c \in Client : Len(Prompt[c]) <= ChunkSize

\* No request is left in the middle of its prompt, or holds more than it may.
Small(c, r) ==
  /\ r.device <= Len(Prompt[c]) + MaxTokens[c] + 1
  /\ r.st # "Chunked"
  /\ r.st = "Decode" => /\ r.prompt = Len(Prompt[c]) /\ r.maxOut = MaxTokens[c]
                        /\ r.device <= Len(Prompt[c]) + MaxTokens[c]

Whole == /\ \A c \in Accepted : Small(c, reqs[c])
         /\ \A i \in DOMAIN plan : plan[i].end = Len(Prompt[plan[i].id])

\* Two sums are at most one whose terms are at least theirs together.
LEMMA DeviceTogether ==
  ASSUME NEW S, IsFiniteSet(S), NEW rs, NEW qs, NEW zs,
         \A c \in S : /\ rs[c].device \in Nat /\ qs[c].device \in Nat /\ zs[c].device \in Nat
                      /\ rs[c].device + qs[c].device <= zs[c].device
  PROVE  DeviceOf(rs, S) + DeviceOf(qs, S) <= DeviceOf(zs, S)
<1> DEFINE Holds(s) == DeviceOf(rs, s) + DeviceOf(qs, s) <= DeviceOf(zs, s)
           P == {k \in 0..Cardinality(S) : \A s \in SUBSET S : Cardinality(s) = k => Holds(s)}
<1>1. /\ Cardinality(S) \in Nat /\ \A s \in SUBSET S : IsFiniteSet(s)
  BY FS_Subset, FS_CardinalityType
<1>2. 0 \in P
  <2>1. \A s \in SUBSET S : Cardinality(s) = 0 => s = {} BY <1>1, FS_EmptySet
  <2>2. DeviceOf(rs, {}) = 0 /\ DeviceOf(qs, {}) = 0 /\ DeviceOf(zs, {}) = 0 BY DeviceNone
  <2>3. ASSUME NEW s \in SUBSET S, Cardinality(s) = 0 PROVE Holds(s)
    <3>1. s = {} BY <2>1, <2>3
    <3> QED BY <2>2, <3>1
  <2> HIDE DEF Holds
  <2> QED BY <1>1, <2>3
<1>3. ASSUME NEW k \in 1..Cardinality(S), k - 1 \in P PROVE k \in P
  <2>1. ASSUME NEW s \in SUBSET S, Cardinality(s) = k PROVE Holds(s)
    <3>1. s # {}
      <4>1. Cardinality(s) # 0 BY <2>1
      <4> QED BY <4>1, FS_EmptySet
    <3>2. PICK x : x \in s BY <3>1
    <3>3. IsFiniteSet(s) /\ x \in S BY <1>1, <3>2
    <3>4. Cardinality(s \ {x}) = k - 1 BY <2>1, <3>2, <3>3, FewerLeft
    <3>5. Holds(s \ {x})
      <4>1. s \ {x} \in SUBSET S OBVIOUS
      <4> HIDE DEF Holds
      <4> QED BY <1>3, <3>4, <4>1
    <3>6. DeviceOf(rs, s) = rs[x].device + DeviceOf(rs, s \ {x})
      <4>1. \A c \in s : rs[c].device \in Nat OBVIOUS
      <4> QED BY <3>2, <3>3, <4>1, DeviceLess
    <3>7. DeviceOf(qs, s) = qs[x].device + DeviceOf(qs, s \ {x})
      <4>1. \A c \in s : qs[c].device \in Nat OBVIOUS
      <4> QED BY <3>2, <3>3, <4>1, DeviceLess
    <3>8. DeviceOf(zs, s) = zs[x].device + DeviceOf(zs, s \ {x})
      <4>1. \A c \in s : zs[c].device \in Nat OBVIOUS
      <4> QED BY <3>2, <3>3, <4>1, DeviceLess
    <3>9. DeviceOf(rs, s \ {x}) \in Nat /\ DeviceOf(qs, s \ {x}) \in Nat /\ DeviceOf(zs, s \ {x}) \in Nat
      <4>1. IsFiniteSet(s \ {x}) /\ \A c \in s \ {x} : c \in S BY <1>1
      <4> QED BY <4>1, DeviceType
    <3>10. /\ rs[x].device \in Nat /\ qs[x].device \in Nat /\ zs[x].device \in Nat
           /\ rs[x].device + qs[x].device <= zs[x].device
      BY <3>3
    <3> QED BY <3>5, <3>6, <3>7, <3>8, <3>9, <3>10
  <2> HIDE DEF Holds
  <2> QED BY <1>1, <2>1
<1>4. \A k \in 0..Cardinality(S) : k \in P
  <2> HIDE DEF P
  <2> QED BY <1>1, <1>2, <1>3, PrefixInduction
<1>5. Cardinality(S) \in P BY <1>1, <1>4
<1>6. Holds(S)
  <2> HIDE DEF Holds
  <2> QED BY <1>5
<1> QED BY <1>6

\* A sum of ones counts.
LEMMA DeviceCounts ==
  ASSUME NEW S, IsFiniteSet(S), NEW rs, \A c \in S : rs[c].device = 1
  PROVE  DeviceOf(rs, S) = Cardinality(S)
<1> DEFINE P == {k \in 0..Cardinality(S) : \A s \in SUBSET S : Cardinality(s) = k => DeviceOf(rs, s) = k}
<1>1. /\ Cardinality(S) \in Nat /\ \A s \in SUBSET S : IsFiniteSet(s)
  BY FS_Subset, FS_CardinalityType
<1>2. 0 \in P
  <2>1. \A s \in SUBSET S : Cardinality(s) = 0 => s = {} BY <1>1, FS_EmptySet
  <2> QED BY <1>1, <2>1, DeviceNone
<1>3. ASSUME NEW k \in 1..Cardinality(S), k - 1 \in P PROVE k \in P
  <2>1. ASSUME NEW s \in SUBSET S, Cardinality(s) = k PROVE DeviceOf(rs, s) = k
    <3>1. s # {}
      <4>1. Cardinality(s) # 0 BY <2>1
      <4> QED BY <4>1, FS_EmptySet
    <3>2. PICK x : x \in s BY <3>1
    <3>3. IsFiniteSet(s) /\ rs[x].device = 1 BY <1>1, <3>2
    <3>4. Cardinality(s \ {x}) = k - 1 BY <2>1, <3>2, <3>3, FewerLeft
    <3>5. DeviceOf(rs, s \ {x}) = k - 1 BY <1>3, <3>4
    <3>6. DeviceOf(rs, s) = rs[x].device + DeviceOf(rs, s \ {x})
      <4>1. \A c \in s : rs[c].device \in Nat OBVIOUS
      <4> QED BY <3>2, <3>3, <4>1, DeviceLess
    <3> QED BY <3>3, <3>5, <3>6
  <2> QED BY <1>1, <2>1
<1>4. \A k \in 0..Cardinality(S) : k \in P
  <2> HIDE DEF P
  <2> QED BY <1>1, <1>2, <1>3, PrefixInduction
<1>5. Cardinality(S) \in P BY <1>1, <1>4
<1> QED BY <1>1, <1>5

LEMMA DeviceMore ==
  ASSUME NEW T, NEW x, x \notin T, NEW U, U = T \union {x}, IsFiniteSet(U),
         NEW rs, \A c \in U : rs[c].device \in Nat, NEW n, rs[x].device = n
  PROVE  DeviceOf(rs, U) = n + DeviceOf(rs, T)
<1>1. x \in U /\ U \ {x} = T OBVIOUS
<1>2. DeviceOf(rs, U) = rs[x].device + DeviceOf(rs, U \ {x}) BY <1>1, DeviceLess
<1> QED BY <1>1, <1>2

\* A chunk as long as what is left of the prompt.
LEMMA TakeWhole ==
  ASSUME NEW acc \in [left : Int, plan : Seq(Jobs)], NEW w, w.id \in Client,
         w.cached = 0, w.prompt \in Nat, w.prompt <= ChunkSize, w.prompt <= acc.left
  PROVE  /\ TakeChunk(acc, w).left = acc.left - w.prompt
         /\ \/ TakeChunk(acc, w).plan = acc.plan
            \/ TakeChunk(acc, w).plan = Append(acc.plan, [id |-> w.id, start |-> 0, end |-> w.prompt])
<1>1. PICK chunk : chunk = Min({w.prompt - w.cached, ChunkSize, acc.left}) OBVIOUS
<1>2. PICK a \in Nat, b \in Int, d \in Int : a = w.prompt /\ b = ChunkSize /\ d = acc.left /\ a <= b /\ a <= d
  BY ConfigAssumption
<1>3. chunk = a
  <2>0. w.prompt - w.cached = a /\ ChunkSize = b /\ acc.left = d BY <1>2
  <2>1. chunk = Min({a, b, d}) BY <1>1, <2>0, Zenon
  <2>2. PICK T : T = {a, b, d} OBVIOUS
  <2>3. T \subseteq Nat /\ T # {} /\ a \in T /\ \A y \in T : a <= y BY <1>2, <2>2
  <2>4. Min(T) \in T /\ \A y \in T : Min(T) <= y BY <2>3, MinIsIn
  <2>5. Min(T) <= a /\ a <= Min(T) /\ Min(T) \in Nat BY <2>3, <2>4
  <2> QED BY <2>1, <2>2, <2>5
<1>4. CASE chunk <= 0
  <2>1. TakeChunk(acc, w) = acc BY <1>1, <1>4 DEF TakeChunk
  <2> QED BY <1>2, <1>3, <1>4, <2>1
<1>5. CASE ~(chunk <= 0)
  <2>1. TakeChunk(acc, w) = [left |-> acc.left - chunk,
                             plan |-> Append(acc.plan, [id |-> w.id, start |-> w.cached, end |-> w.cached + chunk])]
    BY <1>1, <1>5 DEF TakeChunk
  <2>2. w.cached + chunk = w.prompt BY <1>2, <1>3
  <2> QED BY <1>2, <1>3, <2>1, <2>2
<1> QED BY <1>4, <1>5

\* A queue of prompts not begun, each of another request of E, for all of which
\* the budget and the chunk suffice.
Affords(S, order, budget, E, lens) ==
  /\ order \in Seq(S) /\ budget \in Int /\ IsFiniteSet(E) /\ E \subseteq Client
  /\ \A w \in S : w.id \in E /\ w.cached = 0 /\ w.prompt = Len(Prompt[w.id])
  /\ \A i, j \in 1..Len(order) : order[i].id = order[j].id => i = j
  /\ \A c \in E : Len(Prompt[c]) <= ChunkSize
  /\ \A c \in E : lens[c].device = Len(Prompt[c])
  /\ DeviceOf(lens, E) <= budget

\* A budget that holds all the prompts that wait is not cut.
LEMMA WholePlan ==
  ASSUME NEW S, NEW order, NEW budget, NEW E, NEW lens, Affords(S, order, budget, E, lens),
         NEW jobs, jobs = Taken([left |-> budget, plan |-> <<>>], order).plan
  PROVE  \A j \in 1..Len(jobs) : jobs[j].end = Len(Prompt[jobs[j].id])
<1>0. /\ order \in Seq(S) /\ budget \in Int /\ IsFiniteSet(E) /\ E \subseteq Client
      /\ \A w \in S : w.id \in E /\ w.cached = 0 /\ w.prompt = Len(Prompt[w.id])
      /\ \A i, j \in 1..Len(order) : order[i].id = order[j].id => i = j
      /\ \A c \in E : Len(Prompt[c]) <= ChunkSize
      /\ \A c \in E : lens[c].device = Len(Prompt[c])
      /\ DeviceOf(lens, E) <= budget
  BY DEF Affords
<1> DEFINE A == [left : Int, plan : Seq(Jobs)]
           base == [left |-> budget, plan |-> <<>>]
           Ids(k) == {order[i].id : i \in 1..k}
           AllWhole(p) == \A j \in 1..Len(p) : p[j].end = Len(Prompt[p[j].id])
<1>1. PICK n \in Nat : n = Len(order) BY <1>0
<1>2. \A k \in 1..n : /\ order[k] \in S /\ order[k].id \in E /\ order[k].id \in Client /\ order[k].cached = 0
                      /\ order[k].prompt = Len(Prompt[order[k].id]) /\ order[k].prompt \in Nat
                      /\ lens[order[k].id].device = order[k].prompt /\ order[k].prompt <= ChunkSize
  <2> TAKE k \in 1..n
  <2>1. order[k] \in S BY <1>0, <1>1
  <2>2. order[k].id \in E /\ order[k].cached = 0 /\ order[k].prompt = Len(Prompt[order[k].id]) BY <1>0, <2>1
  <2>3. order[k].id \in Client /\ Len(Prompt[order[k].id]) \in Nat BY <1>0, <2>2, LoopAssumption
  <2> QED BY <1>0, <2>1, <2>2, <2>3
<1>3. \A c \in E : lens[c].device \in Nat BY <1>0, LoopAssumption
<1>4. PICK pre : TakesTo(pre, base, order, A)
  <2>1. \A a \in A, i \in 1..Len(order) : TakeChunk(a, order[i]) \in A BY <1>0, <1>1, <1>2, TakeStep
  <2>2. base \in A BY <1>0
  <2> HIDE DEF A, base
  <2> QED BY <1>0, <2>1, <2>2, TakeFold
<1>5. /\ pre \in [0..n -> A] /\ pre[0] = base /\ jobs = pre[n].plan
      /\ \A k \in 1..n : pre[k] = TakeChunk(pre[k - 1], order[k])
  BY <1>1, <1>4 DEF TakesTo, Along
<1> DEFINE P == {k \in 0..n : AllWhole(pre[k].plan) /\ pre[k].left = budget - DeviceOf(lens, Ids(k))}
<1>6. 0 \in P
  <2>1. pre[0].plan = <<>> /\ pre[0].left = budget BY <1>5
  <2>2. Ids(0) = {} OBVIOUS
  <2>3. DeviceOf(lens, Ids(0)) = 0 BY <2>2, DeviceNone
  <2>4. AllWhole(<<>>) OBVIOUS
  <2>5. pre[0].left = budget - DeviceOf(lens, Ids(0)) BY <1>0, <2>1, <2>3
  <2>6. AllWhole(pre[0].plan) BY <2>1, <2>4
  <2> HIDE DEF AllWhole, Ids, base
  <2> QED BY <1>1, <2>5, <2>6
<1>7. ASSUME NEW k \in 1..n, k - 1 \in P PROVE k \in P
  <2>1. k \in 0..n /\ k - 1 \in 0..n OBVIOUS
  <2>2. PICK acc \in A : acc = pre[k - 1] BY <1>5, <2>1
  <2>3. PICK w \in S : w = order[k] BY <1>2
  <2>4. pre[k] = TakeChunk(acc, w) BY <1>5, <2>2, <2>3
  <2>5. AllWhole(acc.plan) /\ acc.left = budget - DeviceOf(lens, Ids(k - 1))
    <3> HIDE DEF AllWhole, Ids
    <3> QED BY <1>7, <2>2
  <2>6. /\ w.id \in E /\ w.id \in Client /\ w.cached = 0 /\ w.prompt = Len(Prompt[w.id]) /\ w.prompt \in Nat
        /\ lens[w.id].device = w.prompt /\ w.prompt <= ChunkSize
    BY <1>2, <2>3
  <2> DEFINE T == Ids(k - 1)
             U == Ids(k)
  <2>7. U = T \union {w.id} /\ w.id \notin T /\ U \subseteq E
    <3>1. \A i \in 1..k : i = k \/ i \in 1..(k - 1) OBVIOUS
    <3>2. \A i \in 1..(k - 1) : i \in 1..k /\ i \in 1..Len(order) /\ i # k /\ i \in 1..n BY <1>1
    <3>3. k \in 1..k /\ k \in 1..Len(order) BY <1>1
    <3>4. \A i \in 1..(k - 1) : order[i].id # order[k].id BY <1>0, <3>2, <3>3
    <3>5. U = T \union {order[k].id} BY <3>1, <3>2, <3>3
    <3>6. \A i \in 1..k : order[i].id \in E BY <1>2, <3>1, <3>2
    <3> QED BY <2>3, <3>4, <3>5, <3>6
  <2> HIDE DEF T, U
  <2>8. DeviceOf(lens, U) = w.prompt + DeviceOf(lens, T)
    <3>1. IsFiniteSet(U) BY <1>0, <2>7, FS_Subset
    <3>2. \A c \in U : lens[c].device \in Nat BY <1>3, <2>7
    <3> QED BY <2>6, <2>7, <3>1, <3>2, DeviceMore
  <2>9. /\ DeviceOf(lens, U) \in Nat /\ DeviceOf(lens, T) \in Nat /\ DeviceOf(lens, E) \in Nat
        /\ DeviceOf(lens, U) <= DeviceOf(lens, E)
    <3>0. T \subseteq E /\ E \ U \subseteq E BY <2>7
    <3>1. IsFiniteSet(U) /\ IsFiniteSet(T) /\ T \subseteq E /\ IsFiniteSet(E \ U) BY <1>0, <2>7, <3>0, FS_Subset
    <3>2. /\ DeviceOf(lens, U) \in Nat /\ DeviceOf(lens, T) \in Nat /\ DeviceOf(lens, E) \in Nat
          /\ DeviceOf(lens, E \ U) \in Nat
      <4>1. (\A c \in U : lens[c].device \in Nat) /\ (\A c \in T : lens[c].device \in Nat) BY <1>3, <2>7, <3>1
      <4>2. \A c \in E \ U : lens[c].device \in Nat BY <1>3
      <4>3. IsFiniteSet(E) BY <1>0
      <4> QED BY <1>3, <3>1, <4>1, <4>2, <4>3, DeviceType
    <3>3. DeviceOf(lens, E) = DeviceOf(lens, U) + DeviceOf(lens, E \ U)
      <4>1. U \in SUBSET E BY <2>7
      <4>2. IsFiniteSet(E) BY <1>0
      <4> QED BY <1>3, <4>1, <4>2, DeviceSplit
    <3> QED BY <3>2, <3>3
  <2>10. w.prompt <= acc.left /\ acc.left - w.prompt = budget - DeviceOf(lens, U)
    <3>1. acc.left = budget - DeviceOf(lens, T) BY <2>5 DEF T
    <3>2. PICK t, u, e, p, b, m : t = DeviceOf(lens, T) /\ u = DeviceOf(lens, U) /\ e = DeviceOf(lens, E)
                                 /\ p = w.prompt /\ b = budget /\ m = acc.left
      OBVIOUS
    <3>3. t \in Nat /\ u \in Nat /\ e \in Nat /\ p \in Nat /\ b \in Int BY <1>0, <2>6, <2>9, <3>2
    <3>4. m = b - t /\ u = p + t /\ u <= e /\ e <= b BY <1>0, <2>8, <2>9, <3>1, <3>2
    <3>5. p <= m /\ m - p = b - u BY <3>3, <3>4
    <3> QED BY <3>2, <3>5
  <2>11. /\ TakeChunk(acc, w).left = acc.left - w.prompt
         /\ \/ TakeChunk(acc, w).plan = acc.plan
            \/ TakeChunk(acc, w).plan = Append(acc.plan, [id |-> w.id, start |-> 0, end |-> w.prompt])
    <3>1. acc \in [left : Int, plan : Seq(Jobs)] OBVIOUS
    <3> QED BY <2>6, <2>10, <3>1, TakeWhole
  <2>12. pre[k].left = budget - DeviceOf(lens, Ids(k)) BY <2>4, <2>10, <2>11 DEF U
  <2>13. AllWhole(pre[k].plan)
    <3>1. CASE TakeChunk(acc, w).plan = acc.plan
      <4>1. pre[k].plan = acc.plan BY <2>4, <3>1
      <4> HIDE DEF AllWhole
      <4> QED BY <2>5, <4>1
    <3>2. CASE TakeChunk(acc, w).plan = Append(acc.plan, [id |-> w.id, start |-> 0, end |-> w.prompt])
      <4>1. PICK job : job = [id |-> w.id, start |-> 0, end |-> w.prompt] OBVIOUS
      <4>2. job \in Jobs /\ job.end = Len(Prompt[job.id]) BY <2>6, <4>1 DEF Jobs
      <4>3. PICK old \in Seq(Jobs) : old = acc.plan OBVIOUS
      <4>4. PICK m \in Nat : m = Len(old) OBVIOUS
      <4>5. PICK new : new = pre[k].plan OBVIOUS
      <4>6. new = Append(old, job) BY <2>4, <3>2, <4>1, <4>3, <4>5
      <4>7. Len(new) = m + 1 /\ (\A j \in 1..m : new[j] = old[j]) /\ new[m + 1] = job
        BY <4>2, <4>4, <4>6, AppendProperties
      <4>8. \A j \in 1..(m + 1) : j = m + 1 \/ j \in 1..m BY <4>4
      <4>9. \A j \in 1..m : old[j].end = Len(Prompt[old[j].id]) BY <2>5, <4>3, <4>4
      <4>10. \A j \in 1..Len(new) : new[j].end = Len(Prompt[new[j].id]) BY <4>2, <4>7, <4>8, <4>9
      <4> QED BY <4>5, <4>10
    <3> QED BY <2>11, <3>1, <3>2
  <2> HIDE DEF AllWhole, Ids
  <2> QED BY <2>1, <2>12, <2>13
<1>8. n \in P
  <2> HIDE DEF P
  <2>1. \A k \in 0..n : k \in P BY <1>6, <1>7, PrefixInduction
  <2> QED BY <2>1
<1>9. AllWhole(pre[n].plan)
  <2> HIDE DEF AllWhole, Ids
  <2> QED BY <1>8
<1> QED BY <1>5, <1>9

\* Two parts of a set add up to no more than the set.
LEMMA DeviceParts ==
  ASSUME NEW S, IsFiniteSet(S), NEW rs, \A c \in S : rs[c].device \in Nat,
         NEW T \in SUBSET S, NEW R \in SUBSET S, T \intersect R = {}
  PROVE  /\ DeviceOf(rs, T) \in Nat /\ DeviceOf(rs, R) \in Nat /\ DeviceOf(rs, S) \in Nat
         /\ DeviceOf(rs, T) + DeviceOf(rs, R) <= DeviceOf(rs, S)
<1> DEFINE U == S \ T
<1>1. IsFiniteSet(T) /\ IsFiniteSet(R) /\ IsFiniteSet(U) /\ IsFiniteSet(U \ R) BY FS_Subset
<1>2. R \in SUBSET U /\ \A c \in U : rs[c].device \in Nat OBVIOUS
<1>3. \A c \in T : rs[c].device \in Nat OBVIOUS
<1>4. \A c \in R : rs[c].device \in Nat OBVIOUS
<1>5. \A c \in U \ R : rs[c].device \in Nat OBVIOUS
<1>6. DeviceOf(rs, S) = DeviceOf(rs, T) + DeviceOf(rs, U) BY DeviceSplit
<1> HIDE DEF U
<1>7. DeviceOf(rs, U) = DeviceOf(rs, R) + DeviceOf(rs, U \ R) BY <1>1, <1>2, DeviceSplit
<1>8. DeviceOf(rs, T) \in Nat /\ DeviceOf(rs, R) \in Nat /\ DeviceOf(rs, U \ R) \in Nat
  BY <1>1, <1>3, <1>4, <1>5, DeviceType
<1> QED BY <1>6, <1>7, <1>8

-----------------------------------------------------------------------------
(* What is selected from an ample pool *)

LEMMA SmallFacts ==
  ASSUME Inv, Whole, NEW c \in Accepted
  PROVE  /\ c \in Client /\ reqs[c] \in Request /\ Small(c, reqs[c])
         /\ Len(Prompt[c]) \in Nat /\ MaxTokens[c] \in Nat
         /\ c \in Queued => reqs[c].cached = 0 /\ reqs[c].device = 0
         /\ c \in decoding => reqs[c].st = "Decode"
<1>1. c \in Client /\ reqs[c] \in Request BY Views DEF Inv
<1>2. Len(Prompt[c]) \in Nat /\ MaxTokens[c] \in Nat BY <1>1, LoopAssumption
<1>3. Small(c, reqs[c]) BY DEF Whole
<1>4. ASSUME c \in Queued PROVE reqs[c].cached = 0 /\ reqs[c].device = 0
  <2>1. LiveOK(c) BY <1>4 DEF Queued, Inv, RecordsOK
  <2>2. reqs[c].st \in {"Waiting", "Preempted"} BY <1>3, <1>4, <2>1 DEF Queued, LiveOK, Small
  <2> QED BY <2>1, <2>2 DEF LiveOK
<1>5. c \in decoding => reqs[c].st = "Decode" BY DEF Inv, TablesOK, Queued
<1> QED BY <1>1, <1>2, <1>3, <1>4, <1>5

\* What is held, the tokens to decode and the prompts to prefill fit in the pool.
LEMMA StepFits ==
  ASSUME Inv, Whole, Ample, NEW E \in SUBSET Queued,
         NEW lens, lens = [c \in Client |-> [device |-> Len(Prompt[c])]]
  PROVE  /\ DeviceOf(lens, E) \in Nat /\ Cardinality(decoding) \in Nat
         /\ DeviceOf(lens, E) + Cardinality(decoding) <= StepBudget
<1> DEFINE extra == [c \in Client |-> [device |-> IF c \in E THEN Len(Prompt[c])
                                                 ELSE IF c \in decoding THEN 1 ELSE 0]]
<1>1. /\ Accepted \subseteq Client /\ Queued \subseteq Accepted /\ decoding \subseteq Accepted /\ E \subseteq Accepted
      /\ decoding \intersect Queued = {} /\ IsFiniteSet(Client) /\ IsFiniteSet(Accepted)
  BY Views DEF Inv, Shape, TablesOK, Queued
<1>2. IsFiniteSet(E) /\ IsFiniteSet(decoding) BY <1>1, FS_Subset
<1>3. \A c \in Client : /\ Len(Prompt[c]) \in Nat /\ MaxTokens[c] \in Nat
                        /\ lens[c].device = Len(Prompt[c]) /\ lens[c].device \in Nat
                        /\ Demand[c].device = Len(Prompt[c]) + MaxTokens[c] + 1 /\ Demand[c].device \in Nat
                        /\ extra[c].device = (IF c \in E THEN Len(Prompt[c]) ELSE IF c \in decoding THEN 1 ELSE 0)
                        /\ extra[c].device \in Nat
  BY LoopAssumption DEF Demand
<1> HIDE DEF extra
<1>4. ASSUME NEW c \in Accepted
      PROVE  /\ reqs[c].device \in Nat /\ extra[c].device \in Nat /\ Demand[c].device \in Nat
             /\ reqs[c].device + extra[c].device <= Demand[c].device
  <2>1. /\ Small(c, reqs[c]) /\ reqs[c].device \in Nat
        /\ c \in Queued => reqs[c].device = 0
        /\ c \in decoding => reqs[c].st = "Decode"
    BY SmallFacts, RequestFields
  <2> QED BY <1>1, <1>3, <2>1 DEF Small
<1>5. DeviceOf(reqs, Accepted) + DeviceOf(extra, Accepted) <= DeviceOf(Demand, Accepted)
  BY <1>1, <1>4, DeviceTogether
<1>6. DeviceOf(Demand, Accepted) <= DeviceOf(Demand, Client) /\ DeviceOf(Demand, Client) \in Nat
      /\ DeviceOf(Demand, Accepted) \in Nat
  <2>1. \A c \in Client : Demand[c].device \in Nat BY <1>3
  <2>2. Accepted \in SUBSET Client /\ {} \in SUBSET Client /\ Accepted \intersect {} = {} BY <1>1
  <2>3. /\ DeviceOf(Demand, Accepted) \in Nat /\ DeviceOf(Demand, {}) \in Nat /\ DeviceOf(Demand, Client) \in Nat
        /\ DeviceOf(Demand, Accepted) + DeviceOf(Demand, {}) <= DeviceOf(Demand, Client)
    BY <1>1, <2>1, <2>2, DeviceParts
  <2> QED BY <2>3
<1>7. /\ DeviceOf(extra, E) \in Nat /\ DeviceOf(extra, decoding) \in Nat /\ DeviceOf(extra, Accepted) \in Nat
      /\ DeviceOf(extra, E) + DeviceOf(extra, decoding) <= DeviceOf(extra, Accepted)
  <2>1. \A c \in Accepted : extra[c].device \in Nat BY <1>4
  <2>2. E \in SUBSET Accepted /\ decoding \in SUBSET Accepted /\ E \intersect decoding = {} BY <1>1
  <2> QED BY <1>1, <2>1, <2>2, DeviceParts
<1>8. DeviceOf(extra, E) = DeviceOf(lens, E)
  <2>1. \A c \in E : lens[c].device \in Nat BY <1>1, <1>3
  <2>2. \A c \in E : extra[c].device = lens[c].device BY <1>1, <1>3
  <2> QED BY <1>2, <2>1, <2>2, DeviceSame
<1>9. DeviceOf(extra, decoding) = Cardinality(decoding) /\ Cardinality(decoding) \in Nat
  <2>1. \A c \in decoding : extra[c].device = 1 BY <1>1, <1>3
  <2> QED BY <1>2, <2>1, DeviceCounts, FS_CardinalityType
<1>10. DeviceOf(reqs, Accepted) \in Nat
  <2>1. \A c \in Accepted : reqs[c].device \in Nat BY <1>4
  <2> QED BY <1>1, <2>1, DeviceType
<1>11. KvUsage = DeviceOf(reqs, Accepted) BY DEF KvUsage, Device, Accepted
<1>12. PICK pool : pool = PoolTokens OBVIOUS
<1>13. pool \in Int /\ DeviceOf(Demand, Client) <= pool
  <2>1. MaxLen + Block - 1 \in Int /\ Block \in Nat \ {0} BY ConfigAssumption
  <2>2. PagesFor(MaxLen) \in Int BY <2>1 DEF PagesFor
  <2>3. WindowPages \in Int BY <2>2, ConfigAssumption DEF WindowPages, LayerPages
  <2> QED BY <1>12, <2>3, ConfigAssumption DEF PoolTokens, Ample
<1>14. PICK use \in Nat, l \in Nat, n \in Nat :
         use = KvUsage /\ l = DeviceOf(lens, E) /\ n = Cardinality(decoding)
  BY <1>7, <1>8, <1>9, <1>10, <1>11
<1>15. use + (l + n) <= pool
  <2>1. PICK a \in Nat, b \in Nat, z \in Nat :
          a = DeviceOf(extra, Accepted) /\ b = DeviceOf(Demand, Accepted) /\ z = DeviceOf(Demand, Client)
    BY <1>6, <1>7
  <2>2. use + a <= b BY <1>5, <1>11, <1>14, <2>1
  <2>3. b <= z BY <1>6, <2>1
  <2>4. l + n <= a BY <1>7, <1>8, <1>9, <1>14, <2>1
  <2>5. z <= pool BY <1>13, <2>1
  <2> QED BY <1>13, <2>2, <2>3, <2>4, <2>5
<1>16. StepBudget = IF use >= pool THEN 0 ELSE pool - use BY <1>12, <1>14 DEF StepBudget
<1>17. l + n <= StepBudget BY <1>13, <1>14, <1>15, <1>16
<1> QED BY <1>14, <1>17

LEMMA SelectionWhole ==
  ASSUME Inv, Whole, Ample
  PROVE  \A i \in 1..Len(Selection.prefill) : Selection.prefill[i].end = Len(Prompt[Selection.prefill[i].id])
<1>1. PICK W, D : Choice(W, D) BY SelectionIs
<1>2. PICK budget \in Nat : budget = StepBudget BY BudgetType
<1>3. PICK E : E = Admission.eligible OBVIOUS
<1>4. E \in SUBSET Queued /\ E \subseteq Client /\ E \subseteq Accepted /\ IsFiniteSet(E)
  <2>1. E \subseteq Queued BY <1>3, AdmissionFacts
  <2>2. Queued \subseteq Accepted /\ Accepted \subseteq Client /\ IsFiniteSet(Client)
    BY Views DEF Inv, Shape, Queued
  <2> QED BY <2>1, <2>2, FS_Subset
<1>5. PICK n, d : n \in Nat /\ n = Cardinality(decoding) /\ d = Cardinality(D)
  <2>1. decoding \subseteq Client /\ IsFiniteSet(Client) BY Views DEF Inv, Shape, TablesOK
  <2> QED BY <2>1, FS_Subset, FS_CardinalityType
<1>6. d \in Nat /\ d <= n
  <2>1. IsFiniteSet(D) BY <1>1 DEF Choice, Candidates
  <2>2. d \in Nat BY <1>5, <2>1, FS_CardinalityType
  <2> QED BY <1>1, <1>5, <2>2 DEF Choice
<1>7. PICK keep : keep = Min({d, budget}) OBVIOUS
<1>8. keep \in Nat /\ keep <= n
  <2>1. d \in Int /\ budget \in Int BY <1>6
  <2>2. keep \in {d, budget} /\ keep <= d BY <1>7, <2>1, MinOfTwo
  <2> QED BY <1>5, <1>6, <2>2
<1>9. PICK left \in Int : left = budget - keep BY <1>8
<1>10. PICK lens : lens = [c \in Client |-> [device |-> Len(Prompt[c])]] OBVIOUS
<1>11. DeviceOf(lens, E) <= left
  <2>1. /\ DeviceOf(lens, E) \in Nat
        /\ DeviceOf(lens, E) + n <= budget
    BY <1>2, <1>4, <1>5, <1>10, StepFits
  <2> QED BY <1>5, <1>8, <1>9, <2>1
<1>12. PICK line : line = OrderWaiting(W) OBVIOUS
<1>13. line \in Seq(W) /\ Distinct(line) /\ \A i, j \in 1..Len(line) : line[i].id = line[j].id => i = j
  <2>1. line \in Seq(W) /\ Distinct(line) BY <1>1, <1>12, WaitingOrder DEF Choice
  <2>2. ASSUME NEW i \in 1..Len(line), NEW j \in 1..Len(line), line[i].id = line[j].id PROVE i = j
    <3>1. line[i] \in W /\ line[j] \in W BY <2>1
    <3>2. line[i] = line[j] BY <1>1, <2>2, <3>1 DEF Choice, Candidates
    <3> QED BY <2>1, <3>2 DEF Distinct
  <2> QED BY <2>1, <2>2
<1>14. PICK jobs : jobs = Selection.prefill OBVIOUS
<1>15. jobs = Taken([left |-> left, plan |-> <<>>], line).plan
  <2>1. jobs = SelectBatch(W, D, budget).prefill BY <1>1, <1>2, <1>14 DEF Choice
  <2> QED BY <1>5, <1>7, <1>9, <1>12, <2>1 DEF SelectBatch, Taken
<1>16. \A w \in W : w.id \in E /\ w.cached = 0 /\ w.prompt = Len(Prompt[w.id])
  <2> TAKE w \in W
  <2>1. w.id \in E /\ w.id \in Queued /\ w.cached = reqs[w.id].cached /\ w.prompt = Len(Prompt[w.id])
    BY <1>1, <1>3 DEF Choice
  <2>2. w.id \in Accepted BY <1>4, <2>1
  <2> QED BY <2>1, <2>2, SmallFacts
<1>17. \A c \in E : Len(Prompt[c]) <= ChunkSize /\ lens[c].device = Len(Prompt[c]) BY <1>4, <1>10 DEF Ample
<1>18. Affords(W, line, left, E, lens) BY <1>4, <1>11, <1>13, <1>16, <1>17 DEF Affords
<1>19. \A j \in 1..Len(jobs) : jobs[j].end = Len(Prompt[jobs[j].id]) BY <1>15, <1>18, WholePlan
<1> QED BY <1>14, <1>19

-----------------------------------------------------------------------------
(* Prompts stay whole *)

LEMMA WholeMoves ==
  ASSUME Inv, \A c \in Accepted' : Small(c, reqs'[c]), Whole,
         plan' = plan \/ (plan # <<>> /\ plan' = Tail(plan))
  PROVE  Whole'
<1>1. PICK jobs, rest : jobs = plan /\ rest = plan' OBVIOUS
<1>2. jobs \in Seq(Jobs) /\ \A i \in 1..Len(jobs) : jobs[i].end = Len(Prompt[jobs[i].id])
  BY <1>1, Views DEF Inv, Shape, Whole
<1>3. \A i \in DOMAIN rest : rest[i].end = Len(Prompt[rest[i].id])
  <2>1. CASE rest = jobs
    <3>1. DOMAIN jobs = 1..Len(jobs) BY <1>2
    <3> QED BY <1>2, <2>1, <3>1
  <2>2. CASE jobs # <<>> /\ rest = Tail(jobs)
    <3>1. PICK n \in Nat : n = Len(jobs) BY <1>2
    <3>2. /\ rest \in Seq(Jobs) /\ Len(rest) = n - 1
          /\ \A i \in 1..(n - 1) : rest[i] = jobs[i + 1] /\ i + 1 \in 1..n
      BY <1>2, <2>2, <3>1, TailFacts
    <3>3. DOMAIN rest = 1..(n - 1) BY <3>1, <3>2
    <3> QED BY <1>2, <3>1, <3>2, <3>3
  <2> QED BY <1>1, <2>1, <2>2
<1> QED BY <1>1, <1>3 DEF Whole

LEMMA SmallAborts ==
  ASSUME NEW c, NEW r \in Request, r.device <= Len(Prompt[c]) + MaxTokens[c] + 1
  PROVE  Small(c, Abort(r))
<1>1. CASE Terminal(r)
  <2>1. Abort(r) = r BY <1>1 DEF Abort
  <2> QED BY <1>1, <2>1 DEF Terminal, Small
<1>2. CASE ~Terminal(r)
  <2>1. Abort(r) = [r EXCEPT !.st = "Aborted", !.released = TRUE] BY <1>2 DEF Abort
  <2>2. Abort(r).st = "Aborted" /\ Abort(r).device = r.device BY <2>1 DEF Request
  <2> QED BY <2>2 DEF Small
<1> QED BY <1>1, <1>2

LEMMA SmallAborted ==
  ASSUME Inv, Whole, NEW ids, NEW rs, DOMAIN rs = Accepted, AbortReqs(ids, rs),
         \A c \in Accepted : IF c \in ids THEN rs[c] \in Request /\ rs[c].device <= Len(Prompt[c]) + MaxTokens[c] + 1
                             ELSE rs[c] = reqs[c]
  PROVE  \A c \in Accepted' : Small(c, reqs'[c])
<1>1. reqs' = [c \in Accepted |-> IF c \in ids THEN Abort(rs[c]) ELSE rs[c]] BY DEF AbortReqs
<1>2. Accepted' = Accepted BY <1>1 DEF Accepted
<1> SUFFICES ASSUME NEW c \in Accepted PROVE Small(c, reqs'[c]) BY <1>2
<1>3. CASE c \in ids BY <1>1, <1>3, SmallAborts
<1>4. CASE c \notin ids BY <1>1, <1>4 DEF Whole
<1> QED BY <1>3, <1>4

LEMMA SmallOne ==
  ASSUME Whole, NEW c, NEW r, Small(c, r), reqs' = [d \in Accepted |-> IF d = c THEN r ELSE reqs[d]]
  PROVE  \A d \in Accepted' : Small(d, reqs'[d])
<1>1. Accepted' = Accepted BY DEF Accepted
<1> QED BY <1>1 DEF Whole

\* A chunk is the whole prompt.
LEMMA JobWhole ==
  ASSUME Inv, Whole, pc = "prefill", plan # <<>>
  PROVE  Job.start = 0 /\ JobEnd = Len(Prompt[Job.id]) /\ Job.id \in Accepted /\ Job.id \in Client /\ Starting
<1>1. Job.id \in Queued /\ Job.id \in Accepted /\ Job.start = reqs[Job.id].cached
      /\ reqs[Job.id].st \in {"Waiting", "Chunked", "Preempted"}
  BY JobFacts
<1>2. Job.id \in Client /\ Small(Job.id, reqs[Job.id]) /\ reqs[Job.id].cached = 0 BY <1>1, SmallFacts
<1>3. Job.end = Len(Prompt[Job.id])
  <2>1. plan \in Seq(Jobs) /\ DOMAIN plan = 1..Len(plan) BY Views DEF Inv, Shape
  <2>2. Job = plan[1] /\ 1 \in DOMAIN plan BY <2>1, TailFacts DEF Job
  <2> QED BY <2>2 DEF Whole
<1>4. Len(Prompt[Job.id]) \in Nat BY <1>2, LoopAssumption
<1>5. JobEnd = Len(Prompt[Job.id]) BY <1>3, <1>4 DEF JobEnd, AlignChunkEnd
<1> QED BY <1>1, <1>2, <1>5 DEF Starting, Small

LEMMA JobSmall ==
  ASSUME Inv, Whole, pc = "prefill", plan # <<>>, Runnable
  PROVE  /\ JobReq \in Request /\ JobReq.device = Len(Prompt[Job.id]) /\ Confirm(JobReq) \in Request
         /\ Confirm(JobReq).device = Len(Prompt[Job.id]) /\ Small(Job.id, Confirm(JobReq))
<1>1. /\ Job.start = 0 /\ JobEnd = Len(Prompt[Job.id]) /\ Job.id \in Accepted /\ Job.id \in Client /\ Starting
      /\ JobEnd > Job.start
  BY JobWhole DEF Runnable
<1>0. PICK c \in Accepted : c = Job.id BY <1>1
<1>2. PICK q \in Request, l \in Nat, m \in Nat : q = reqs[c] /\ l = Len(Prompt[c]) /\ m = MaxTokens[c]
  BY SmallFacts
<1>3. /\ JobReq \in Request /\ JobReq.device = JobEnd
      /\ Confirm(JobReq) \in Request /\ Confirm(JobReq).device = JobEnd
  BY <1>1, JobReqFacts
<1>4. JobEnd - Job.start = l BY <1>0, <1>1, <1>2
<1>5. JobReq = StartPrefill(q, l, m, l) BY <1>0, <1>1, <1>2, <1>4 DEF JobReq
<1>6. PICK r \in Request : r = JobReq BY <1>3
<1>7. r.st = "Prefill" /\ r.prompt = l /\ r.maxOut = m /\ r.device = l
  <2>1. StartPrefill(q, l, m, l) = [q EXCEPT !.prompt = l, !.maxOut = m, !.cached = 0, !.device = l,
                                             !.st = "Prefill", !.resume = FALSE]
    <3>1. l >= l /\ ~(l < l) OBVIOUS
    <3> QED BY <3>1 DEF StartPrefill
  <2>2. r = StartPrefill(q, l, m, l) BY <1>5, <1>6
  <2> QED BY <2>1, <2>2 DEF Request
<1>8. PICK s : s = Confirm(r) OBVIOUS
<1>9. s.st = "Decode" /\ s.prompt = l /\ s.device = l /\ s.maxOut = m
  <2>1. s = [r EXCEPT !.cached = r.device, !.st = IF r.device >= r.prompt THEN "Decode" ELSE @]
    BY <1>8 DEF Confirm
  <2> QED BY <1>7, <2>1 DEF Request
<1>10. Small(c, s) BY <1>2, <1>9 DEF Small
<1> QED BY <1>0, <1>1, <1>2, <1>3, <1>6, <1>8, <1>10

LEMMA PrefillWhole ==
  ASSUME Inv, Whole, PrefillPutOff \/ PrefillFails \/ PrefillConfirmed
  PROVE  Whole'
<1>1. CASE PrefillPutOff
  <2>1. reqs' = reqs /\ plan # <<>> /\ plan' = Tail(plan) BY <1>1 DEF PrefillPutOff, PrefillStep
  <2>2. \A c \in Accepted' : Small(c, reqs'[c]) BY <2>1 DEF Whole, Accepted
  <2> QED BY <2>1, <2>2, WholeMoves
<1>2. ASSUME NEW r \in {JobReq, Confirm(JobReq)}, NEW x, PrefillAborts(r, x) PROVE Whole'
  <2>1. /\ pc = "prefill" /\ plan # <<>> /\ plan' = Tail(plan) /\ Runnable
        /\ AbortReqs({Job.id}, WithReq(r))
    BY <1>2 DEF PrefillAborts, PrefillStep
  <2>2. r \in Request /\ r.device = Len(Prompt[Job.id]) BY <2>1, JobSmall
  <2>3. Job.id \in Accepted /\ Len(Prompt[Job.id]) \in Nat /\ MaxTokens[Job.id] \in Nat
    BY <2>1, JobWhole, SmallFacts
  <2>4. PICK c, rs : c = Job.id /\ rs = WithReq(r) OBVIOUS
  <2>5. rs = [d \in Accepted |-> IF d = c THEN r ELSE reqs[d]] BY <2>4 DEF WithReq, Accepted
  <2>6. \A d \in Accepted : IF d \in {c} THEN rs[d] \in Request /\ rs[d].device <= Len(Prompt[d]) + MaxTokens[d] + 1
                            ELSE rs[d] = reqs[d]
    BY <2>2, <2>3, <2>4, <2>5
  <2>7. DOMAIN rs = Accepted /\ AbortReqs({c}, rs) BY <2>1, <2>4, <2>5
  <2>8. \A d \in Accepted' : Small(d, reqs'[d]) BY <2>6, <2>7, SmallAborted
  <2> QED BY <2>1, <2>8, WholeMoves
<1>3. CASE PrefillFails BY <1>2, <1>3 DEF PrefillFails
<1>4. CASE PrefillConfirmed
  <2>1. /\ pc = "prefill" /\ plan # <<>> /\ plan' = Tail(plan) /\ Runnable
        /\ reqs' = WithReq(Confirm(JobReq))
    BY <1>4 DEF PrefillConfirmed, PrefillStep
  <2>2. PICK c, r : c = Job.id /\ r = Confirm(JobReq) OBVIOUS
  <2>3. Small(c, r) BY <2>1, <2>2, JobSmall
  <2>4. reqs' = [d \in Accepted |-> IF d = c THEN r ELSE reqs[d]] BY <2>1, <2>2 DEF WithReq, Accepted
  <2>5. \A d \in Accepted' : Small(d, reqs'[d]) BY <2>3, <2>4, SmallOne
  <2> QED BY <2>1, <2>5, WholeMoves
<1> QED BY <1>1, <1>3, <1>4

LEMMA AdmitWhole == ASSUME Inv, Whole, Ample, AdmitSchedule PROVE Whole'
<1>1. PICK ids : ids = Range(Selection.preempted) OBVIOUS
<1>2. /\ reqs' = [c \in Accepted |-> IF c \in ids THEN Preempt(reqs[c]) ELSE reqs[c]]
      /\ plan' = Selection.prefill
  BY <1>1 DEF AdmitSchedule, Accepted
<1>3. Accepted' = Accepted BY <1>2 DEF Accepted
<1>4. ASSUME NEW c \in Accepted PROVE Small(c, reqs'[c])
  <2>1. /\ reqs[c] \in Request /\ Small(c, reqs[c]) /\ Len(Prompt[c]) \in Nat /\ MaxTokens[c] \in Nat
    BY SmallFacts
  <2>2. CASE c \in ids
    <3>1. reqs'[c] = Preempt(reqs[c]) BY <1>2, <2>2
    <3>2. Preempt(reqs[c]).st = "Preempted" /\ Preempt(reqs[c]).device = 0 BY <2>1, PreemptFields
    <3>3. 0 <= Len(Prompt[c]) + MaxTokens[c] + 1 BY <2>1
    <3> QED BY <3>1, <3>2, <3>3 DEF Small
  <2>3. CASE c \notin ids BY <1>2, <2>1, <2>3
  <2> QED BY <2>2, <2>3
<1>5. PICK jobs : jobs = Selection.prefill OBVIOUS
<1>6. jobs \in Seq(Jobs) /\ \A i \in 1..Len(jobs) : jobs[i].end = Len(Prompt[jobs[i].id])
  BY <1>5, SelectionFacts, SelectionWhole
<1>7. \A i \in DOMAIN plan' : plan'[i].end = Len(Prompt[plan'[i].id])
  <2>1. DOMAIN jobs = 1..Len(jobs) /\ plan' = jobs BY <1>2, <1>5, <1>6
  <2> QED BY <1>6, <2>1
<1> QED BY <1>3, <1>4, <1>7 DEF Whole

LEMMA ConfirmWhole ==
  ASSUME Inv, Whole, NEW c,
         \/ SampleFails(c)
         \/ \E token \in Vocab : TokenConfirmed(c, token)
         \/ \E kind \in {"token", "eos", "stop"} : Ends(c, kind)
  PROVE  Whole'
<1>1. pc = "confirm" /\ c \in batch /\ plan' = plan BY DEF SampleFails, TokenConfirmed, Ends, ConfirmOf
<1>2. c \in decoding /\ c \in Live /\ c \in Accepted BY <1>1 DEF Inv, TablesOK, Shape
<1>3. PICK r \in Request, l \in Nat, m \in Nat : r = reqs[c] /\ l = Len(Prompt[c]) /\ m = MaxTokens[c]
  BY <1>2, SmallFacts
<1>4. /\ r.st = "Decode" /\ r.prompt = l /\ r.maxOut = m /\ r.device <= l + m /\ r.device = r.cached
      /\ r.cached \in Nat
  <2>1. r.st = "Decode" /\ Small(c, r) BY <1>2, <1>3, SmallFacts
  <2>2. LiveOK(c) BY <1>2 DEF Inv, RecordsOK
  <2>3. r.device = r.cached BY <1>3, <2>2 DEF LiveOK
  <2> QED BY <1>3, <2>1, <2>3, RequestFields DEF Small
<1>5. reqs = [d \in Accepted |-> reqs[d]] BY DEF Inv, Shape
<1>6. ASSUME NEW q, reqs' = [reqs EXCEPT ![c] = q], Small(c, q) PROVE Whole'
  <2>1. reqs' = [d \in Accepted |-> IF d = c THEN q ELSE reqs[d]] BY <1>2, <1>5, <1>6
  <2>2. \A d \in Accepted' : Small(d, reqs'[d]) BY <1>6, <2>1, SmallOne
  <2> QED BY <1>1, <2>2, WholeMoves
<1>7. ASSUME NEW q \in Request, AbortReqs({c}, [reqs EXCEPT ![c] = q]), q.device <= l + m + 1 PROVE Whole'
  <2>1. PICK rs : rs = [reqs EXCEPT ![c] = q] OBVIOUS
  <2>2. DOMAIN rs = Accepted /\ \A d \in Accepted : rs[d] = IF d = c THEN q ELSE reqs[d]
    BY <1>2, <1>5, <2>1
  <2>3. \A d \in Accepted : IF d \in {c} THEN rs[d] \in Request /\ rs[d].device <= Len(Prompt[d]) + MaxTokens[d] + 1
                            ELSE rs[d] = reqs[d]
    BY <1>3, <1>7, <2>2
  <2>4. AbortReqs({c}, rs) BY <1>7, <2>1
  <2>5. \A d \in Accepted' : Small(d, reqs'[d]) BY <2>2, <2>3, <2>4, SmallAborted
  <2> QED BY <1>1, <2>5, WholeMoves
<1>8. CASE SampleFails(c)
  <2>1. AbortReqs({c}, reqs) BY <1>8 DEF SampleFails
  <2>2. [reqs EXCEPT ![c] = r] = reqs BY <1>2, <1>3, <1>5
  <2>3. r.device <= l + m + 1 BY <1>4
  <2> QED BY <1>7, <2>1, <2>2, <2>3
<1>9. ASSUME NEW token, TokenConfirmed(c, token) PROVE Whole'
  <2>1. PICK q : q = DecodeStep(r, "token") OBVIOUS
  <2>2. DecodeEvent(r, "token") = "confirmed" BY <1>3, <1>9 DEF TokenConfirmed
  <2>3. /\ q \in Request /\ q.st = r.st /\ q.prompt = r.prompt
        /\ q.device = r.cached + 1 /\ q.cached = r.cached + 1
    BY <2>1, <2>2, TokenFields
  <2>4. r.cached + 1 <= l + m
    <3>1. ~(r.cached + 1 > r.prompt + r.maxOut) BY <2>2 DEF DecodeEvent
    <3> QED BY <1>4, <3>1
  <2>5. q.maxOut = r.maxOut
    <3>1. PICK sent : sent = [r EXCEPT !.device = r.cached + 1] OBVIOUS
    <3>2. q = [sent EXCEPT !.cached = sent.device] BY <2>1, <2>2, <3>1 DEF DecodeStep
    <3> QED BY <3>1, <3>2 DEF Request
  <2>6. Small(c, q) BY <1>3, <1>4, <2>3, <2>4, <2>5 DEF Small
  <2>7. q.device <= l + m + 1 BY <1>4, <2>3, <2>4
  <2>8. \/ AbortReqs({c}, [reqs EXCEPT ![c] = q])
        \/ reqs' = [reqs EXCEPT ![c] = q]
    BY <1>3, <1>9, <2>1 DEF TokenConfirmed
  <2> QED BY <1>6, <1>7, <2>3, <2>6, <2>7, <2>8
<1>10. ASSUME NEW kind, Ends(c, kind) PROVE Whole'
  <2>1. PICK d, q : d = DecodeStep(r, kind) /\ q = TakeRelease(d) OBVIOUS
  <2>2. reqs' = [reqs EXCEPT ![c] = q] /\ DecodeEvent(r, kind) # "confirmed" BY <1>3, <1>10, <2>1 DEF Ends
  <2>3. d.device = r.cached + 1 /\ q \in Request /\ Terminal(q) BY <2>1, <2>2, EndFields
  <2>4. d \in Request
    <3>1. d = Finished([r EXCEPT !.device = r.cached + 1]) BY <2>1, <2>2 DEF DecodeStep
    <3>2. [r EXCEPT !.device = r.cached + 1] \in Request BY <1>4 DEF Request
    <3> QED BY <3>1, <3>2 DEF Finished, Request, ReqState
  <2>5. q.device = d.device BY <2>1, <2>4 DEF TakeRelease, Request
  <2>6. Small(c, q) BY <1>3, <1>4, <2>3, <2>5 DEF Small, Terminal
  <2> QED BY <1>6, <2>2, <2>6
<1> QED BY <1>8, <1>9, <1>10

LEMMA SubmitWhole ==
  ASSUME Inv, Whole, cmds # <<>>, Head(cmds).op = "submit", NEW c, c = Head(cmds).id, Submit(c),
         plan' = plan
  PROVE  Whole'
<1>1. c \in Client /\ c \notin Accepted BY SubmitFacts
<1>2. CASE reqs' = reqs
  <2>1. \A d \in Accepted' : Small(d, reqs'[d]) BY <1>2 DEF Whole, Accepted
  <2> QED BY <2>1, WholeMoves
<1>3. CASE reqs' # reqs
  <2>1. reqs' = [d \in Accepted \union {c} |-> IF d = c THEN NewReq ELSE reqs[d]]
    BY <1>3 DEF Submit, books, Accepted
  <2>2. Accepted' = Accepted \union {c} BY <2>1 DEF Accepted
  <2>3. Len(Prompt[c]) \in Nat /\ MaxTokens[c] \in Nat BY <1>1, LoopAssumption
  <2>4. NewReq.device = 0 /\ NewReq.st = "Waiting" BY DEF NewReq
  <2>5. Small(c, NewReq) BY <2>3, <2>4 DEF Small
  <2>6. \A d \in Accepted' : Small(d, reqs'[d]) BY <1>1, <2>1, <2>2, <2>5 DEF Whole
  <2> QED BY <2>6, WholeMoves
<1> QED BY <1>2, <1>3

LEMMA AbortWhole == ASSUME Inv, Whole, NEW c, AbortCmd(c), plan' = plan PROVE Whole'
<1>1. CASE c \in Live
  <2>1. AbortReqs({c}, reqs) BY <1>1 DEF AbortCmd, Live
  <2>2. DOMAIN reqs = Accepted BY DEF Accepted
  <2>3. \A d \in Accepted : IF d \in {c} THEN reqs[d] \in Request /\ reqs[d].device <= Len(Prompt[d]) + MaxTokens[d] + 1
                            ELSE reqs[d] = reqs[d]
    BY SmallFacts DEF Small
  <2>4. \A d \in Accepted' : Small(d, reqs'[d]) BY <2>1, <2>2, <2>3, SmallAborted
  <2> QED BY <2>4, WholeMoves
<1>2. CASE c \notin Live
  <2>1. reqs' = reqs BY <1>2 DEF AbortCmd, Live, books
  <2>2. \A d \in Accepted' : Small(d, reqs'[d]) BY <2>1 DEF Whole, Accepted
  <2> QED BY <2>2, WholeMoves
<1> QED BY <1>1, <1>2

LEMMA CmdWhole == ASSUME Inv, Whole, HandleCmd PROVE Whole'
<1>1. PICK c : c = Head(cmds).id OBVIOUS
<1>2. cmds # <<>> /\ plan' = plan BY DEF HandleCmd
<1>3. \/ Head(cmds).op = "submit" /\ Submit(c)
      \/ AbortCmd(c)
      \/ UNCHANGED books
  BY <1>1 DEF HandleCmd
<1>4. CASE UNCHANGED books
  <2>1. reqs' = reqs BY <1>4 DEF books
  <2>2. \A d \in Accepted' : Small(d, reqs'[d]) BY <2>1 DEF Whole, Accepted
  <2> QED BY <1>2, <2>2, WholeMoves
<1> QED BY <1>1, <1>2, <1>3, <1>4, SubmitWhole, AbortWhole

LEMMA BatchFailWhole == ASSUME Inv, Whole, DecodeBatchFails PROVE Whole'
<1>1. AbortReqs(decoding, reqs) /\ plan' = plan BY DEF DecodeBatchFails
<1>2. DOMAIN reqs = Accepted BY DEF Accepted
<1>3. \A d \in Accepted : IF d \in decoding THEN reqs[d] \in Request /\ reqs[d].device <= Len(Prompt[d]) + MaxTokens[d] + 1
                          ELSE reqs[d] = reqs[d]
  BY SmallFacts DEF Small
<1>4. \A d \in Accepted' : Small(d, reqs'[d]) BY <1>1, <1>2, <1>3, SmallAborted
<1> QED BY <1>1, <1>4, WholeMoves

LEMMA NextWhole == ASSUME Inv, Whole, Ample, [Next]_vars PROVE Whole'
<1>1. ASSUME reqs' = reqs, plan' = plan PROVE Whole'
  <2>1. \A d \in Accepted' : Small(d, reqs'[d]) BY <1>1 DEF Whole, Accepted
  <2> QED BY <1>1, <2>1, WholeMoves
<1>2. CASE ClientNext
  <2>1. reqs' = reqs /\ plan' = plan
    BY <1>2 DEF ClientNext, SendSubmit, SendAbort, Disconnect, DropHandle, LoopIdle, books
  <2> QED BY <1>1, <2>1
<1>3. CASE UNCHANGED vars
  <2>1. reqs' = reqs /\ plan' = plan BY <1>3 DEF vars, books
  <2> QED BY <1>1, <2>1
<1>4. CASE DecodeBatchRuns
  <2>1. reqs' = reqs /\ plan' = plan BY <1>4 DEF DecodeBatchRuns, books
  <2> QED BY <1>1, <2>1
<1>5. ASSUME NEW c \in Client, NEW token \in Vocab, TokenConfirmed(c, token) PROVE Whole'
  BY <1>5, ConfirmWhole
<1>6. ASSUME NEW c \in Client, NEW kind \in {"token", "eos", "stop"}, Ends(c, kind) PROVE Whole'
  BY <1>6, ConfirmWhole
<1>7. ASSUME NEW c \in Client, SampleFails(c) PROVE Whole' BY <1>7, ConfirmWhole
<1>8. CASE LoopNext
  BY <1>4, <1>5, <1>6, <1>7, <1>8, CmdWhole, AdmitWhole, PrefillWhole, BatchFailWhole DEF LoopNext
<1> QED BY <1>2, <1>3, <1>8 DEF Next, AwaitCmd

\* A pool that holds every request at its longest, and a chunk that holds every
\* prompt: no step's budget (StepBudget, select_batch) ever cuts a prompt, so
\* all of them are prefilled from position 0 in one go, as the comment at
\* sched_loop.rs:93 takes for granted.
THEOREM AmplePoolsPrefillWhole == ASSUME Ample PROVE Spec => []WholePrefills
<1>1. Init => Whole
  <2> SUFFICES ASSUME Init PROVE Whole OBVIOUS
  <2>1. Accepted = {} /\ plan = <<>> BY DEF Init, Accepted
  <2>2. DOMAIN <<>> = {} OBVIOUS
  <2> QED BY <2>1, <2>2 DEF Whole
<1>2. Inv /\ Whole /\ [Next]_vars => Whole' BY NextWhole
<1>3. Inv /\ Whole => WholePrefills BY JobWhole DEF WholePrefills
<1> QED BY <1>1, <1>2, <1>3, LoopInvariant, PTL DEF Spec

\* With such a pool, and copies of the flush and the refill that succeed, all
\* the KV that a batch or a prefill reads is of the tokens it stands for, with
\* no condition on the behaviour.
THEOREM AmplePoolsKeepKv ==
  ASSUME {"flush", "refill"} \cap Failing = {}, Ample
  PROVE  Spec => [](KvFaithful /\ CacheFaithful)
<1>1. Spec => []WholePrefills BY AmplePoolsPrefillWhole
<1>2. Spec /\ []WholePrefills => []KvFaithful BY KvIsFaithful
<1>3. Spec /\ []WholePrefills => []CacheFaithful BY CacheIsFaithful
<1> QED BY <1>1, <1>2, <1>3, PTL
=============================================================================
