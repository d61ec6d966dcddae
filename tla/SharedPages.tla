----------------------------- MODULE SharedPages -----------------------------
(***************************************************************************)
(* What the KV page pool promises its callers, free list and placement     *)
(* left out: a page is handed to a new owner only while nobody references  *)
(* it, it can be shared by adding references to it, and it stays live      *)
(* until the last of its references is dropped.  KvSegmentPool implements  *)
(* this, and KvSegmentPool_proofs shows what the promise is worth: exact   *)
(* counts, no page freed under a holder, no mixed grant.                   *)
(***************************************************************************)
EXTENDS Integers, FiniteSets

CONSTANTS Page,     \* physical pages of the pool
          Holder    \* whoever can own references: requests, cached prefixes

VARIABLES refs,     \* reference count of every page
          hold      \* the pages each holder has one reference on

vars == <<refs, hold>>

Init == /\ refs = [p \in Page |-> 0]
        /\ hold = [h \in Holder |-> {}]

\* A fresh allocation: every page of S is unreferenced.
Grant(h, S) ==
  /\ hold[h] = {} /\ S # {}
  /\ \A p \in S : refs[p] = 0
  /\ refs' = [p \in Page |-> IF p \in S THEN 1 ELSE refs[p]]
  /\ hold' = [hold EXCEPT ![h] = S]

\* A further reference on pages that are live.
Share(h, S) ==
  /\ hold[h] = {} /\ S # {}
  /\ \A p \in S : refs[p] >= 1
  /\ refs' = [p \in Page |-> IF p \in S THEN refs[p] + 1 ELSE refs[p]]
  /\ hold' = [hold EXCEPT ![h] = S]

Release(h) ==
  /\ hold[h] # {}
  /\ refs' = [p \in Page |-> IF p \in hold[h] THEN refs[p] - 1 ELSE refs[p]]
  /\ hold' = [hold EXCEPT ![h] = {}]

Next == \E h \in Holder :
          \/ \E S \in SUBSET Page : Grant(h, S) \/ Share(h, S)
          \/ Release(h)

Spec == Init /\ [][Next]_vars

----------------------------------------------------------------------------
TypeOK == /\ refs \in [Page -> Nat]
          /\ hold \in [Holder -> SUBSET Page]

HoldersOf(p) == {h \in Holder : p \in hold[h]}

\* The count of a page is exactly the number of its holders: none is lost
\* when a holder leaves, none is left behind, and a page nobody holds is
\* free again (segment.rs, "Refcount").
RefsExact == \A p \in Page : refs[p] = Cardinality(HoldersOf(p))

\* Whoever starts to hold pages gets either pages nobody holds or pages
\* that are all held already: an allocation is wholly its owner's, and a
\* cached prefix is wholly shared.
NoMixedGrant ==
  \A h \in Holder :
    hold[h] = {} /\ hold'[h] # {} =>
      \/ \A p \in hold'[h] : HoldersOf(p) = {}
      \/ \A p \in hold'[h] : HoldersOf(p) # {}

\* A page is never freed under a holder: while some holder keeps a page, the
\* page keeps a reference.
NeverFreedUnderHolder == \A p \in Page : HoldersOf(p) # {} => refs[p] > 0
=============================================================================
