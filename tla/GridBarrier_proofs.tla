------------------------- MODULE GridBarrier_proofs -------------------------
(***************************************************************************)
(* Proofs about GridBarrier for any grid, any widths of the slots and any  *)
(* number of launches and of steps given up on.  OkIsSeparated is not      *)
(* inductive: it needs that, as long as no watchdog has left a record,     *)
(* nobody has crossed too soon, which needs that a counter says how many   *)
(* blocks have arrived, that a release follows the last arrival, and that  *)
(* a drained launch has left its counters at zero for the next one.        *)
(***************************************************************************)
EXTENDS GridBarrier, LayerGeometry, FiniteSetTheorems, WellFoundedInduction, TLAPS

Waiting == {"clear", "bump", "sample", "spin"}

Types ==
  /\ cnt \in [Slots -> Nat] /\ gen \in [Slots -> Nat] /\ err \in {0} \union Slots
  /\ pc \in [Blocks -> {"queued", "stage", "retired"} \union Waiting]
  /\ at \in [Blocks -> {0} \union Slots] /\ seen \in [Blocks -> Nat]
  /\ verdict \in {"none", "ok", "failed"} /\ broken \in BOOLEAN
  /\ arrived \in [Slots -> SUBSET Blocks]

\* A block is at a slot it takes part in.
AtOwnSlot ==
  \A b \in Blocks : pc[b] \in {"stage"} \union Waiting => at[b] \in Slots /\ b < Width[at[b]]

\* A judged step has drained; a failed one left a clean table.
Judged ==
  /\ verdict # "none" => Drained /\ layer = Layers /\ err = 0
  /\ verdict = "failed" => cnt = Clean
  /\ verdict = "ok" => ~broken

\* Where b is says which arrivals are its own.
HasPassed(b, k) == \/ pc[b] = "retired"
                   \/ pc[b] = "stage" /\ k < at[b]
                   \/ pc[b] \in Waiting /\ k <= at[b]
ArrivalsExact ==
  \A k \in Slots : /\ arrived[k] \subseteq Participants(k)
                   /\ \A b \in Participants(k) : b \in arrived[k] <=> HasPassed(b, k)

Full(k) == arrived[k] = Participants(k)

\* A release follows the last arrival, and one block makes it.
ReleaseAfterAll ==
  \A b \in Blocks :
    /\ pc[b] \in {"clear", "bump"} => Full(at[b])
    /\ pc[b] = "spin" /\ gen[at[b]] # seen[b] => Full(at[b])
    /\ pc[b] \in {"clear", "bump"} =>
         \A c \in Blocks : pc[c] \in {"clear", "bump"} /\ at[c] = at[b] => b = c

\* A counter says how many have arrived until the last one has cleared it.
CountExact ==
  \A k \in Slots : cnt[k] = IF Full(k) /\ ~(\E b \in Blocks : pc[b] = "clear" /\ at[b] = k)
                            THEN 0 ELSE Cardinality(arrived[k])

\* What holds of a step without a record; after a failed step, of the next.
Sound == ~broken /\ ArrivalsExact /\ ReleaseAfterAll /\ CountExact

IInv == Types /\ AtOwnSlot /\ Judged /\ (err = 0 /\ verdict # "failed" => Sound)

-----------------------------------------------------------------------------
(* Slots and blocks *)

LEMMA WidthFacts ==
  /\ Slots \subseteq Nat \ {0}
  /\ \A k \in Slots : Width[k] \in Nat \ {0} /\ Width[k] <= Grid
  /\ Grid \in Nat \ {0} /\ Layers \in Nat \ {0} /\ GenMod \in Nat \ {0, 1}
  /\ Blocks \subseteq Nat
BY BarrierAssumption DEF Slots, Blocks

\* A slot has as many participants as its width says.
LEMMA ParticipantsCount ==
  ASSUME NEW k \in Slots
  PROVE  IsFiniteSet(Participants(k)) /\ Cardinality(Participants(k)) = Width[k]
<1>1. Participants(k) = 0 .. (Width[k] - 1)
  BY WidthFacts DEF Participants, Blocks
<1>2. 0 \in Int /\ Width[k] - 1 \in Int /\ ~(0 > Width[k] - 1) /\ Width[k] - 1 - 0 + 1 = Width[k]
  BY WidthFacts
<1>3. /\ IsFiniteSet(0 .. (Width[k] - 1))
      /\ Cardinality(0 .. (Width[k] - 1)) = Width[k]
  BY <1>2, FS_Interval
<1> QED BY <1>1, <1>3

\* A non-empty set of naturals has a least element.
LEMMA LeastNatural ==
  ASSUME NEW T, T \subseteq Nat, T # {}
  PROVE  \E x \in T : \A y \in T : x <= y
<1> DEFINE R == OpToRel(<, Nat)
<1>1. IsWellFoundedOn(R, Nat) BY NatLessThanWellFounded
<1>2. PICK x \in T : \A y \in T : <<y, x>> \notin R
  <2> HIDE DEF R
  <2> QED BY <1>1, WFMin
<1>3. \A y \in T : <<y, x>> \in R <=> y < x
  BY <1>2 DEF OpToRel
<1> HIDE DEF R
<1>4. ASSUME NEW y \in T PROVE x <= y
  <2>1. ~(y < x) BY <1>2, <1>3, <1>4
  <2>2. x \in Nat /\ y \in Nat BY <1>2, <1>4
  <2> QED BY <2>1, <2>2
<1> QED BY <1>2, <1>4

\* The next slot is one the block takes part in, and it skips none of those.
LEMMA NearestSlot ==
  ASSUME NEW b \in Blocks, NEW k \in {0} \union Slots, Ahead(b, k) # {}
  PROVE  LET j == Nearest(Ahead(b, k))
         IN  j \in Slots /\ j > k /\ b < Width[j] /\ \A i \in Ahead(b, k) : j <= i
<1>1. Ahead(b, k) \subseteq Nat BY WidthFacts DEF Ahead
<1>2. PICK x \in Ahead(b, k) : \A i \in Ahead(b, k) : x <= i
  BY <1>1, LeastNatural
<1>3. Nearest(Ahead(b, k)) \in Ahead(b, k) /\ \A i \in Ahead(b, k) : Nearest(Ahead(b, k)) <= i
  BY <1>2 DEF Nearest
<1> QED BY <1>3 DEF Ahead

-----------------------------------------------------------------------------
(* The steps *)

USE DEF Waiting, vars, tvars

\* A barrier table that starts clean satisfies the invariant.
LEMMA InitInv == Init => IInv
<1> SUFFICES ASSUME Init PROVE IInv OBVIOUS
<1>1. Types BY WidthFacts DEF Types, Init, Clean
<1>2. AtOwnSlot /\ Judged BY DEF AtOwnSlot, Judged, Init
<1>3. ArrivalsExact BY DEF ArrivalsExact, HasPassed, Init, Participants
<1>4. ReleaseAfterAll BY DEF ReleaseAfterAll, Init
<1>5. CountExact BY FS_EmptySet DEF CountExact, Init, Clean
<1> QED BY <1>1, <1>2, <1>3, <1>4, <1>5 DEF IInv, Sound, Init

\* Going on from a slot keeps types and places.
LEMMA MoveTypes ==
  ASSUME Types, AtOwnSlot, NEW b \in Blocks, NEW k \in {0} \union Slots, MoveOn(b, k)
  PROVE  /\ pc' \in [Blocks -> {"queued", "stage", "retired"} \union Waiting]
         /\ at' \in [Blocks -> {0} \union Slots]
         /\ AtOwnSlot'
<1>1. CASE Ahead(b, k) = {}
  BY <1>1 DEF MoveOn, Types, AtOwnSlot
<1>2. CASE Ahead(b, k) # {}
  BY <1>2, NearestSlot DEF MoveOn, Types, AtOwnSlot
<1> QED BY <1>1, <1>2

\* The slots a block skips are not its own, so its arrivals stay what its place
\* says.
LEMMA MoveArrivals ==
  ASSUME Types, AtOwnSlot, ArrivalsExact, NEW b \in Blocks, NEW k \in {0} \union Slots,
         \/ pc[b] = "queued" /\ k = 0
         \/ pc[b] \in Waiting /\ at[b] = k,
         MoveOn(b, k), arrived' = arrived
  PROVE  ArrivalsExact'
<1>1. \A i \in Slots : b < Width[i] => (HasPassed(b, i) <=> i <= k)
  BY WidthFacts DEF HasPassed
<1>2. \A i \in Slots : b < Width[i] => (HasPassed(b, i)' <=> i <= k)
  <2>1. CASE Ahead(b, k) = {}
    <3>1. \A i \in Slots : b < Width[i] => i <= k
      BY <2>1, WidthFacts DEF Ahead
    <3> QED BY <2>1, <3>1 DEF MoveOn, HasPassed, Types
  <2>2. CASE Ahead(b, k) # {}
    <3> DEFINE j == Nearest(Ahead(b, k))
    <3>1. j \in Slots /\ j > k /\ \A i \in Ahead(b, k) : j <= i
      BY <2>2, NearestSlot
    <3>2. pc'[b] = "stage" /\ at'[b] = j
      BY <2>2 DEF MoveOn, Types
    <3> HIDE DEF j
    <3>3. \A i \in Slots : b < Width[i] => (i < j <=> i <= k)
      BY <3>1, WidthFacts DEF Ahead
    <3> QED BY <3>2, <3>3 DEF HasPassed
  <2> QED BY <2>1, <2>2
<1>3. \A c \in Blocks \ {b} : pc'[c] = pc[c] /\ at'[c] = at[c]
  BY DEF MoveOn, Types
<1>4. ASSUME NEW i \in Slots, NEW c \in Participants(i)
      PROVE  HasPassed(c, i)' <=> HasPassed(c, i)
  <2>1. c \in Blocks /\ c < Width[i] BY DEF Participants
  <2>2. CASE c = b BY <1>1, <1>2, <2>1, <2>2
  <2>3. CASE c # b BY <1>3, <2>1, <2>3 DEF HasPassed
  <2> QED BY <2>2, <2>3
<1> QED BY <1>4 DEF ArrivalsExact

\* While a block runs, nothing has been judged.
LEMMA NotJudged ==
  ASSUME IInv, NEW b \in Blocks, pc[b] # "retired" PROVE verdict = "none"
BY DEF IInv, Judged, Drained

LEMMA StartKeeps ==
  ASSUME IInv, NEW b \in Blocks, Start(b) PROVE IInv'
<1>1. verdict = "none" /\ verdict' = "none" BY NotJudged DEF Start
<1>2. Types' /\ AtOwnSlot'
  BY MoveTypes DEF Start, IInv, Types
<1>3. ASSUME err = 0 PROVE Sound'
  <2>1. Sound BY <1>1, <1>3 DEF IInv
  <2>2. ArrivalsExact'
    <3>1. Types /\ AtOwnSlot /\ ArrivalsExact BY <2>1 DEF IInv, Sound
    <3>2. PICK z \in {0} \union Slots :
            pc[b] = "queued" /\ z = 0 /\ MoveOn(b, z) /\ arrived' = arrived
      BY DEF Start
    <3> QED BY <3>1, <3>2, MoveArrivals
  <2>3. /\ \A c \in Blocks \ {b} : pc'[c] = pc[c] /\ at'[c] = at[c]
        /\ pc[b] = "queued" /\ pc'[b] \in {"stage", "retired"}
    BY DEF Start, MoveOn, IInv, Types
  <2>4. ReleaseAfterAll'
    BY <2>1, <2>3 DEF Start, Sound, ReleaseAfterAll, Full, Participants
  <2>5. CountExact'
    BY <2>1, <2>3 DEF Start, Sound, CountExact, Full, Participants
  <2> QED BY <2>1, <2>2, <2>4, <2>5 DEF Start, Sound
<1> QED BY <1>1, <1>2, <1>3 DEF IInv, Judged, Start

\* The arrival that a counter calls the last one is the last one.
LEMMA ArriveKeeps ==
  ASSUME IInv, NEW b \in Blocks, Arrive(b) PROVE IInv'
<1>0. PICK k \in Slots : k = at[b] BY DEF IInv, AtOwnSlot, Arrive
<1>1. verdict = "none" /\ verdict' = "none" BY NotJudged DEF Arrive
<1>2. k \in Slots /\ b \in Participants(k) /\ pc[b] = "stage" /\ k = at[b]
  BY <1>0 DEF IInv, AtOwnSlot, Arrive, Participants
<1>3. Types' /\ AtOwnSlot'
  BY <1>2 DEF Arrive, IInv, Types, AtOwnSlot, Slots
<1>4. ASSUME err = 0 PROVE Sound'
  <2>1. Sound BY <1>1, <1>4 DEF IInv
  <2>2. /\ arrived[k] \subseteq Participants(k) /\ b \notin arrived[k]
        /\ arrived' = [arrived EXCEPT ![k] = @ \union {b}]
        /\ cnt' = [cnt EXCEPT ![k] = @ + 1]
        /\ at' = at /\ gen' = gen /\ seen' = seen
    <3>0. at[b] \in Nat /\ pc[b] = "stage" BY <1>2, WidthFacts
    <3>1. ~HasPassed(b, k) BY <1>0, <3>0 DEF HasPassed
    <3>2. arrived[k] \subseteq Participants(k) /\ b \notin arrived[k]
      BY <1>2, <2>1, <3>1 DEF Sound, ArrivalsExact
    <3> QED BY <1>0, <3>2 DEF Arrive
  <2>3. ~Full(k) BY <1>2, <2>2 DEF Full
  <2>4. cnt[k] = Cardinality(arrived[k]) BY <1>2, <2>1, <2>3 DEF Sound, CountExact
  <2>5. /\ Cardinality(arrived'[k]) = cnt[k] + 1 /\ arrived'[k] = arrived[k] \union {b}
        /\ arrived'[k] \subseteq Participants(k)
        /\ Cardinality(arrived'[k]) = Width[k] <=> arrived'[k] = Participants(k)
    <3>1. arrived'[k] = arrived[k] \union {b} /\ arrived'[k] \subseteq Participants(k)
      BY <1>2, <2>2 DEF IInv, Types
    <3>2. IsFiniteSet(arrived[k])
      BY <1>2, <2>2, ParticipantsCount, FS_Subset
    <3>3. Cardinality(arrived'[k]) = cnt[k] + 1
      BY <2>2, <2>4, <3>1, <3>2, FS_AddElement
    <3>4. Cardinality(arrived'[k]) = Width[k] <=> arrived'[k] = Participants(k)
      BY <1>2, <3>1, ParticipantsCount, FS_Subset
    <3> QED BY <3>1, <3>3, <3>4
  <2>6. (arrived'[k] = Participants(k)) <=> LastArrival(cnt[k], k)
    <3>1. cnt[k] \in Nat /\ Width[k] \in Nat BY <1>2, WidthFacts DEF IInv, Types
    <3> QED BY <2>5, <3>1 DEF LastArrival
  <2>7. /\ \A c \in Blocks \ {b} : pc'[c] = pc[c]
        /\ pc'[b] = IF LastArrival(cnt[k], k) THEN "clear" ELSE "sample"
    BY <1>0 DEF Arrive, IInv, Types
  <2>8. ArrivalsExact'
    <3>1. ASSUME NEW i \in Slots PROVE arrived'[i] \subseteq Participants(i)
      BY <2>1, <2>2, <2>5 DEF Sound, ArrivalsExact, IInv, Types
    <3>2. ASSUME NEW i \in Slots, NEW c \in Participants(i), c # b
          PROVE  c \in arrived'[i] <=> HasPassed(c, i)'
      <4>1. c \in arrived'[i] <=> c \in arrived[i] BY <1>2, <2>2, <3>2 DEF IInv, Types
      <4>2. HasPassed(c, i)' <=> HasPassed(c, i)
        BY <2>2, <2>7, <3>2 DEF HasPassed, Participants
      <4> QED BY <2>1, <4>1, <4>2 DEF Sound, ArrivalsExact
    <3>3. ASSUME NEW i \in Slots, b \in Participants(i)
          PROVE  b \in arrived'[i] <=> HasPassed(b, i)'
      <4>1. HasPassed(b, i)' <=> i <= k BY <1>0, <2>2, <2>7 DEF HasPassed
      <4>2. HasPassed(b, i) <=> i < k BY <1>2 DEF HasPassed
      <4>3. b \in arrived'[i] <=> b \in arrived[i] \/ i = k
        BY <1>2, <2>2 DEF IInv, Types
      <4> QED BY <1>2, <2>1, <3>3, <4>1, <4>2, <4>3, WidthFacts DEF Sound, ArrivalsExact
    <3> QED BY <3>1, <3>2, <3>3 DEF ArrivalsExact, Participants
  <2>9. \A i \in Slots \ {k} : Full(i)' <=> Full(i)
    BY <2>2 DEF Full, IInv, Types, Participants
  <2>10. Full(k)' <=> LastArrival(cnt[k], k)
    BY <2>2, <2>6 DEF Full, Participants
  <2>11. \A c \in Blocks : pc[c] \in {"clear", "bump"} => at[c] # k
    BY <1>2, <2>1, <2>3 DEF Sound, ReleaseAfterAll
  <2>12. ReleaseAfterAll'
    <3>1. \A c \in Blocks \ {b} : pc[c] \in {"clear", "bump", "spin"} => at[c] \in Slots
      BY DEF IInv, AtOwnSlot
    <3>2. \A c \in Blocks \ {b} : pc[c] = "spin" /\ gen[at[c]] # seen[c] => at[c] # k
      BY <2>1, <2>3 DEF Sound, ReleaseAfterAll
    <3> QED BY <1>0, <2>1, <2>2, <2>10, <2>7, <2>9, <2>11, <3>1, <3>2 DEF Sound, ReleaseAfterAll
  <2>13. CountExact'
    <3>1. ASSUME NEW i \in Slots, i # k
          PROVE  cnt'[i] = IF Full(i)' /\ ~(\E c \in Blocks : pc'[c] = "clear" /\ at'[c] = i)
                           THEN 0 ELSE Cardinality(arrived'[i])
      BY <1>2, <2>1, <2>2, <2>7, <2>9, <3>1 DEF Sound, CountExact, IInv, Types
    <3>2. cnt'[k] = Cardinality(arrived'[k])
      BY <1>2, <2>2, <2>5 DEF IInv, Types
    <3>3. Full(k)' => pc'[b] = "clear" /\ at'[b] = k
      BY <1>0, <2>2, <2>10, <2>7
    <3>4. cnt'[k] = IF Full(k)' /\ ~(\E c \in Blocks : pc'[c] = "clear" /\ at'[c] = k)
                    THEN 0 ELSE Cardinality(arrived'[k])
      BY <3>2, <3>3
    <3>5. \A i \in Slots :
            cnt'[i] = IF Full(i)' /\ ~(\E c \in Blocks : pc'[c] = "clear" /\ at'[c] = i)
                      THEN 0 ELSE Cardinality(arrived'[i])
      <4> SUFFICES ASSUME NEW i \in Slots
                   PROVE  cnt'[i] = IF Full(i)' /\ ~(\E c \in Blocks : pc'[c] = "clear" /\ at'[c] = i)
                                    THEN 0 ELSE Cardinality(arrived'[i])
        OBVIOUS
      <4>1. CASE i = k BY <3>4, <4>1
      <4>2. CASE i # k BY <3>1, <4>2
      <4> QED BY <4>1, <4>2
    <3> QED BY <3>5 DEF CountExact
  <2> QED BY <2>1, <2>8, <2>12, <2>13 DEF Sound, Arrive
<1> QED BY <1>1, <1>3, <1>4 DEF IInv, Judged, Arrive

\* Clearing the counter precedes the release of its slot.
LEMMA ClearKeeps ==
  ASSUME IInv, NEW b \in Blocks, Clear(b) PROVE IInv'
<1>0. PICK k \in Slots : k = at[b] BY DEF IInv, AtOwnSlot, Clear
<1>1. verdict = "none" /\ verdict' = "none" BY NotJudged DEF Clear
<1>2. Types' BY <1>0 DEF Clear, IInv, Types
<1>3. /\ pc[b] = "clear" /\ pc'[b] = "bump" /\ \A c \in Blocks \ {b} : pc'[c] = pc[c]
      /\ at' = at /\ arrived' = arrived /\ gen' = gen /\ seen' = seen /\ broken' = broken
      /\ cnt'[k] = 0 /\ \A i \in Slots \ {k} : cnt'[i] = cnt[i]
  BY <1>0 DEF Clear, IInv, Types
<1>4. AtOwnSlot' BY <1>3 DEF IInv, AtOwnSlot
<1>5. ASSUME err = 0 PROVE Sound'
  <2>1. Sound BY <1>1, <1>5 DEF IInv
  <2>2. \A i \in Slots, c \in Blocks : HasPassed(c, i)' <=> HasPassed(c, i)
    BY <1>3 DEF HasPassed
  <2>3. ArrivalsExact'
    BY <1>3, <2>1, <2>2 DEF Sound, ArrivalsExact, Participants
  <2>4. \A i \in Slots : Full(i)' <=> Full(i) BY <1>3 DEF Full, Participants
  <2>5. Full(k) /\ \A c \in Blocks : pc[c] \in {"clear", "bump"} /\ at[c] = k => b = c
    BY <1>0, <1>3, <2>1 DEF Sound, ReleaseAfterAll
  <2>6. \A c \in Blocks : pc[c] \in Waiting => at[c] \in Slots BY DEF IInv, AtOwnSlot
  <2>7. ReleaseAfterAll'
    BY <1>0, <1>3, <2>1, <2>4, <2>5, <2>6 DEF Sound, ReleaseAfterAll
  <2>8. CountExact'
    <3>1. ASSUME NEW i \in Slots, i # k
          PROVE  (\E c \in Blocks : pc'[c] = "clear" /\ at'[c] = i)
                   <=> (\E c \in Blocks : pc[c] = "clear" /\ at[c] = i)
      BY <1>0, <1>3, <3>1
    <3>2. ~(\E c \in Blocks : pc'[c] = "clear" /\ at'[c] = k) BY <1>3, <2>5
    <3>3. ASSUME NEW i \in Slots
          PROVE  cnt'[i] = IF Full(i)' /\ ~(\E c \in Blocks : pc'[c] = "clear" /\ at'[c] = i)
                           THEN 0 ELSE Cardinality(arrived'[i])
      <4>1. CASE i = k BY <1>3, <2>4, <2>5, <3>2, <4>1
      <4>2. CASE i # k BY <1>3, <2>1, <2>4, <3>1, <4>2 DEF Sound, CountExact
      <4> QED BY <4>1, <4>2
    <3> QED BY <3>3 DEF CountExact
  <2> QED BY <1>3, <2>1, <2>3, <2>7, <2>8 DEF Sound
<1> QED BY <1>1, <1>2, <1>4, <1>5 DEF IInv, Judged, Clear

\* A block that leaves a slot everybody has reached disturbs nobody: what
\* Bump and Observe share.
LEMMA CrossKeepsSound ==
  ASSUME Types, AtOwnSlot, Sound, NEW b \in Blocks, NEW k \in Slots, k = at[b],
         pc[b] \in {"bump", "spin"}, Full(k), Cross(b),
         UNCHANGED <<cnt, arrived, seen>>,
         \A i \in Slots \ {k} : gen'[i] = gen[i]
  PROVE  Sound'
<1>1. ~broken' BY DEF Cross, Full, Sound
<1>2. MoveOn(b, k) /\ arrived' = arrived /\ cnt' = cnt /\ seen' = seen BY DEF Cross
<1>3. ArrivalsExact' BY <1>2, MoveArrivals DEF Sound
<1>4. /\ \A c \in Blocks \ {b} : pc'[c] = pc[c] /\ at'[c] = at[c]
      /\ pc'[b] \in {"stage", "retired"}
  BY <1>2 DEF MoveOn, Types
<1>5. \A i \in Slots : Full(i)' <=> Full(i) BY <1>2 DEF Full, Participants
<1>6. \A c \in Blocks : pc[c] \in Waiting => at[c] \in Slots BY DEF AtOwnSlot
<1>7. ReleaseAfterAll'
  <2> SUFFICES ASSUME NEW c \in Blocks
               PROVE  /\ pc'[c] \in {"clear", "bump"} => Full(at[c])' /\ c # b
                      /\ pc'[c] = "spin" /\ gen'[at'[c]] # seen'[c] => Full(at[c])'
                      /\ pc'[c] \in {"clear", "bump"} =>
                           \A d \in Blocks : pc'[d] \in {"clear", "bump"} /\ at'[d] = at'[c] => c = d
    BY DEF ReleaseAfterAll
  <2>1. CASE c = b BY <1>4, <2>1
  <2>2. CASE c # b
    <3>1. pc'[c] = pc[c] /\ at'[c] = at[c] BY <1>4, <2>2
    <3>2. Full(at[c])' <=> Full(at[c]) BY <1>2, <3>1 DEF Full, Participants
    <3>3. pc[c] = "spin" /\ gen'[at[c]] # seen'[c] => Full(at[c])
      BY <1>2, <1>6 DEF Sound, ReleaseAfterAll
    <3>4. /\ pc[c] \in {"clear", "bump"} => Full(at[c])
          /\ pc[c] \in {"clear", "bump"} =>
               \A d \in Blocks : pc[d] \in {"clear", "bump"} /\ at[d] = at[c] => c = d
      BY DEF Sound, ReleaseAfterAll
    <3> QED BY <1>2, <1>4, <2>2, <3>1, <3>2, <3>3, <3>4
  <2> QED BY <2>1, <2>2
<1>8. CountExact'
  <2>1. ASSUME NEW i \in Slots
        PROVE  (\E c \in Blocks : pc'[c] = "clear" /\ at'[c] = i)
                 <=> (\E c \in Blocks : pc[c] = "clear" /\ at[c] = i)
    BY <1>4
  <2> QED BY <1>2, <1>5, <2>1 DEF Sound, CountExact
<1> QED BY <1>1, <1>3, <1>7, <1>8 DEF Sound

LEMMA BumpKeeps ==
  ASSUME IInv, NEW b \in Blocks, Bump(b) PROVE IInv'
<1>0. PICK k \in Slots : k = at[b] BY DEF IInv, AtOwnSlot, Bump
<1>1. verdict = "none" /\ verdict' = "none" BY NotJudged DEF Bump
<1>2. gen' \in [Slots -> Nat] /\ \A i \in Slots \ {k} : gen'[i] = gen[i]
  <2>1. (gen[k] + 1) % GenMod \in Nat BY WidthFacts DEF IInv, Types
  <2> QED BY <1>0, <2>1 DEF Bump, IInv, Types
<1>3. MoveOn(b, k) BY <1>0 DEF Bump, Cross
<1>4. Types' /\ AtOwnSlot'
  <2>1. /\ pc' \in [Blocks -> {"queued", "stage", "retired"} \union Waiting]
        /\ at' \in [Blocks -> {0} \union Slots] /\ AtOwnSlot'
    BY <1>3, MoveTypes DEF IInv
  <2> QED BY <1>1, <1>2, <2>1 DEF Bump, Cross, IInv, Types
<1>5. ASSUME err = 0 PROVE Sound'
  <2>1. Sound BY <1>1, <1>5 DEF IInv
  <2>2. Full(k) BY <1>0, <2>1 DEF Bump, Sound, ReleaseAfterAll
  <2> QED BY <1>0, <1>2, <2>1, <2>2, CrossKeepsSound DEF Bump, IInv
<1> QED BY <1>1, <1>4, <1>5 DEF IInv, Judged, Bump

LEMMA ObserveKeeps ==
  ASSUME IInv, NEW b \in Blocks, Observe(b) PROVE IInv'
<1>0. PICK k \in Slots : k = at[b] BY DEF IInv, AtOwnSlot, Observe
<1>1. verdict = "none" /\ verdict' = "none" BY NotJudged DEF Observe
<1>2. MoveOn(b, k) BY <1>0 DEF Observe, Cross
<1>3. Types' /\ AtOwnSlot'
  <2>1. /\ pc' \in [Blocks -> {"queued", "stage", "retired"} \union Waiting]
        /\ at' \in [Blocks -> {0} \union Slots] /\ AtOwnSlot'
    BY <1>2, MoveTypes DEF IInv
  <2> QED BY <1>1, <2>1 DEF Observe, Cross, IInv, Types
<1>4. ASSUME err = 0 PROVE Sound'
  <2>1. Sound BY <1>1, <1>4 DEF IInv
  <2>2. Full(k) BY <1>0, <2>1 DEF Observe, Sound, ReleaseAfterAll
  <2> QED BY <1>0, <2>1, <2>2, CrossKeepsSound DEF Observe, IInv
<1> QED BY <1>1, <1>3, <1>4 DEF IInv, Judged, Observe

\* A block that samples after the release spins on: it cannot cross too soon.
LEMMA SampleKeeps ==
  ASSUME IInv, NEW b \in Blocks, Sample(b) PROVE IInv'
<1>0. PICK k \in Slots : k = at[b] BY DEF IInv, AtOwnSlot, Sample
<1>1. verdict = "none" /\ verdict' = "none" BY NotJudged DEF Sample
<1>2. Types' BY <1>0 DEF Sample, IInv, Types
<1>3. /\ pc[b] = "sample" /\ pc'[b] = "spin" /\ seen'[b] = gen[k]
      /\ \A c \in Blocks \ {b} : pc'[c] = pc[c] /\ seen'[c] = seen[c]
      /\ at' = at /\ arrived' = arrived /\ gen' = gen /\ cnt' = cnt /\ broken' = broken
  BY <1>0 DEF Sample, IInv, Types
<1>4. AtOwnSlot' BY <1>3 DEF IInv, AtOwnSlot
<1>5. ASSUME err = 0 PROVE Sound'
  <2>1. Sound BY <1>1, <1>5 DEF IInv
  <2>2. \A i \in Slots, c \in Blocks : HasPassed(c, i)' <=> HasPassed(c, i)
    BY <1>3 DEF HasPassed
  <2>3. ArrivalsExact' BY <1>3, <2>1, <2>2 DEF Sound, ArrivalsExact, Participants
  <2>4. \A i \in Slots : Full(i)' <=> Full(i) BY <1>3 DEF Full, Participants
  <2>5. \A c \in Blocks : pc[c] \in Waiting => at[c] \in Slots BY DEF IInv, AtOwnSlot
  <2>6. ReleaseAfterAll'
    BY <1>0, <1>3, <2>1, <2>4, <2>5 DEF Sound, ReleaseAfterAll
  <2>7. CountExact' BY <1>3, <2>1, <2>4 DEF Sound, CountExact
  <2> QED BY <1>3, <2>1, <2>3, <2>6, <2>7 DEF Sound
<1> QED BY <1>1, <1>2, <1>4, <1>5 DEF IInv, Judged, Sample

\* The step that crosses without a release leaves its record.
LEMMA WatchdogKeeps ==
  ASSUME IInv, NEW b \in Blocks, Watchdog(b) PROVE IInv'
<1>0. PICK k \in Slots : k = at[b] BY DEF IInv, AtOwnSlot, Watchdog
<1>1. verdict = "none" /\ verdict' = "none" BY NotJudged DEF Watchdog
<1>2. err' \in Slots /\ err' # 0
  BY <1>0, WidthFacts DEF Watchdog, Record, IInv, Types
<1>3. Types' BY <1>2 DEF Watchdog, IInv, Types
<1>4. AtOwnSlot' BY DEF Watchdog, IInv, AtOwnSlot, Types
<1> QED BY <1>1, <1>2, <1>3, <1>4 DEF IInv, Judged

\* A drained launch without a record leaves its counters at zero ...
LEMMA DrainedClean == Types /\ Sound /\ Drained => cnt = Clean
<1> SUFFICES ASSUME Types, Sound, Drained PROVE cnt = Clean OBVIOUS
<1>1. ASSUME NEW k \in Slots PROVE cnt[k] = 0
  <2>1. \A b \in Blocks : HasPassed(b, k) BY DEF Drained, HasPassed
  <2>2. Full(k) BY <2>1 DEF Sound, ArrivalsExact, Full, Participants
  <2> QED BY <2>2 DEF Sound, CountExact, Drained
<1> QED BY <1>1 DEF Types, Clean

\* ... and a launch that finds them there starts soundly.
LEMMA FreshIsSound ==
  ASSUME cnt' = Clean, broken' = FALSE, FreshLaunch
  PROVE  Sound' /\ AtOwnSlot'
<1>1. ArrivalsExact' BY DEF ArrivalsExact, HasPassed, FreshLaunch, Participants
<1>2. ReleaseAfterAll' BY DEF ReleaseAfterAll, FreshLaunch
<1>3. CountExact' BY FS_EmptySet DEF CountExact, FreshLaunch, Clean
<1>4. AtOwnSlot' BY DEF AtOwnSlot, FreshLaunch
<1> QED BY <1>1, <1>2, <1>3, <1>4 DEF Sound

LEMMA FreshTypes ==
  ASSUME Types, FreshLaunch, UNCHANGED tvars, verdict' \in {"none", "ok", "failed"},
         broken' \in BOOLEAN
  PROVE  Types' /\ AtOwnSlot'
BY DEF Types, FreshLaunch, AtOwnSlot

LEMMA HostKeeps == ASSUME IInv, Host PROVE IInv'
<1>1. CASE NextLayer
  <2>1. verdict = "none" /\ verdict' = "none"
    BY <1>1, WidthFacts DEF NextLayer, IInv, Judged
  <2>2. Types' /\ AtOwnSlot' BY <1>1, FreshTypes DEF NextLayer, IInv, Types
  <2>3. ASSUME err = 0 PROVE Sound'
    <3>1. Types /\ Sound /\ Drained BY <1>1, <2>1, <2>3 DEF IInv, NextLayer
    <3>2. cnt' = Clean /\ broken' = FALSE /\ FreshLaunch
      BY <1>1, <3>1, DrainedClean DEF NextLayer, Sound, Types
    <3> QED BY <3>2, FreshIsSound
  <2> QED BY <1>1, <2>1, <2>2, <2>3 DEF IInv, Judged, NextLayer
<1>2. CASE Judge
  <2>1. Types' /\ AtOwnSlot'
    BY <1>2 DEF Judge, IInv, Types, AtOwnSlot, Clean
  <2>2. CASE err = 0
    <3>1. Sound BY <1>2, <2>2 DEF Judge, IInv
    <3>2. Sound'
      BY <1>2, <2>2, <3>1 DEF Judge, Sound, ArrivalsExact, HasPassed, ReleaseAfterAll,
                              CountExact, Full, Participants
    <3>3. Judged'
      BY <1>2, <2>2, <3>1 DEF Judge, Judged, Sound, Drained
    <3> QED BY <2>1, <3>2, <3>3 DEF IInv
  <2>3. CASE err # 0
    <3>1. Judged' /\ verdict' = "failed" BY <1>2, <2>3 DEF Judge, Judged, Drained
    <3> QED BY <2>1, <3>1 DEF IInv
  <2> QED BY <2>2, <2>3
<1>3. CASE NextStep
  <2>1. err = 0 BY <1>3 DEF NextStep, IInv, Judged
  <2>2. cnt = Clean
    BY <1>3, <2>1, DrainedClean DEF NextStep, IInv, Judged, Types
  <2>3. Sound' /\ AtOwnSlot' BY <1>3, <2>2, FreshIsSound DEF NextStep
  <2>4. Types' BY <1>3, FreshTypes DEF NextStep, IInv
  <2> QED BY <1>3, <2>3, <2>4 DEF IInv, Judged, NextStep
<1>4. CASE Abandon
  <2>1. Types' /\ AtOwnSlot' BY <1>4, FreshTypes DEF Abandon, IInv
  <2>2. ASSUME err = 0 PROVE Sound'
    <3>1. cnt = Clean
      BY <1>4, <2>2, DrainedClean DEF Abandon, IInv
    <3> QED BY <1>4, <3>1, FreshIsSound DEF Abandon
  <2> QED BY <1>4, <2>1, <2>2 DEF IInv, Judged, Abandon
<1> QED BY <1>1, <1>2, <1>3, <1>4 DEF Host

LEMMA StutterKeeps == ASSUME IInv, UNCHANGED vars PROVE IInv'
<1>1. Types' /\ AtOwnSlot' /\ Judged' BY DEF IInv, Types, AtOwnSlot, Judged, Drained
<1>2. Sound' <=> Sound
  BY DEF Sound, ArrivalsExact, HasPassed, ReleaseAfterAll, CountExact, Full, Participants
<1> QED BY <1>1, <1>2 DEF IInv

\* The host takes logits only of a step in which no block of any launch
\* crossed a barrier before all its participants had arrived, whatever
\* time-outs, failed steps and abandoned steps came before it on the table.
THEOREM BarrierSeparates == Spec => []OkIsSeparated
<1>1. Init => IInv BY InitInv
<1>2. IInv /\ [Next]_vars => IInv'
  <2> SUFFICES ASSUME IInv, [Next]_vars PROVE IInv' OBVIOUS
  <2>1. ASSUME NEW b \in Blocks, Block(b) PROVE IInv'
    BY <2>1, StartKeeps, ArriveKeeps, ClearKeeps, BumpKeeps, SampleKeeps, ObserveKeeps,
       WatchdogKeeps DEF Block
  <2>2. CASE UNCHANGED vars BY <2>2, StutterKeeps
  <2> QED BY <2>1, <2>2, HostKeeps DEF Next
<1>3. IInv => OkIsSeparated BY DEF IInv, Judged, OkIsSeparated
<1> QED BY <1>1, <1>2, <1>3, PTL DEF Spec

-----------------------------------------------------------------------------
(* The geometry of the layer kernel: whatever the model, the device and the  *)
(* environment, its barriers count living blocks and order every stage after *)
(* what it uses.                                                             *)

Geometries ==
    [w : {1, 2}, pipe : BOOLEAN, grid : Nat \ {0},
     tiles : [qkv : Nat \ {0}, p2 : Nat \ {0}, heads : Nat \ {0}, o : Nat \ {0},
              gu : Nat \ {0}, gu_d : Nat \ {0}]]

LEMMA NineOf ==
    ASSUME NEW S, NEW w1 \in S, NEW w2 \in S, NEW w3 \in S, NEW w4 \in S, NEW w5 \in S,
           NEW w6 \in S, NEW w7 \in S, NEW w8 \in S, NEW w9 \in S
    PROVE  <<w1, w2, w3, w4, w5, w6, w7, w8, w9>> \in Seq(S)
  OBVIOUS

\* The prefixes a layer kernel is given.
LEMMA PrefixRange ==
    ASSUME NEW g \in Geometries
    PROVE  /\ g.grid \in 1..g.grid
           /\ PipeA0(g.tiles, g.grid) \in 1..g.grid
           /\ PipeB(g.tiles, g.grid) \in 1..g.grid
           /\ AfterP2(g) \in 1..g.grid
           /\ AfterFlash(g) \in 1..g.grid
           /\ AfterRms(g) \in 1..g.grid
           /\ AfterGu(g) \in 1..g.grid
<1> USE DEF Least, Most
<1>1. /\ g.grid \in Nat \ {0} /\ g.tiles.qkv \in Nat \ {0} /\ g.tiles.p2 \in Nat \ {0}
      /\ g.tiles.heads \in Nat \ {0} /\ g.tiles.o \in Nat \ {0}
      /\ g.tiles.gu \in Nat \ {0} /\ g.tiles.gu_d \in Nat \ {0}
  BY DEF Geometries
<1>2. \A n \in Nat \ {0} : Half(n) \in Nat \ {0} /\ Half(n) <= n
  BY DEF Half, CeilDiv
<1>3. PipeA0(g.tiles, g.grid) \in 1..g.grid BY <1>1, <1>2 DEF PipeA0
<1>4. PipeB(g.tiles, g.grid) \in 1..g.grid BY <1>1, <1>2 DEF PipeB
<1>5. AfterP2(g) \in 1..g.grid /\ AfterFlash(g) \in 1..g.grid
  BY <1>1 DEF AfterP2, AfterFlash
<1>6. AfterRms(g) \in 1..g.grid /\ AfterGu(g) \in 1..g.grid
  BY <1>1 DEF AfterRms, AfterGu
<1> QED BY <1>1, <1>3, <1>4, <1>5, <1>6

\* Whatever the tile counts and the grid, the barriers' participants are a
\* possible instance of GridBarrier's Width.
THEOREM WidthsInGrid ==
    ASSUME NEW g \in Geometries
    PROVE  SlotWidths(g) \in Seq(1..g.grid)
<1> DEFINE A == PipeA0(g.tiles, g.grid)
           B == PipeB(g.tiles, g.grid)
<1>1. A \in 1..g.grid /\ B \in 1..g.grid BY PrefixRange
<1>2. CASE g.pipe
  <2>1. SlotWidths(g) = <<A, AfterP2(g), AfterFlash(g), B, B, B, B, B, B>>
    BY <1>2 DEF SlotWidths
  <2> HIDE DEF A, B
  <2> QED BY <2>1, <1>1, PrefixRange, NineOf
<1>3. CASE ~g.pipe
  <2>1. SlotWidths(g) = <<g.grid, AfterP2(g), AfterFlash(g), g.grid, g.grid, AfterRms(g),
                          AfterGu(g), g.grid, g.grid>>
    BY <1>3 DEF SlotWidths
  <2> QED BY <2>1, PrefixRange, NineOf
<1> QED BY <1>2, <1>3 DEF Geometries

\* Who works in each stage, against the participants of the barriers around it.
LEMMA WorkersUnder ==
    ASSUME NEW g \in Geometries
    PROVE  /\ \A s \in Stages : Workers(g, s) \in 1..g.grid
           /\ Workers(g, 2) <= AfterP2(g)
           /\ Workers(g, 3) <= AfterP2(g) /\ Workers(g, 3) <= AfterFlash(g)
           /\ Workers(g, 4) <= AfterFlash(g)
           /\ Workers(g, 6) = 1 /\ Workers(g, 10) = 1
           /\ Workers(g, 7) <= AfterRms(g) /\ Workers(g, 7) <= AfterGu(g)
           /\ Workers(g, 8) <= AfterGu(g)
           /\ g.w = 2 => /\ Workers(g, 1) = PipeA0(g.tiles, g.grid)
                         /\ \A s \in {3, 4, 7, 8} : Workers(g, s) <= PipeB(g.tiles, g.grid)
           /\ g.pipe => \A s \in {5, 9} : Workers(g, s) = PipeB(g.tiles, g.grid)
<1> DEFINE dealt(n) == Least(n, g.grid)
           pairs(n) == dealt(IF g.w = 2 THEN Half(n) ELSE n)
<1>1. /\ g.grid \in Nat \ {0} /\ g.tiles.qkv \in Nat \ {0} /\ g.tiles.p2 \in Nat \ {0}
      /\ g.tiles.heads \in Nat \ {0} /\ g.tiles.o \in Nat \ {0}
      /\ g.tiles.gu \in Nat \ {0} /\ g.tiles.gu_d \in Nat \ {0}
  BY DEF Geometries
<1>2. \A n \in Nat \ {0} : Half(n) \in Nat \ {0} /\ Half(n) <= n
  BY DEF Half, CeilDiv
<1>3. /\ Workers(g, 1) = pairs(g.tiles.qkv) /\ Workers(g, 2) = pairs(g.tiles.p2)
      /\ Workers(g, 3) = dealt(g.tiles.heads) /\ Workers(g, 4) = dealt(g.tiles.o)
      /\ Workers(g, 7) = pairs(g.tiles.gu) /\ Workers(g, 8) = dealt(g.tiles.gu_d)
  BY DEF Workers
<1>4. /\ Workers(g, 6) = 1 /\ Workers(g, 10) = 1
      /\ \A s \in {5, 9} : Workers(g, s) = IF g.pipe THEN PipeB(g.tiles, g.grid) ELSE g.grid
  BY DEF Workers
<1>5. \A n \in Nat \ {0} : dealt(n) \in 1..g.grid /\ dealt(n) <= n /\ pairs(n) \in 1..g.grid
                            /\ pairs(n) <= dealt(n)
  BY <1>1, <1>2 DEF Least
<1>6. \A s \in Stages : Workers(g, s) \in 1..g.grid
  <2> HIDE DEF dealt, pairs
  <2>1. 1 \in 1..g.grid BY <1>1
  <2> QED BY <1>1, <1>3, <1>4, <1>5, <2>1, PrefixRange DEF Stages
<1>7. Workers(g, 2) <= AfterP2(g) /\ Workers(g, 3) <= AfterP2(g)
  BY <1>1, <1>2, <1>3 DEF AfterP2, Least, Most
<1>8. Workers(g, 3) <= AfterFlash(g) /\ Workers(g, 4) <= AfterFlash(g)
  BY <1>1, <1>3 DEF AfterFlash, Least, Most
<1>9. /\ Workers(g, 7) <= AfterRms(g) /\ Workers(g, 7) <= AfterGu(g)
      /\ Workers(g, 8) <= AfterGu(g)
  BY <1>1, <1>2, <1>3 DEF AfterRms, AfterGu, Least, Most
<1>10. ASSUME g.w = 2
       PROVE  /\ Workers(g, 1) = PipeA0(g.tiles, g.grid)
              /\ \A s \in {3, 4, 7, 8} : Workers(g, s) <= PipeB(g.tiles, g.grid)
  <2>1. Workers(g, 1) = PipeA0(g.tiles, g.grid) BY <1>3, <1>10 DEF PipeA0
  <2>2. /\ Workers(g, 3) <= PipeB(g.tiles, g.grid) /\ Workers(g, 4) <= PipeB(g.tiles, g.grid)
        /\ Workers(g, 7) <= PipeB(g.tiles, g.grid) /\ Workers(g, 8) <= PipeB(g.tiles, g.grid)
    BY <1>1, <1>2, <1>3, <1>10 DEF PipeB, Least, Most
  <2> QED BY <2>1, <2>2
<1> QED BY <1>4, <1>6, <1>7, <1>8, <1>9, <1>10

\* Every stage of a layer kernel without pipe has a living block for each of its
\* tiles, its barriers count living blocks only, and every stage waits for what
\* it uses, whatever the model, the device and the grid: the producers and
\* consumers the kernel's comment counts (decode_layer_fused_kernels.cu:1404-1432).
\* A pipe kernel needs that its prefixes fit.
THEOREM LayerKernelCovered ==
    ASSUME NEW g \in Geometries, g.pipe => g.w = 2 /\ PipeFits(g)
    PROVE  StagesCovered(g)
<1>1. CASE ~g.pipe
  <2>1. \A s \in Stages : Alive(g, s) = g.grid BY <1>1 DEF Alive
  <2>2. /\ SlotWidths(g)[1] = g.grid /\ SlotWidths(g)[2] = AfterP2(g)
        /\ SlotWidths(g)[3] = AfterFlash(g) /\ SlotWidths(g)[4] = g.grid
        /\ SlotWidths(g)[5] = g.grid /\ SlotWidths(g)[6] = AfterRms(g)
        /\ SlotWidths(g)[7] = AfterGu(g) /\ SlotWidths(g)[8] = g.grid
        /\ SlotWidths(g)[9] = g.grid
    BY <1>1 DEF SlotWidths
  <2>3. \A s \in Stages : Workers(g, s) \in 1..g.grid BY WorkersUnder
  <2>4. \A j \in 1..9 : SlotWidths(g)[j] \in 1..Alive(g, j)
    BY <2>1, <2>2, PrefixRange DEF Stages
  <2>5. \A s \in 1..9 : Ordered(g, s, s + 1)
    <3> SUFFICES ASSUME NEW s \in 1..9
                 PROVE  Workers(g, s) <= SlotWidths(g)[s] /\ Workers(g, s + 1) <= SlotWidths(g)[s]
      BY DEF Ordered
    <3>1. Workers(g, s) \in 1..g.grid /\ Workers(g, s + 1) \in 1..g.grid BY <2>3 DEF Stages
    <3>2. AfterRms(g) \in 1..g.grid BY PrefixRange
    <3> QED BY <2>2, <3>1, <3>2, WorkersUnder
  <2>6. \A a \in {1, 6, 5, 7} : \A b \in {6, 9, 10} :
            (a < 5 /\ b > 4) \/ (a < 9 /\ b > 8) => Ordered(g, a, b)
    <3> SUFFICES ASSUME NEW a \in {1, 6, 5, 7}, NEW b \in {6, 9, 10},
                        (a < 5 /\ b > 4) \/ (a < 9 /\ b > 8)
                 PROVE  Ordered(g, a, b)
      OBVIOUS
    <3>1. Workers(g, a) \in 1..g.grid /\ Workers(g, b) \in 1..g.grid BY <2>3 DEF Stages
    <3>2. \E j \in {4, 8} : j \in a..(b - 1) OBVIOUS
    <3> QED BY <2>2, <3>1, <3>2 DEF Ordered
  <2> QED BY <2>1, <2>2, <2>3, <2>4, <2>5, <2>6 DEF StagesCovered, Uses, Stages
<1>2. CASE g.pipe
  <2> DEFINE A == PipeA0(g.tiles, g.grid)
             B == PipeB(g.tiles, g.grid)
  <2>1. /\ SlotWidths(g)[1] = A /\ SlotWidths(g)[2] = AfterP2(g)
        /\ SlotWidths(g)[3] = AfterFlash(g)
        /\ \A j \in 4..9 : SlotWidths(g)[j] = B
    BY <1>2 DEF SlotWidths
  <2>2. /\ A \in Nat /\ B \in 1..A /\ AfterP2(g) \in 1..B /\ AfterFlash(g) \in Nat
        /\ 0 < AfterFlash(g)
    BY <1>2, PrefixRange DEF PipeFits
  <2>3. AfterFlash(g) <= B
    BY DEF Geometries, AfterFlash, PipeB, Least, Most, Half, CeilDiv
  <2>4. Alive(g, 1) = A /\ \A s \in 2..10 : Alive(g, s) = B
    BY <1>2, <2>2 DEF Alive, Least
  <2>5. /\ \A s \in Stages : Workers(g, s) \in Nat
        /\ Workers(g, 1) = A
        /\ \A s \in 2..10 : Workers(g, s) <= B
    <3> HIDE DEF A, B
    <3>1. /\ \A s \in Stages : Workers(g, s) \in Nat /\ Workers(g, 1) = A
          /\ \A s \in {3, 4, 7, 8} : Workers(g, s) <= B
          /\ \A s \in {5, 9} : Workers(g, s) = B
          /\ Workers(g, 6) = 1 /\ Workers(g, 10) = 1 /\ Workers(g, 2) <= AfterP2(g)
      BY <1>2, WorkersUnder DEF A, B
    <3> QED BY <2>2, <3>1 DEF Stages
  <2> HIDE DEF A, B
  <2>6. \A s \in Stages : Workers(g, s) <= Alive(g, s) BY <2>4, <2>5, <2>2 DEF Stages
  <2>7. \A j \in 1..9 : SlotWidths(g)[j] \in 1..Alive(g, j)
    BY <2>1, <2>2, <2>3, <2>4
  <2>8. Ordered(g, 1, 2) BY <2>1, <2>2, <2>5 DEF Ordered, Stages
  <2>9. Ordered(g, 2, 3) /\ Ordered(g, 3, 4)
    BY <2>1, WorkersUnder DEF Ordered
  <2>10. \A a \in 4..9 : \A b \in (a + 1)..10 : Ordered(g, a, b)
    <3> SUFFICES ASSUME NEW a \in 4..9, NEW b \in (a + 1)..10
                 PROVE  Ordered(g, a, b)
      OBVIOUS
    <3>1. a \in a..(b - 1) /\ a \in 2..10 /\ b \in 2..10 OBVIOUS
    <3> QED BY <2>1, <2>5, <3>1 DEF Ordered
  <2>11. Ordered(g, 1, 6)
    <3>1. 1 \in 1..(6 - 1) OBVIOUS
    <3> QED BY <2>1, <2>2, <2>5, <3>1 DEF Ordered, Stages
  <2> QED BY <2>1, <2>4, <2>6, <2>7, <2>8, <2>9, <2>10, <2>11 DEF StagesCovered, Uses
<1> QED BY <1>1, <1>2 DEF Geometries

LEMMA Products ==
    ASSUME NEW a \in Nat \ {0}, NEW b \in Nat \ {0}
    PROVE  a * b \in Nat \ {0}
  OBVIOUS

\* Products have tiles, whatever their width.
LEMMA TilesPositive ==
    ASSUME NEW n \in Nat \ {0}, NEW k \in Nat \ {0}, NEW tw \in {256, 512, 1024, 2048}
    PROVE  CeilDiv(n, tw) \in Nat \ {0} /\ Tiles(Plan(n, k), tw) \in Nat \ {0}
<1>1. CeilDiv(n, tw) \in Nat \ {0}
  <2>1. CASE tw = 256 BY <2>1 DEF CeilDiv
  <2>2. CASE tw = 512 BY <2>2 DEF CeilDiv
  <2>3. CASE tw = 1024 BY <2>3 DEF CeilDiv
  <2>4. CASE tw = 2048 BY <2>4 DEF CeilDiv
  <2> QED BY <2>1, <2>2, <2>3, <2>4
<1>2. Slabs(n, k) \in Nat \ {0}
  <2>1. Cols(n) \in Nat \ {0} BY DEF Cols, Most, CeilDiv
  <2>2. \A t \in {96, 192} : CeilDiv(t, Cols(n)) \in Int BY <2>1 DEF CeilDiv
  <2>3. k \div 32 \in Int OBVIOUS
  <2> DEFINE blocks == CeilDiv(IF 2 * n < k THEN 192 ELSE 96, Cols(n))
  <2>4. blocks \in Int BY <2>2
  <2>5. Most(blocks, 1) \in Nat \ {0} /\ Most(k \div 32, 1) \in Nat \ {0}
    <3> HIDE DEF blocks
    <3> QED BY <2>3, <2>4 DEF Most
  <2>6. Slabs(n, k) = Least(Most(blocks, 1), Most(k \div 32, 1)) BY DEF Slabs
  <2> HIDE DEF blocks
  <2> QED BY <2>5, <2>6 DEF Least
<1>3. Tiles(Plan(n, k), tw) = CeilDiv(n, tw) * Slabs(n, k) BY DEF Tiles, Plan
<1> QED BY <1>1, <1>2, <1>3, Products

\* The kernel a build ends with: the pipe is that of the widened kernel.
LEMMA SettledKernel ==
    ASSUME NEW words, NEW occ
    PROVE  LET c == Settled(words, occ)
           IN /\ c.w \in {1, 2} /\ c.wc \in {1, 2, 4} /\ c.pipe \in BOOLEAN
              /\ c.pipe => c.w = 2
<1> DEFINE good(c) == /\ c.w \in {1, 2} /\ c.wc \in {1, 2, 4} /\ c.pipe \in BOOLEAN
                      /\ c.pipe => c.w = 2
           chosen == Chosen(words)
           narrow == Narrow(chosen, occ)
<1>1. chosen = [w |-> chosen.w, wc |-> chosen.wc, pipe |-> chosen.pipe] /\ good(chosen)
  BY DEF Chosen, BlockWidth, ColWidth, PipeOn
<1>2. good(narrow)
  <2> HIDE DEF chosen
  <2> QED BY <1>1 DEF Narrow
<1>3. good(Single(narrow, occ))
  <2> HIDE DEF narrow
  <2> QED BY <1>2 DEF Single
<1> QED BY <1>3 DEF Settled

\* Every layer kernel that LayerFusedKernels::build accepts is covered, on every
\* model and device, whatever the words of its environment and the fallbacks for
\* lack of room; a pipe kernel where its prefixes fit, which build does not check.
THEOREM BuiltIsCovered ==
    ASSUME NEW m \in LayerFusedSpec(Nat \ {0}), NEW words, NEW dev,
           dev.sms \in Int, \A e \in Asked(words, dev.occ) : dev.occ[e] \in Int,
           Buildable(m, words, dev),
           Geometry(m, words, dev).pipe => PipeFits(Geometry(m, words, dev))
    PROVE  /\ StagesCovered(Geometry(m, words, dev))
           /\ SlotWidths(Geometry(m, words, dev)) \in Seq(1..Geometry(m, words, dev).grid)
<1> DEFINE c == Settled(words, dev.occ)
           t == TileCounts(m, c)
           g == Geometry(m, words, dev)
           nqk == m.q_heads * m.d
           kvk == m.kv_heads * m.d
<1>1. c.w \in {1, 2} /\ c.wc \in {1, 2, 4} /\ c.pipe \in BOOLEAN /\ (c.pipe => c.w = 2)
  BY SettledKernel
<1>2. /\ nqk \in Nat \ {0} /\ kvk \in Nat \ {0} /\ m.h \in Nat \ {0} /\ m.ffn \in Nat \ {0}
      /\ m.q_heads \in Nat \ {0}
  <2>1. /\ m.q_heads \in Nat \ {0} /\ m.kv_heads \in Nat \ {0} /\ m.d \in Nat \ {0}
        /\ m.h \in Nat \ {0} /\ m.ffn \in Nat \ {0}
    BY DEF LayerFusedSpec
  <2> QED BY <2>1, Products
<1>3. t \in [qkv : Nat \ {0}, p2 : Nat \ {0}, heads : Nat \ {0}, o : Nat \ {0},
            gu : Nat \ {0}, gu_d : Nat \ {0}]
  <2> DEFINE tw == IF c.w = 2 THEN 256 * c.wc ELSE 512
             tw7 == IF c.w = 2 /\ c.wc > 1 THEN 512 * c.wc ELSE 512
             tw_p2 == IF c.w = 2 THEN 256 ELSE 512
             Q_ == Tiles(Plan(nqk, m.h), tw)
             K_ == Tiles(Plan(kvk, m.h), tw)
             Gate_ == Tiles(Plan(m.ffn, m.h), tw)
             cq == CeilDiv(nqk, tw_p2)
             ck == CeilDiv(kvk, tw_p2)
  <2>1. tw \in {256, 512, 1024} /\ tw7 \in {512, 1024, 2048} /\ tw_p2 \in {256, 512}
    <3> HIDE DEF c
    <3> QED BY <1>1
  <2>2. t = [qkv |-> Q_ + K_ + K_, p2 |-> cq + 2 * ck, heads |-> m.q_heads,
             o |-> Tiles(Plan(m.h, nqk), 512), gu |-> 2 * Gate_,
             gu_d |-> Tiles(Plan(m.h, m.ffn), tw7)]
    BY DEF TileCounts, Plans, Q, K, V, O, Gate, Down, Plan
  <2>3. /\ Q_ \in Nat \ {0} /\ K_ \in Nat \ {0} /\ Gate_ \in Nat \ {0}
        /\ cq \in Nat \ {0} /\ ck \in Nat \ {0}
        /\ Tiles(Plan(m.h, nqk), 512) \in Nat \ {0}
        /\ Tiles(Plan(m.h, m.ffn), tw7) \in Nat \ {0}
    <3> HIDE DEF tw, tw7, tw_p2, nqk, kvk
    <3> QED BY <1>2, <2>1, TilesPositive
  <2> HIDE DEF Q_, K_, Gate_, cq, ck, t, tw7, nqk
  <2> QED BY <1>2, <2>2, <2>3
<1>4. g = [w |-> c.w, pipe |-> c.pipe,
           grid |-> Most(Least(dev.occ[Entry(c)] * dev.sms, MaxTiles(t)), 1), tiles |-> t]
  BY DEF Geometry
<1>5. g.grid \in Nat \ {0}
  <2>1. dev.occ[Entry(c)] * dev.sms \in Int
    BY DEF Asked
  <2>2. MaxTiles(t) \in Int
    <3> HIDE DEF t
    <3> QED BY <1>3 DEF MaxTiles, Most
  <2> HIDE DEF c, t
  <2> QED BY <1>4, <2>1, <2>2 DEF Most, Least
<1>6. g \in Geometries
  <2> HIDE DEF c, t
  <2> QED BY <1>1, <1>3, <1>4, <1>5 DEF Geometries
<1>7. g.pipe => g.w = 2
  <2> HIDE DEF c, t
  <2> QED BY <1>1, <1>4
<1> HIDE DEF g
<1>8. g.pipe => PipeFits(g) BY DEF g
<1>9. StagesCovered(g) /\ SlotWidths(g) \in Seq(1..g.grid)
  BY <1>6, <1>7, <1>8, LayerKernelCovered, WidthsInGrid
<1> QED BY <1>9 DEF g
=============================================================================
