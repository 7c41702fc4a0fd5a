------------------------------ MODULE PokeProofs ------------------------------
(***************************************************************************)
(* What is proved of the rules of the cards, for any deck and any hand: the  *)
(* order of the combinations (PokeOrder), and that GetPokeCarsdType names    *)
(* them as the rules do (PokeRules). The invariant is that the hand is       *)
(* sorted; the rest counts how often numbers are found in a sorted list, and *)
(* follows the classifier by the number of equal cards found most often.     *)
(***************************************************************************)
EXTENDS PokeOrder, PokeRules, SequenceLemmas, FiniteSetTheorems

-----------------------------------------------------------------------------
\* The order of the combinations.

MainPokes == Poke \cup {NoPoke}

(* Poke.CompareTo orders cards by number and jokers by color.                *)
LEMMA PokeFields ==
  ASSUME NEW p \in MainPokes
  PROVE  p.number \in Int /\ p.color \in Int
BY DEF MainPokes, Poke, NoPoke, MIN, MAX, TWO, SuitColors, JokerColors

(* Poke.CompareTo answers -1, 0 or 1, and the opposite the other way round.  *)
LEMMA PokeCompareAntisymmetric ==
  ASSUME NEW p \in MainPokes, NEW q \in MainPokes
  PROVE  /\ PokeCompareTo(p, q) \in {-1, 0, 1}
         /\ PokeCompareTo(p, q) = -PokeCompareTo(q, p)
BY PokeFields DEF PokeCompareTo, Sign, MAX

(* A card above one that is above a third is above the third.                *)
LEMMA PokeCompareTransitive ==
  ASSUME NEW p \in MainPokes, NEW q \in MainPokes, NEW r \in MainPokes,
         PokeCompareTo(p, q) > 0, PokeCompareTo(q, r) > 0
  PROVE  PokeCompareTo(p, r) > 0
BY PokeFields DEF PokeCompareTo, Sign, MAX

(* The fields of a combination.                                             *)
LEMMA ComboFields ==
  ASSUME NEW c \in PokeCardsType
  PROVE  c.type \in PokeCmbType /\ c.mainPoke \in MainPokes /\ c.continuousNum \in Nat
BY DEF PokeCardsType, MainPokes

(* Two runs compare opposite ways from the two sides.                        *)
LEMMA RunsAntisymmetric ==
  ASSUME NEW a \in PokeCardsType, NEW b \in PokeCardsType
  PROVE  /\ CompareRuns(a, b) \in {-1, 0, 1}
         /\ CompareRuns(a, b) = -CompareRuns(b, a)
BY ComboFields, PokeCompareAntisymmetric DEF CompareRuns

(* A run above one that is above a third is above the third.                 *)
LEMMA RunsTransitive ==
  ASSUME NEW a \in PokeCardsType, NEW b \in PokeCardsType, NEW c \in PokeCardsType,
         CompareRuns(a, b) > 0, CompareRuns(b, c) > 0
  PROVE  CompareRuns(a, c) > 0
BY ComboFields, PokeCompareAntisymmetric, PokeCompareTransitive DEF CompareRuns

(* So do two combinations of a type.                                         *)
LEMMA SameTypeAntisymmetric ==
  ASSUME NEW a \in PokeCardsType, NEW b \in PokeCardsType, a.type = b.type
  PROVE  CompareSameType(a, b) = -CompareSameType(b, a)
BY ComboFields, PokeCompareAntisymmetric, RunsAntisymmetric
   DEF CompareSameType, Sign, GroupTypes, StraightTypes, RunTypes

(* And so is a combination among those of its type.                          *)
LEMMA SameTypeTransitive ==
  ASSUME NEW a \in PokeCardsType, NEW b \in PokeCardsType, NEW c \in PokeCardsType,
         a.type = b.type, b.type = c.type,
         CompareSameType(a, b) > 0, CompareSameType(b, c) > 0
  PROVE  CompareSameType(a, c) > 0
BY ComboFields, PokeCompareAntisymmetric, PokeCompareTransitive, RunsTransitive
   DEF CompareSameType, Sign, GroupTypes, StraightTypes, RunTypes

(* CompareTo(a, b) = -CompareTo(b, a) for any two combinations.              *)
LEMMA CompareAntisymmetric ==
  ASSUME NEW a \in PokeCardsType, NEW b \in PokeCardsType
  PROVE  CompareTo(a, b) = -CompareTo(b, a)
<1>1. CASE a.type = b.type
  BY <1>1, SameTypeAntisymmetric DEF CompareTo
<1>2. CASE a.type # b.type
  BY <1>2 DEF CompareTo, CompareOtherType
<1> QED  BY <1>1, <1>2

(* The bombs, and the flush over the straight of its length, cannot close a  *)
(* cycle of winners.                                                         *)
LEMMA CompareTransitive ==
  ASSUME NEW a \in PokeCardsType, NEW b \in PokeCardsType, NEW c \in PokeCardsType,
         Beats(a, b), Beats(b, c)
  PROVE  Beats(a, c)
<1>1. CASE a.type = b.type /\ b.type = c.type
  BY <1>1, SameTypeTransitive DEF Beats, CompareTo
<1>2. CASE a.type = b.type /\ b.type # c.type
  <2>1. CompareOtherType(b, c) > 0 /\ CompareSameType(a, b) > 0
    BY <1>2 DEF Beats, CompareTo
  <2>2. b.type \in {"JOKER_QUADS", "QUADS", "FLUSH_STRAIGHT"}
    BY <2>1 DEF CompareOtherType
  <2>3. a.type = "FLUSH_STRAIGHT" => a.continuousNum = b.continuousNum
    BY <2>1, <1>2 DEF CompareSameType, GroupTypes
  <2> QED
    BY <1>2, <2>1, <2>2, <2>3 DEF Beats, CompareTo, CompareOtherType
<1>3. CASE a.type # b.type /\ b.type = c.type
  <2>1. CompareOtherType(a, b) > 0 /\ CompareSameType(b, c) > 0
    BY <1>3 DEF Beats, CompareTo
  <2>2. b.type = "STRAIGHT" => b.continuousNum = c.continuousNum
    BY <2>1, <1>3 DEF CompareSameType, GroupTypes
  <2> QED
    BY <1>3, <2>1, <2>2 DEF Beats, CompareTo, CompareOtherType
<1>4. CASE a.type # b.type /\ b.type # c.type
  BY <1>4 DEF Beats, CompareTo, CompareOtherType
<1> QED  BY <1>1, <1>2, <1>3, <1>4

(* A winner that is no bomb has the loser's kind and length.                 *)
LEMMA BeatsWithinShape ==
  ASSUME NEW a \in ClassifiedCombos, NEW b \in ClassifiedCombos, Beats(a, b)
  PROVE  a.type \in BombTypes \/ SameShape(a, b)
<1>1. CASE a.type = b.type
  <2>1. CompareSameType(a, b) > 0
    BY <1>1 DEF Beats, CompareTo
  <2> QED  BY <1>1, <2>1 DEF CompareSameType, SameShape, BombTypes, ClassifiedCombos
<1>2. CASE a.type # b.type
  <2>1. CompareOtherType(a, b) > 0
    BY <1>2 DEF Beats, CompareTo
  <2> QED  BY <1>2, <2>1 DEF CompareOtherType, SameShape, BombTypes, StraightTypes
<1> QED  BY <1>1, <1>2

(* Every combination on the table is one of Combos.                          *)
THEOREM Typed == Spec => []TypeOK
<1>1. Init => TypeOK
  BY DEF Init, TypeOK
<1>2. TypeOK /\ [Next]_compared => TypeOK'
  BY DEF TypeOK, Next, Lay
<1> QED  BY <1>1, <1>2, PTL DEF Spec

(* The types of the two sides give opposite answers, whatever is laid.       *)
THEOREM Antisymmetric == Spec => []CompareIsAntisymmetric
<1>1. TypeOK => CompareIsAntisymmetric
  BY CombosAssumption, CompareAntisymmetric
     DEF TypeOK, CompareIsAntisymmetric, ClassifiedCombos
<1> QED  BY <1>1, Typed, PTL

(* No cycle of winners, whatever is laid.                                    *)
THEOREM Transitive == Spec => []BeatsIsTransitive
<1>1. TypeOK => BeatsIsTransitive
  BY CombosAssumption, CompareTransitive
     DEF TypeOK, BeatsIsTransitive, ClassifiedCombos
<1> QED  BY <1>1, Typed, PTL

(* Only a bomb beats another shape, whatever is laid.                        *)
THEOREM BombsOnly == Spec => []OnlyBombsBeatOtherShapes
<1>1. TypeOK => OnlyBombsBeatOtherShapes
  BY CombosAssumption, BeatsWithinShape DEF TypeOK, OnlyBombsBeatOtherShapes
<1> QED  BY <1>1, Typed, PTL

-----------------------------------------------------------------------------
\* The hand.

\* The places of a number in a list of cards.
PlacesOf(cards, n) == {i \in DOMAIN cards : cards[i].number = n}

\* A list in the order of Poke.CompareTo.
InOrder(cards) == \A i, j \in DOMAIN cards : i < j => ~SortsBefore(cards[j], cards[i])

HandInv == mine \in Seq(Poke) /\ game \in Games /\ InOrder(mine)

-----------------------------------------------------------------------------
(* The number and the color of a card.                                        *)
LEMMA CardFields ==
  ASSUME NEW p \in Poke
  PROVE  p.number \in MIN..MAX /\ p.color \in Nat
BY DEF Poke, MIN, MAX, TWO, SuitColors, JokerColors

(* The cards of a list in order come by their numbers.                        *)
LEMMA SortsByNumber ==
  ASSUME NEW p \in Poke, NEW q \in Poke, ~SortsBefore(q, p)
  PROVE  p.number <= q.number
<1>1. p.number \in 3..16 /\ q.number \in 3..16
  BY CardFields DEF MIN, MAX
<1>2. CASE q.number < p.number
  <2>1. q.number # p.number /\ q.number - p.number < 0
    BY <1>1, <1>2
  <2>2. PokeCompareTo(q, p) = Sign(q.number - p.number)
    BY <2>1 DEF PokeCompareTo
  <2>3. PokeCompareTo(q, p) < 0
    BY <1>1, <2>1, <2>2 DEF Sign
  <2> QED
    BY <2>3 DEF SortsBefore
<1> QED
  BY <1>1, <1>2

(* Sorting in a card keeps the hand one of cards in order.                    *)
LEMMA SortedEffect ==
  ASSUME NEW hand \in Seq(Poke), InOrder(hand), NEW poke \in Poke,
         NEW sorted \in Sortings(hand, poke)
  PROVE  sorted \in Seq(Poke) /\ InOrder(sorted)
<1> DEFINE n == Len(hand)
<1>1. n \in Nat /\ DOMAIN hand = 1..n /\ \A i \in 1..n : hand[i] \in Poke
  BY LenProperties, ElementOfSeq
<1>2. PICK at \in 1..(n + 1) :
        /\ sorted = InsertAt(hand, at, poke)
        /\ \A i \in 1..n : /\ i < at => ~SortsBefore(poke, hand[i])
                           /\ i >= at => ~SortsBefore(hand[i], poke)
  BY <1>1 DEF Sortings
<1> DEFINE k == at - 1
           head == SubSeq(hand, 1, k)
           tail == SubSeq(hand, k + 1, n)
<1>5. k \in 0..n
  BY <1>1
<1>6. sorted = (head \o <<poke>>) \o tail
  <2>1. (k + 1) = at
    BY <1>1
  <2> QED
    BY <1>2, <2>1 DEF InsertAt
<1>7. /\ head \in Seq(Poke) /\ Len(head) = k /\ \A i \in 1..k : head[i] = hand[i]
      /\ tail \in Seq(Poke) /\ Len(tail) = n - k /\ \A i \in 1..(n - k) : tail[i] = hand[k + i]
  <2>1. /\ 1 \in Int /\ k \in Int /\ k + 1 \in Int /\ n \in Int
        /\ \A i \in 1..k : hand[i] \in Poke
        /\ \A i \in (k + 1)..n : hand[i] \in Poke
    <3> HIDE DEF k, n
    <3> QED
      BY <1>1, <1>5
  <2> HIDE DEF k, n
  <2>2. head \in Seq(Poke) /\ Len(head) = k /\ \A i \in 1..k : head[i] = hand[i]
    BY <1>1, <1>5, <2>1, SubSeqProperties
  <2>3. tail \in Seq(Poke) /\ Len(tail) = n - k /\ \A i \in 1..(n - k) : tail[i] = hand[k + i]
    BY <1>1, <1>5, <2>1, SubSeqProperties
  <2> QED
    BY <2>2, <2>3
<1>3. \A i \in 1..k : ~SortsBefore(poke, hand[i])
  BY <1>1, <1>2
<1>4. \A i \in (k + 1)..n : ~SortsBefore(hand[i], poke)
  BY <1>1, <1>2
<1> HIDE DEF head, tail, k, n
<1>8. /\ sorted \in Seq(Poke) /\ Len(sorted) = n + 1
      /\ \A i \in 1..(n + 1) : sorted[i] = IF i <= k THEN hand[i]
                                           ELSE IF i = k + 1 THEN poke ELSE hand[i - 1]
  <2>1. /\ head \o <<poke>> \in Seq(Poke) /\ Len(head \o <<poke>>) = k + 1
        /\ \A i \in 1..(k + 1) : (head \o <<poke>>)[i] = IF i <= k THEN hand[i] ELSE poke
    BY <1>5, <1>7, ConcatProperties
  <2> DEFINE front == head \o <<poke>>
  <2>4. front \in Seq(Poke) /\ Len(front) = k + 1 /\ sorted = front \o tail
    BY <1>6, <2>1
  <2> HIDE DEF front
  <2>5. /\ sorted \in Seq(Poke) /\ Len(sorted) = (k + 1) + (n - k)
        /\ \A i \in 1..((k + 1) + (n - k)) :
             sorted[i] = IF i <= k + 1 THEN front[i] ELSE tail[i - (k + 1)]
    <3>1. /\ front \o tail \in Seq(Poke) /\ Len(front \o tail) = Len(front) + Len(tail)
          /\ \A i \in 1..(Len(front) + Len(tail)) :
               (front \o tail)[i] = IF i <= Len(front) THEN front[i] ELSE tail[i - Len(front)]
      BY <1>7, <2>4, ConcatProperties
    <3> QED
      BY <1>7, <2>4, <3>1
  <2>6. (k + 1) + (n - k) = n + 1
    BY <1>1, <1>5
  <2>2. /\ sorted \in Seq(Poke) /\ Len(sorted) = n + 1
        /\ \A i \in 1..(n + 1) :
             sorted[i] = IF i <= k + 1 THEN front[i] ELSE tail[i - (k + 1)]
    BY <2>5, <2>6
  <2>3. \A i \in 1..(n + 1) : sorted[i] = IF i <= k THEN hand[i]
                                           ELSE IF i = k + 1 THEN poke ELSE hand[i - 1]
    <3> TAKE i \in 1..(n + 1)
    <3>4. \A l \in 1..(k + 1) : front[l] = IF l <= k THEN hand[l] ELSE poke
      BY <2>1 DEF front
    <3>1. CASE i <= k
      BY <1>1, <1>5, <3>4, <2>2, <3>1
    <3>2. CASE i = k + 1
      BY <1>1, <1>5, <3>4, <2>2, <3>2
    <3>3. CASE i > k + 1
      <4>1. i - (k + 1) \in 1..(n - k) /\ k + (i - (k + 1)) = i - 1 /\ ~(i <= k + 1)
        BY <1>1, <1>5, <3>3
      <4> QED
        BY <1>7, <2>2, <3>3, <4>1
    <3> QED
      BY <1>1, <1>5, <3>1, <3>2, <3>3
  <2> QED
    BY <1>1, <1>5, <2>2, <2>3
<1>9. ASSUME NEW i \in 1..(n + 1), NEW j \in 1..(n + 1), i < j
      PROVE  ~SortsBefore(sorted[j], sorted[i])
  <2> DEFINE old(l) == IF l <= k THEN l ELSE l - 1
  <2>1. CASE i # k + 1 /\ j # k + 1
    <3>1. old(i) \in 1..n /\ old(j) \in 1..n /\ old(i) < old(j)
      BY <1>1, <1>5, <1>9, <2>1
    <3>2. sorted[i] = hand[old(i)] /\ sorted[j] = hand[old(j)]
      BY <1>5, <1>8, <2>1
    <3> QED
      BY <1>1, <3>1, <3>2 DEF InOrder
  <2>2. CASE j = k + 1
    <3>1. i \in 1..k /\ sorted[i] = hand[i] /\ sorted[j] = poke
      BY <1>1, <1>5, <1>8, <1>9, <2>2
    <3>2. ~SortsBefore(poke, hand[i])
      BY <1>3, <3>1
    <3> QED
      BY <3>1, <3>2
  <2>3. CASE i = k + 1
    <3>1. j - 1 \in (k + 1)..n
      BY <1>1, <1>5, <1>9, <2>3
    <3>2. sorted[j] = hand[j - 1] /\ sorted[i] = poke
      BY <1>5, <1>8, <1>9, <2>3
    <3>3. ~SortsBefore(hand[j - 1], poke)
      BY <1>4, <3>1
    <3> QED
      BY <3>2, <3>3
  <2> QED
    BY <2>1, <2>2, <2>3
<1>10. InOrder(sorted)
  BY <1>8, <1>9 DEF InOrder
<1> QED
  BY <1>8, <1>10

(* Whatever cards GenerateOnePoke adds, the hand stays a list of cards in the *)
(* order of Poke.CompareTo.                                                   *)
LEMMA HandInvHolds == HandsSpec => []HandInv
<1>1. HandsInit => HandInv
  BY DEF HandsInit, HandInv, InOrder
<1>2. HandInv /\ [HandsNext]_<<mine, game>> => HandInv'
  <2> SUFFICES ASSUME HandInv, [HandsNext]_<<mine, game>> PROVE HandInv'
    OBVIOUS
  <2>1. ASSUME NEW poke \in game.deck, GenerateOnePoke(poke) PROVE HandInv'
    <3>1. poke \in Poke
      BY GamesAssumption DEF HandInv
    <3> QED
      BY <2>1, <3>1, SortedEffect DEF HandInv, GenerateOnePoke
  <2>2. CASE UNCHANGED <<mine, game>>
    BY <2>2 DEF HandInv
  <2> QED
    BY <2>1, <2>2 DEF HandsNext
<1> QED
  BY <1>1, <1>2, PTL DEF HandsSpec

-----------------------------------------------------------------------------
\* Counting.

(* How often numbers are found in a list.                                     *)
LEMMA Counting ==
  ASSUME NEW cards \in Seq(Poke), NEW n
  PROVE  /\ PlacesOf(cards, n) \in SUBSET (1..Len(cards))
         /\ IsFiniteSet(PlacesOf(cards, n))
         /\ Times(cards, n) = Cardinality(PlacesOf(cards, n))
         /\ Times(cards, n) \in 0..Len(cards)
         /\ (Times(cards, n) = 0 <=> (\A i \in DOMAIN cards : cards[i].number # n))
         /\ (Times(cards, n) = Len(cards) <=> (\A i \in DOMAIN cards : cards[i].number = n))
<1> DEFINE P == PlacesOf(cards, n)
<1>1. DOMAIN cards = 1..Len(cards) /\ Len(cards) \in Nat
  BY LenProperties
<1>2. P \in SUBSET (1..Len(cards))
  BY <1>1 DEF PlacesOf
<1>3. IsFiniteSet(1..Len(cards)) /\ Cardinality(1..Len(cards)) = Len(cards)
  BY <1>1, FS_Interval
<1>4. Times(cards, n) = Cardinality(P)
  BY DEF Times, PlacesOf
<1>5. IsFiniteSet(P) /\ Cardinality(P) <= Len(cards) /\ (Len(cards) = Cardinality(P) => 1..Len(cards) = P)
  <2> HIDE DEF P
  <2> QED
    BY <1>2, <1>3, FS_Subset
<1>6. Cardinality(P) \in Nat /\ (Cardinality(P) = 0 <=> P = {})
  <2> HIDE DEF P
  <2> QED
    BY <1>5, FS_EmptySet, FS_CardinalityType
<1>7. P = {} <=> (\A i \in DOMAIN cards : cards[i].number # n)
  BY DEF PlacesOf
<1>8. P = 1..Len(cards) <=> (\A i \in DOMAIN cards : cards[i].number = n)
  BY <1>1 DEF PlacesOf
<1>9. P = 1..Len(cards) => Cardinality(P) = Len(cards)
  BY <1>3
<1> HIDE DEF P
<1>10. /\ Times(cards, n) \in 0..Len(cards)
       /\ (Times(cards, n) = 0 <=> (\A i \in DOMAIN cards : cards[i].number # n))
       /\ (Times(cards, n) = Len(cards) <=> (\A i \in DOMAIN cards : cards[i].number = n))
  BY <1>1, <1>4, <1>5, <1>6, <1>7, <1>8, <1>9
<1> QED
  BY <1>2, <1>4, <1>5, <1>10 DEF P

(* Places of different numbers are different places.                          *)
LEMMA CountingTwo ==
  ASSUME NEW cards \in Seq(Poke), NEW m, NEW n, m # n
  PROVE  /\ Times(cards, m) + Times(cards, n) <= Len(cards)
         /\ Times(cards, m) + Times(cards, n) = Len(cards)
              => (\A i \in DOMAIN cards : cards[i].number \in {m, n})
<1> DEFINE P == PlacesOf(cards, m)
           Q == PlacesOf(cards, n)
<1>1. DOMAIN cards = 1..Len(cards) /\ Len(cards) \in Nat
  BY LenProperties
<1>2. /\ IsFiniteSet(P) /\ Times(cards, m) = Cardinality(P) /\ Times(cards, m) \in Nat
      /\ IsFiniteSet(Q) /\ Times(cards, n) = Cardinality(Q) /\ Times(cards, n) \in Nat
      /\ P \cup Q \in SUBSET (1..Len(cards))
  BY Counting
<1>3. P \cap Q = {}
  BY DEF PlacesOf
<1>4. IsFiniteSet(1..Len(cards)) /\ Cardinality(1..Len(cards)) = Len(cards)
  BY <1>1, FS_Interval
<1>5. \A i \in P \cup Q : cards[i].number \in {m, n}
  BY DEF PlacesOf
<1> HIDE DEF P, Q
<1>7. Cardinality(P \cup Q) = Times(cards, m) + Times(cards, n)
  <2>1. Cardinality(P \cup Q) = Cardinality(P) + Cardinality(Q)
    BY <1>2, <1>3, CountingApart
  <2> QED
    BY <1>2, <2>1
<1>8. Cardinality(P \cup Q) <= Len(cards) /\ (Len(cards) = Cardinality(P \cup Q) => 1..Len(cards) = P \cup Q)
  BY <1>2, <1>4, FS_Subset
<1> QED
  BY <1>1, <1>5, <1>7, <1>8

(* And so are those of three.                                                 *)
LEMMA CountingThree ==
  ASSUME NEW cards \in Seq(Poke), NEW l, NEW m, NEW n, l # m, m # n, l # n
  PROVE  Times(cards, l) + Times(cards, m) + Times(cards, n) <= Len(cards)
<1> DEFINE O == PlacesOf(cards, l)
           P == PlacesOf(cards, m)
           Q == PlacesOf(cards, n)
<1>1. Len(cards) \in Nat
  BY LenProperties
<1>2. /\ IsFiniteSet(O) /\ Times(cards, l) = Cardinality(O) /\ Times(cards, l) \in Nat
      /\ IsFiniteSet(P) /\ Times(cards, m) = Cardinality(P) /\ Times(cards, m) \in Nat
      /\ IsFiniteSet(Q) /\ Times(cards, n) = Cardinality(Q) /\ Times(cards, n) \in Nat
      /\ (O \cup P) \cup Q \in SUBSET (1..Len(cards))
  BY Counting
<1>3. O \cap P = {} /\ (O \cup P) \cap Q = {}
  BY DEF PlacesOf
<1>4. IsFiniteSet(1..Len(cards)) /\ Cardinality(1..Len(cards)) = Len(cards)
  BY <1>1, FS_Interval
<1> HIDE DEF O, P, Q
<1>5. IsFiniteSet(O \cup P) /\ Cardinality(O \cup P) = Cardinality(O) + Cardinality(P)
  BY <1>2, <1>3, CountingApart
<1>6. Cardinality((O \cup P) \cup Q) = Cardinality(O \cup P) + Cardinality(Q)
  BY <1>2, <1>3, <1>5, CountingApart
<1>7. Cardinality((O \cup P) \cup Q) <= Len(cards)
  BY <1>2, <1>4, FS_Subset
<1> QED
  BY <1>2, <1>5, <1>6, <1>7

(* Numbers that are found k times each fill no more places than there are, and *)
(* if they fill all of them there are no other numbers.                       *)
LEMMA CountingMany ==
  ASSUME NEW cards \in Seq(Poke), NEW R, R \subseteq MIN..MAX, NEW k \in Nat \ {0},
         \A n \in R : Times(cards, n) >= k
  PROVE  /\ IsFiniteSet(R) /\ Cardinality(R) \in Nat /\ Cardinality(R) * k <= Len(cards)
         /\ Cardinality(R) * k = Len(cards) =>
              /\ \A i \in DOMAIN cards : cards[i].number \in R
              /\ \A n \in R : Times(cards, n) = k
<1> DEFINE places == DOMAIN cards
           b == [n \in R |-> CHOOSE g : g \in Bijection(1..Times(cards, n), PlacesOf(cards, n))]
           f == [pair \in R \X (1..k) |-> b[pair[1]][pair[2]]]
<1>1. places = 1..Len(cards) /\ Len(cards) \in Nat
  BY LenProperties
<1>2. IsFiniteSet(places) /\ Cardinality(places) = Len(cards)
  BY <1>1, FS_Interval
<1>3. IsFiniteSet(R) /\ Cardinality(R) \in Nat
  <2>1. MIN \in Int /\ MAX \in Int
    BY DEF MIN, MAX
  <2>2. IsFiniteSet(MIN..MAX)
    BY <2>1, FS_Interval
  <2> QED
    BY <2>2, FS_Subset, FS_CardinalityType
<1>4. IsFiniteSet(R \X (1..k)) /\ Cardinality(R \X (1..k)) = Cardinality(R) * k
  <2>1. IsFiniteSet(1..k) /\ Cardinality(1..k) = k
    BY FS_Interval
  <2> QED
    BY <1>3, <2>1, FS_Product
<1>5. ASSUME NEW n \in R PROVE b[n] \in Bijection(1..Times(cards, n), PlacesOf(cards, n))
  <2>1. ExistsBijection(1..Times(cards, n), PlacesOf(cards, n))
    BY Counting, FS_CardinalityType
  <2>2. \E g : g \in Bijection(1..Times(cards, n), PlacesOf(cards, n))
    BY <2>1 DEF ExistsBijection
  <2> QED
    BY <2>2
<1> HIDE DEF b
<1>6. ASSUME NEW n \in R
      PROVE  /\ \A t \in 1..Times(cards, n) : b[n][t] \in places /\ cards[b[n][t]].number = n
             /\ \A t, u \in 1..Times(cards, n) : b[n][t] = b[n][u] => t = u
  BY <1>5 DEF Bijection, Injection, IsInjective, PlacesOf
<1>7. \A n \in R : Times(cards, n) \in Nat /\ 1..k \subseteq 1..Times(cards, n)
  BY Counting
<1>8. \A n \in R : \A t \in 1..k : f[<<n, t>>] = b[n][t]
  OBVIOUS
<1>9. \A n \in R : \A t \in 1..k : f[<<n, t>>] \in places /\ cards[f[<<n, t>>]].number = n
  BY <1>6, <1>7, <1>8
<1>10. f \in [R \X (1..k) -> places]
  BY <1>6, <1>7
<1>11. ASSUME NEW m \in R, NEW t \in 1..k, NEW n \in R, NEW u \in 1..k, f[<<m, t>>] = f[<<n, u>>]
       PROVE  m = n /\ t = u
  <2> HIDE DEF f, places
  <2>1. m = n
    BY <1>9, <1>11
  <2>2. b[n][t] = b[n][u]
    BY <1>8, <1>11, <2>1
  <2>3. t \in 1..Times(cards, n) /\ u \in 1..Times(cards, n)
    BY <1>7
  <2> QED
    BY <1>6, <2>1, <2>2, <2>3
<1> HIDE DEF f, places
<1>12. f \in Injection(R \X (1..k), places)
  <2>1. \A x \in R \X (1..k) : x[1] \in R /\ x[2] \in 1..k /\ x = <<x[1], x[2]>>
    OBVIOUS
  <2>2. \A x, y \in R \X (1..k) : f[x] = f[y] => x[1] = y[1] /\ x[2] = y[2]
    <3> TAKE x, y \in R \X (1..k)
    <3> HAVE f[x] = f[y]
    <3>1. x = <<x[1], x[2]>> /\ y = <<y[1], y[2]>>
      BY <2>1
    <3>2. f[<<x[1], x[2]>>] = f[<<y[1], y[2]>>]
      BY <3>1
    <3>3. x[1] \in R /\ x[2] \in 1..k /\ y[1] \in R /\ y[2] \in 1..k
      BY <2>1
    <3>4. \A m \in R : \A t \in 1..k : \A n \in R : \A u \in 1..k :
            f[<<m, t>>] = f[<<n, u>>] => m = n /\ t = u
      BY <1>11
    <3> QED
      BY ONLY <3>2, <3>3, <3>4, SMT
  <2>3. \A x, y \in R \X (1..k) : f[x] = f[y] => x = y
    <3> TAKE x, y \in R \X (1..k)
    <3> HAVE f[x] = f[y]
    <3>1. x[1] = y[1] /\ x[2] = y[2]
      BY <2>2
    <3>2. x = <<x[1], x[2]>> /\ y = <<y[1], y[2]>>
      BY <2>1
    <3> QED
      BY <3>1, <3>2
  <2> QED
    BY <1>10, <2>3 DEF Injection, IsInjective
<1>13. /\ Cardinality(R \X (1..k)) <= Cardinality(places)
       /\ Cardinality(R \X (1..k)) = Cardinality(places) <=> f \in Surjection(R \X (1..k), places)
  BY <1>2, <1>12, FS_Injection
<1>14. Cardinality(R) * k <= Len(cards)
  BY <1>2, <1>4, <1>13
<1>15. ASSUME Cardinality(R) * k = Len(cards)
       PROVE  /\ \A i \in places : cards[i].number \in R
              /\ \A n \in R : Times(cards, n) = k
  <2>1. \A i \in places : \E x \in R \X (1..k) : f[x] = i
    BY <1>2, <1>4, <1>13, <1>15 DEF Surjection
  <2>2. \A i \in places : \E n \in R, t \in 1..k : f[<<n, t>>] = i
    <3> TAKE i \in places
    <3>1. PICK x \in R \X (1..k) : f[x] = i
      BY <2>1
    <3>2. x[1] \in R /\ x[2] \in 1..k /\ f[<<x[1], x[2]>>] = i
      BY <3>1
    <3> QED
      BY <3>2
  <2>3. \A i \in places : cards[i].number \in R
    <3> TAKE i \in places
    <3>1. PICK n \in R, t \in 1..k : f[<<n, t>>] = i
      BY <2>2
    <3> QED
      BY <1>9, <3>1
  <2>4. ASSUME NEW n \in R, Times(cards, n) # k PROVE FALSE
    <3>1. k + 1 \in 1..Times(cards, n)
      BY <1>7, <2>4
    <3>2. b[n][k + 1] \in places /\ cards[b[n][k + 1]].number = n
      BY <1>6, <3>1
    <3>3. PICK m \in R, t \in 1..k : f[<<m, t>>] = b[n][k + 1]
      BY <2>2, <3>2
    <3>4. m = n /\ b[n][t] = b[n][k + 1]
      BY <1>8, <1>9, <3>2, <3>3
    <3>5. t \in 1..Times(cards, n)
      BY <1>7
    <3>6. t = k + 1
      BY <1>6, <3>1, <3>4, <3>5
    <3> QED
      BY <3>6
  <2> QED
    BY <2>3, <2>4
<1> QED
  BY <1>3, <1>14, <1>15 DEF places

(* And numbers that are found no more than k times fill no more than k each.   *)
LEMMA CountingAll ==
  ASSUME NEW cards \in Seq(Poke), NEW R, R \subseteq MIN..MAX, NEW k \in Nat,
         \A i \in DOMAIN cards : cards[i].number \in R,
         \A n \in R : Times(cards, n) <= k
  PROVE  IsFiniteSet(R) /\ Cardinality(R) \in Nat /\ Len(cards) <= Cardinality(R) * k
<1> DEFINE places == DOMAIN cards
           b == [n \in R |-> CHOOSE g : g \in Bijection(PlacesOf(cards, n), 1..Times(cards, n))]
           f == [i \in places |-> <<cards[i].number, b[cards[i].number][i]>>]
<1>1. places = 1..Len(cards) /\ Len(cards) \in Nat
  BY LenProperties
<1>2. IsFiniteSet(places) /\ Cardinality(places) = Len(cards)
  <2>1. IsFiniteSet(1..Len(cards)) /\ Cardinality(1..Len(cards)) = Len(cards)
    BY ONLY <1>1, FS_Interval
  <2> QED
    BY ONLY <1>1, <2>1
<1>3. IsFiniteSet(R) /\ Cardinality(R) \in Nat
  <2>1. MIN \in Int /\ MAX \in Int
    BY DEF MIN, MAX
  <2>2. IsFiniteSet(MIN..MAX)
    BY <2>1, FS_Interval
  <2> QED
    BY <2>2, FS_Subset, FS_CardinalityType
<1>4. IsFiniteSet(R \X (1..k)) /\ Cardinality(R \X (1..k)) = Cardinality(R) * k
  <2>1. IsFiniteSet(1..k) /\ Cardinality(1..k) = k
    BY FS_Interval
  <2> QED
    BY <1>3, <2>1, FS_Product
<1>5. ASSUME NEW n \in R PROVE b[n] \in Bijection(PlacesOf(cards, n), 1..Times(cards, n))
  <2>1. /\ Times(cards, n) \in Nat /\ IsFiniteSet(PlacesOf(cards, n))
        /\ Cardinality(PlacesOf(cards, n)) = Times(cards, n)
    BY Counting
  <2>2. IsFiniteSet(1..Times(cards, n)) /\ Cardinality(1..Times(cards, n)) = Times(cards, n)
    BY <2>1, FS_Interval
  <2>3. ExistsBijection(PlacesOf(cards, n), 1..Times(cards, n))
    BY <2>1, <2>2, FS_SameCardinalityBij
  <2>4. \E g : g \in Bijection(PlacesOf(cards, n), 1..Times(cards, n))
    BY <2>3 DEF ExistsBijection
  <2> QED
    BY <2>4
<1> HIDE DEF b
<1>6. ASSUME NEW i \in places
      PROVE  /\ cards[i].number \in R /\ b[cards[i].number][i] \in 1..k
             /\ \A j \in places : cards[j].number = cards[i].number
                                  /\ b[cards[i].number][i] = b[cards[i].number][j] => i = j
  <2> DEFINE n == cards[i].number
  <2>1. n \in R /\ Times(cards, n) \in Nat /\ Times(cards, n) <= k
    <3>1. Times(cards, n) \in 0..Len(cards) /\ n \in R
      BY Counting
    <3>2. Times(cards, n) <= k
      BY <3>1
    <3> QED
      BY ONLY <1>1, <3>1, <3>2
  <2>2. i \in PlacesOf(cards, n)
    BY DEF PlacesOf
  <2>3. \A j \in places : cards[j].number = n => j \in PlacesOf(cards, n)
    BY DEF PlacesOf
  <2>4. b[n][i] \in 1..Times(cards, n) /\ \A j \in PlacesOf(cards, n) : b[n][i] = b[n][j] => i = j
    <3>1. b[n] \in Bijection(PlacesOf(cards, n), 1..Times(cards, n))
      BY <1>5, <2>1
    <3> QED
      BY ONLY <2>2, <3>1 DEF Bijection, Injection, IsInjective
  <2> QED
    BY <2>1, <2>3, <2>4
<1>7. f \in [places -> R \X (1..k)]
  BY <1>6
<1>8. ASSUME NEW i \in places, NEW j \in places, f[i] = f[j] PROVE i = j
  <2>1. cards[i].number = cards[j].number
        /\ b[cards[i].number][i] = b[cards[j].number][j]
    BY <1>8
  <2> QED
    BY <1>6, <2>1
<1> HIDE DEF f, places
<1>9. f \in Injection(places, R \X (1..k))
  BY <1>7, <1>8 DEF Injection, IsInjective
<1>10. Cardinality(places) <= Cardinality(R \X (1..k))
  BY <1>4, <1>9, FS_Injection
<1> QED
  BY <1>2, <1>3, <1>4, <1>10

-----------------------------------------------------------------------------
\* What the classifier counts.

\* The parts of Profile, by name.
Counted(cards) ==
  [n \in 0..MAX |-> Cardinality({i \in DOMAIN cards : cards[i].number = n})]
Most(cards) == Max({Counted(cards)[n] : n \in MIN..TWO})
FourJokers(cards) == Len(cards) > 4 /\ Counted(cards)[MAX] = 4 /\ Most(cards) < 4
MaxSame(cards) ==
  IF FourJokers(cards) \/ Most(cards) >= Counted(cards)[MAX]
  THEN Most(cards) ELSE Counted(cards)[MAX]
MaxNo(cards) == Min({n \in MIN..MAX : Counted(cards)[n] = MaxSame(cards)})
Kinds(cards) ==
  [k \in 2..3 |-> Cardinality({n \in MIN..MAX : Counted(cards)[n] = k})
                    + IF FourJokers(cards) /\ k = 2 THEN 2 ELSE 0]
Plane(cards) ==
  MaxSame(cards) = 3 /\ Kinds(cards)[3] > 1 /\ Kinds(cards)[2] = Kinds(cards)[3]
PerGroup(cards) == IF Plane(cards) THEN 5 ELSE MaxSame(cards)
Below(cards, n) == {i \in DOMAIN cards : cards[i].number < n}
Continues(cards) ==
  /\ CardsInRun(Counted(cards), MaxNo(cards), MaxSame(cards),
                Len(cards) \div PerGroup(cards), PerGroup(cards)) = Len(cards)
  /\ ~HasKingAceTwoThree(Counted(cards), MaxSame(cards))
AreMax(cards, S) == \A n \in S : Counted(cards)[n] = MaxSame(cards)

(* What the first part of GetPokeCarsdType computes, by those names.          *)
LEMMA ProfileParts ==
  ASSUME NEW cards
  PROVE  Profile(cards) =
           [cards |-> cards, size |-> Len(cards), maxSame |-> MaxSame(cards),
            maxNo |-> MaxNo(cards),
            maxSamePos |-> Cardinality(Below(cards, MaxNo(cards))),
            kinds |-> Kinds(cards), jokers |-> Counted(cards)[MAX],
            continues |-> Continues(cards),
            crossA23 |-> Continues(cards) /\ AreMax(cards, {MIN, A, TWO}),
            cross23 |-> Continues(cards) /\ AreMax(cards, {MIN, TWO}) /\ ~AreMax(cards, {A})]
BY DEF Profile, MaxSame, MaxNo, Below, Kinds, Counted, Continues, AreMax, Most, FourJokers,
       Plane, PerGroup

(* And field by field.                                                        *)
LEMMA ProfileFields ==
  ASSUME NEW cards, NEW p, p = Profile(cards)
  PROVE  /\ p.cards = cards /\ p.size = Len(cards) /\ p.maxSame = MaxSame(cards)
         /\ p.maxNo = MaxNo(cards)
         /\ p.maxSamePos = Cardinality(Below(cards, MaxNo(cards)))
         /\ p.kinds = Kinds(cards) /\ p.jokers = Counted(cards)[MAX]
         /\ (p.continues <=> Continues(cards))
         /\ (p.crossA23 <=> Continues(cards) /\ AreMax(cards, {MIN, A, TWO}))
         /\ (p.cross23 <=> Continues(cards) /\ AreMax(cards, {MIN, TWO}) /\ ~AreMax(cards, {A}))
BY ProfileParts

(* The counting array holds how often each number is found.                   *)
LEMMA CountedIsTimes ==
  ASSUME NEW cards
  PROVE  \A n \in 0..MAX : Counted(cards)[n] = Times(cards, n)
BY DEF Counted, Times

(* What the classifier counts, of a list that is not empty.                   *)
LEMMA MaxSameIs ==
  ASSUME NEW cards \in Seq(Poke), Len(cards) > 0
  PROVE  /\ Most(cards) \in 0..Len(cards)
         /\ \A n \in MIN..TWO : Times(cards, n) <= Most(cards)
         /\ \E n \in MIN..TWO : Times(cards, n) = Most(cards)
         /\ MaxSame(cards) \in 1..Len(cards)
         /\ \A n \in MIN..TWO : Times(cards, n) <= MaxSame(cards)
         /\ ~FourJokers(cards) => Times(cards, MAX) <= MaxSame(cards)
         /\ MaxNo(cards) \in MIN..MAX /\ Times(cards, MaxNo(cards)) = MaxSame(cards)
         /\ \A n \in MIN..MAX : Times(cards, n) = MaxSame(cards) => MaxNo(cards) <= n
<1> DEFINE counts == {Counted(cards)[n] : n \in MIN..TWO}
           most == Most(cards)
           same == MaxSame(cards)
           nos == {n \in MIN..MAX : Counted(cards)[n] = same}
<1>1. Len(cards) \in Nat /\ DOMAIN cards = 1..Len(cards)
  BY LenProperties
<1>2. \A n \in 0..MAX : Counted(cards)[n] = Times(cards, n)
  BY CountedIsTimes
<1>3. MIN..TWO \subseteq 0..MAX /\ MAX \in 0..MAX /\ MIN..MAX \subseteq 0..MAX /\ MIN \in MIN..TWO
      /\ MIN..MAX = (MIN..TWO) \cup {MAX}
  BY DEF MIN, MAX, TWO
<1>4. \A n \in MIN..MAX : Times(cards, n) \in Nat /\ Times(cards, n) <= Len(cards)
  BY <1>1, Counting
<1>5. counts \subseteq Nat /\ Counted(cards)[MIN] \in counts /\ \A y \in counts : y <= Len(cards)
  BY <1>2, <1>3, <1>4
<1>6. most \in counts /\ \A y \in counts : y <= most
  <2>1. Max(counts) \in counts /\ \A y \in counts : y <= Max(counts)
    <3> HIDE DEF counts
    <3> QED
      BY <1>1, <1>5, MaxEffect
  <2> QED
    BY <2>1 DEF Most
<1>7. /\ most \in 0..Len(cards) /\ \A n \in MIN..TWO : Times(cards, n) <= most
      /\ \E n \in MIN..TWO : Times(cards, n) = most
  <2>1. \A n \in MIN..TWO : Counted(cards)[n] \in counts /\ Counted(cards)[n] = Times(cards, n)
    BY <1>2, <1>3
  <2>2. \E n \in MIN..TWO : Counted(cards)[n] = most
    BY <1>6
  <2> HIDE DEF counts, most
  <2> QED
    BY <1>1, <1>3, <1>4, <1>6, <2>1, <2>2
<1>8. most = 0 => Times(cards, MAX) = Len(cards)
  <2> SUFFICES ASSUME most = 0 PROVE \A i \in DOMAIN cards : cards[i].number = MAX
    BY <1>4, Counting
  <2> TAKE i \in DOMAIN cards
  <2>1. cards[i] \in Poke
    BY <1>1, ElementOfSeq
  <2>2. cards[i].number \in MIN..MAX
    BY <2>1, CardFields
  <2>3. Times(cards, cards[i].number) # 0
    BY Counting
  <2> QED
    BY <1>3, <1>4, <1>7, <2>2, <2>3
<1>9. \/ same = most /\ most # 0 /\ (FourJokers(cards) \/ most >= Times(cards, MAX))
      \/ same = Times(cards, MAX) /\ Times(cards, MAX) > most /\ ~FourJokers(cards)
  <2>1. CASE FourJokers(cards)
    <3>1. Times(cards, MAX) = 4 /\ Len(cards) > 4
      BY <1>2, <1>3, <2>1 DEF FourJokers
    <3>2. most # 0
      <4> SUFFICES ASSUME most = 0 PROVE FALSE
        OBVIOUS
      <4>1. Len(cards) = 4
        BY <1>8, <3>1
      <4> QED
        BY ONLY <3>1, <4>1
    <3>3. same = most
      BY <2>1 DEF MaxSame
    <3> QED
      BY <2>1, <3>2, <3>3
  <2>2. CASE ~FourJokers(cards)
    <3> HIDE DEF most
    <3>1. most \in Nat /\ Times(cards, MAX) \in Nat /\ Counted(cards)[MAX] = Times(cards, MAX)
      BY <1>1, <1>2, <1>3, <1>4, <1>7
    <3>2. same = IF most >= Times(cards, MAX) THEN most ELSE Times(cards, MAX)
      BY <2>2, <3>1 DEF MaxSame, most
    <3>3. most = 0 => Times(cards, MAX) > most
      BY <1>1, <1>8
    <3> HIDE DEF same
    <3>4. CASE most >= Times(cards, MAX)
      BY <2>2, <3>1, <3>2, <3>3, <3>4
    <3>5. CASE most < Times(cards, MAX)
      BY <2>2, <3>1, <3>2, <3>5
    <3> QED
      BY <3>1, <3>4, <3>5
  <2> QED
    BY <2>1, <2>2
<1>10. same \in 1..Len(cards) /\ \E n \in MIN..MAX : Times(cards, n) = same
  <2> HIDE DEF same, most
  <2> QED
    BY <1>1, <1>3, <1>4, <1>7, <1>9
<1>11. /\ \A n \in MIN..TWO : Times(cards, n) <= same
       /\ ~FourJokers(cards) => Times(cards, MAX) <= same
  <2> HIDE DEF same, most
  <2> QED
    BY <1>1, <1>3, <1>4, <1>7, <1>9
<1>12. nos \subseteq Nat /\ nos # {}
  <2>1. MIN..MAX \subseteq Nat
    BY DEF MIN, MAX
  <2>2. \E n \in MIN..MAX : Counted(cards)[n] = same
    BY <1>2, <1>3, <1>10
  <2> QED
    BY <2>1, <2>2
<1>13. MaxNo(cards) \in nos /\ \A y \in nos : MaxNo(cards) <= y
  <2>1. Min(nos) \in nos /\ \A y \in nos : Min(nos) <= y
    <3> HIDE DEF nos
    <3> QED
      BY <1>12, MinEffect
  <2> QED
    BY <2>1 DEF MaxNo
<1>14. /\ MaxNo(cards) \in MIN..MAX /\ Times(cards, MaxNo(cards)) = same
       /\ \A n \in MIN..MAX : Times(cards, n) = same => MaxNo(cards) <= n
  BY <1>2, <1>3, <1>13
<1> QED
  BY <1>7, <1>10, <1>11, <1>14

(* The first card of a number, in a list in order, is found behind the lower  *)
(* numbers.                                                                   *)
LEMMA FirstOf ==
  ASSUME NEW cards \in Seq(Poke), InOrder(cards), NEW n \in MIN..MAX, Times(cards, n) # 0
  PROVE  /\ Cardinality(Below(cards, n)) \in Nat
         /\ Cardinality(Below(cards, n)) + Times(cards, n) <= Len(cards)
         /\ Cardinality(Below(cards, n)) + 1 \in DOMAIN cards
         /\ cards[Cardinality(Below(cards, n)) + 1] \in Poke
         /\ cards[Cardinality(Below(cards, n)) + 1].number = n
<1> DEFINE q == Cardinality(Below(cards, n))
           P == PlacesOf(cards, n)
<1>1. Len(cards) \in Nat /\ DOMAIN cards = 1..Len(cards) /\ \A i \in DOMAIN cards : cards[i] \in Poke
  BY LenProperties, ElementOfSeq
<1>2. \A i \in DOMAIN cards : cards[i].number \in MIN..MAX
  BY <1>1, CardFields
<1>3. \A i, j \in DOMAIN cards : i < j => cards[i].number <= cards[j].number
  <2> TAKE i, j \in DOMAIN cards
  <2> HAVE i < j
  <2>1. ~SortsBefore(cards[j], cards[i])
    BY DEF InOrder
  <2> QED
    BY <1>1, <2>1, SortsByNumber
<1>4. n \in Int
  BY DEF MIN, MAX
<1>5. /\ Below(cards, n) \subseteq 1..Len(cards)
      /\ \A i \in Below(cards, n) : \A j \in 1..Len(cards) : j < i => j \in Below(cards, n)
  <2>1. \A i \in Below(cards, n) : \A j \in 1..Len(cards) : j < i => j \in Below(cards, n)
    <3> TAKE i \in Below(cards, n)
    <3> TAKE j \in 1..Len(cards)
    <3> HAVE j < i
    <3>1. i \in DOMAIN cards /\ cards[i].number < n
      BY DEF Below
    <3>2. cards[j].number <= cards[i].number /\ cards[j].number \in Int /\ cards[i].number \in Int
      BY <1>1, <1>2, <1>3, <3>1 DEF MIN, MAX
    <3>3. cards[j].number < n
      BY <1>4, <3>1, <3>2
    <3> QED
      BY <1>1, <3>3 DEF Below
  <2> QED
    BY <1>1, <2>1 DEF Below
<1>6. q \in 0..Len(cards) /\ Below(cards, n) = 1..q
  BY <1>1, <1>5, FirstPlaces
<1>7. /\ P \subseteq 1..Len(cards) /\ IsFiniteSet(P) /\ Times(cards, n) = Cardinality(P)
  BY Counting
<1>8. Below(cards, n) \cap P = {}
  BY <1>4 DEF Below, PlacesOf
<1>9. q + Times(cards, n) <= Len(cards)
  <2>1. IsFiniteSet(1..Len(cards)) /\ Cardinality(1..Len(cards)) = Len(cards)
    BY <1>1, SpanSize
  <2>2. IsFiniteSet(Below(cards, n))
    BY <1>5, <2>1, FS_Subset
  <2>3. Below(cards, n) \cup P \in SUBSET (1..Len(cards))
    BY <1>5, <1>7
  <2> HIDE DEF P
  <2>4. Cardinality(Below(cards, n) \cup P) = q + Cardinality(P)
    BY <1>7, <1>8, <2>2, CountingApart
  <2>5. Cardinality(Below(cards, n) \cup P) <= Len(cards)
    BY <2>1, <2>3, FS_Subset
  <2> QED
    BY <1>7, <2>4, <2>5
<1>10. PICK i \in DOMAIN cards : cards[i].number = n
  BY Counting
<1>11. i > q
  <2>1. i \notin Below(cards, n)
    BY <1>4, <1>10 DEF Below
  <2>2. i \notin 1..q /\ q \in Nat /\ i \in 1..Len(cards)
    BY <1>1, <1>6, <2>1
  <2> QED
    BY <2>2
<1>12. q + 1 \in DOMAIN cards /\ q + 1 \notin Below(cards, n)
  BY <1>1, <1>6, <1>11
<1>13. cards[q + 1].number >= n
  <2>1. ~(cards[q + 1].number < n)
    BY <1>12 DEF Below
  <2>2. cards[q + 1].number \in Int /\ n \in Int
    BY <1>2, <1>4, <1>12 DEF MIN, MAX
  <2> HIDE DEF q
  <2> QED
    BY <2>1, <2>2
<1>14. q + 1 = i \/ q + 1 < i
  BY <1>1, <1>6, <1>11
<1>15. cards[q + 1].number <= n
  BY <1>3, <1>4, <1>10, <1>12, <1>14
<1> HIDE DEF q
<1>16. cards[q + 1].number = n
  BY <1>2, <1>4, <1>12, <1>13, <1>15, SMTT(30) DEF MIN, MAX
<1> QED
  BY <1>1, <1>6, <1>9, <1>12, <1>16 DEF q

(* No number is found more often than MostEqual, and one is found as often.   *)
LEMMA MostEqualIs ==
  ASSUME NEW cards \in Seq(Poke)
  PROVE  /\ MostEqual(cards) \in 0..Len(cards)
         /\ \A n \in MIN..MAX : Times(cards, n) <= MostEqual(cards)
         /\ \E n \in MIN..MAX : Times(cards, n) = MostEqual(cards)
<1> DEFINE counts == {Times(cards, n) : n \in MIN..MAX}
<1>1. Len(cards) \in Nat
  BY LenProperties
<1>2. \A n : Times(cards, n) \in Nat /\ Times(cards, n) <= Len(cards)
  BY <1>1, Counting
<1>3. counts \subseteq Nat /\ counts # {} /\ \A y \in counts : y <= Len(cards)
  <2>1. MIN \in MIN..MAX
    BY DEF MIN, MAX
  <2> QED
    BY <1>2, <2>1
<1>4. MostEqual(cards) = Max(counts)
  BY DEF MostEqual, Times
<1>5. Max(counts) \in counts /\ \A y \in counts : y <= Max(counts)
  <2> HIDE DEF counts
  <2> QED
    BY <1>1, <1>3, MaxEffect
<1> HIDE DEF counts
<1>6. MostEqual(cards) \in counts /\ \A y \in counts : y <= MostEqual(cards)
  BY <1>4, <1>5
<1> QED
  BY <1>1, <1>2, <1>6 DEF counts

\* The numbers found k times.
Found(cards, k) == {n \in MIN..MAX : Times(cards, n) = k}

(* How many numbers are found three times, and how many twice: four jokers    *)
(* that are not the most are two pairs.                                       *)
LEMMA KindsAre ==
  ASSUME NEW cards
  PROVE  /\ Kinds(cards)[3] = Cardinality(Found(cards, 3))
         /\ FourJokers(cards) => Kinds(cards)[2] = Cardinality(Found(cards, 2)) + 2
         /\ ~FourJokers(cards) => Kinds(cards)[2] = Cardinality(Found(cards, 2)) + 0
<1>1. \A n \in MIN..MAX : Counted(cards)[n] = Times(cards, n)
  BY CountedIsTimes DEF MIN, MAX
<1>2. \A k : {n \in MIN..MAX : Counted(cards)[n] = k} = Found(cards, k)
  BY <1>1 DEF Found
<1>3. 2 \in 2..3 /\ 3 \in 2..3 /\ 3 # 2
  OBVIOUS
<1>4. Kinds(cards)[3] = Cardinality(Found(cards, 3)) + 0
  BY <1>2, <1>3 DEF Kinds
<1>5. Cardinality(Found(cards, 3)) \in Nat
  <2>1. MIN \in Int /\ MAX \in Int
    BY DEF MIN, MAX
  <2>2. IsFiniteSet(MIN..MAX)
    BY <2>1, FS_Interval
  <2>3. Found(cards, 3) \in SUBSET (MIN..MAX)
    BY DEF Found
  <2> QED
    BY <2>2, <2>3, FS_Subset, FS_CardinalityType
<1>6. FourJokers(cards) => Kinds(cards)[2] = Cardinality(Found(cards, 2)) + 2
  BY <1>2, <1>3 DEF Kinds
<1>7. ~FourJokers(cards) => Kinds(cards)[2] = Cardinality(Found(cards, 2)) + 0
  BY <1>2, <1>3 DEF Kinds
<1> QED
  BY <1>4, <1>5, <1>6, <1>7

(* Numbers found k times fill k places each, and when they fill all there are *)
(* no others.                                                                 *)
LEMMA FoundMany ==
  ASSUME NEW cards \in Seq(Poke), NEW k \in Nat \ {0}
  PROVE  /\ IsFiniteSet(Found(cards, k)) /\ Cardinality(Found(cards, k)) \in Nat
         /\ Cardinality(Found(cards, k)) * k <= Len(cards)
         /\ Cardinality(Found(cards, k)) * k = Len(cards)
              => (\A i \in DOMAIN cards : Times(cards, cards[i].number) = k)
<1> DEFINE R == Found(cards, k)
<1>1. R \subseteq MIN..MAX /\ \A n \in R : Times(cards, n) = k
  BY DEF Found
<1>2. \A n \in R : Times(cards, n) >= k
  BY <1>1
<1> HIDE DEF R
<1>3. /\ IsFiniteSet(R) /\ Cardinality(R) \in Nat /\ Cardinality(R) * k <= Len(cards)
      /\ Cardinality(R) * k = Len(cards) => (\A i \in DOMAIN cards : cards[i].number \in R)
  BY <1>1, <1>2, CountingMany
<1> QED
  BY <1>1, <1>3 DEF R

-----------------------------------------------------------------------------
(* An answer of the classifier is a combination of PokeCards.                 *)
LEMMA ComboIs ==
  ASSUME NEW type \in PokeCmbType, NEW poke \in Poke \cup {NoPoke}, NEW num \in Nat,
         type \in GroupTypes => num = 0
  PROVE  Combo(type, poke, num) \in ClassifiedCombos
BY DEF Combo, ClassifiedCombos, PokeCardsType

(* The fields of an answer.                                                   *)
LEMMA AnswerFields ==
  ASSUME NEW type, NEW poke, NEW num
  PROVE  /\ Combo(type, poke, num).type = type
         /\ Combo(type, poke, num).mainPoke = poke
         /\ Combo(type, poke, num).continuousNum = num
BY DEF Combo

(* The main card is the first card of the number found most often.            *)
LEMMA MainPokeIs ==
  ASSUME NEW cards \in Seq(Poke), InOrder(cards), Len(cards) > 0
  PROVE  /\ MainPoke(Profile(cards)) \in Poke
         /\ MainPoke(Profile(cards)).number = MaxNo(cards)
         /\ Profile(cards).maxSamePos \in Nat
         /\ Profile(cards).maxSamePos + MaxSame(cards) <= Len(cards)
<1>1. MaxNo(cards) \in MIN..MAX /\ Times(cards, MaxNo(cards)) = MaxSame(cards)
      /\ MaxSame(cards) # 0
  BY MaxSameIs
<1>2. /\ Profile(cards).cards = cards
      /\ Profile(cards).maxSamePos = Cardinality(Below(cards, MaxNo(cards)))
  BY ProfileFields
<1> QED
  BY <1>1, <1>2, FirstOf DEF MainPoke

(* Which numbers a run that passes from 2 to 3 holds.                         *)
LEMMA CrossingIs ==
  ASSUME NEW cards, NEW p, p = Profile(cards)
  PROVE  /\ p.crossA23 => /\ Times(cards, MIN) = MaxSame(cards)
                          /\ Times(cards, A) = MaxSame(cards)
                          /\ Times(cards, TWO) = MaxSame(cards)
         /\ p.cross23 => /\ Times(cards, MIN) = MaxSame(cards)
                         /\ Times(cards, TWO) = MaxSame(cards)
                         /\ Times(cards, A) # MaxSame(cards)
<1>1. \A n \in {MIN, A, TWO} : Counted(cards)[n] = Times(cards, n)
  BY CountedIsTimes DEF MIN, A, TWO, MAX
<1> QED
  BY <1>1, ProfileFields DEF AreMax

(* The lead of a run is one of its cards.                                     *)
LEMMA LeadIsACard ==
  ASSUME NEW cards \in Seq(Poke), InOrder(cards), Len(cards) > 0, NEW p, p = Profile(cards),
         NEW k \in Nat, NEW above \in Nat,
         p.crossA23 => 2 * k + above <= Len(cards) /\ 2 * k + above > 0,
         p.cross23 => k + above <= Len(cards) /\ k + above > 0
  PROVE  LeadOfRun(p, k, above) \in Poke
<1>1. p.cards = cards /\ p.size = Len(cards)
  BY ProfileFields
<1>2. Len(cards) \in Nat /\ DOMAIN cards = 1..Len(cards) /\ \A i \in DOMAIN cards : cards[i] \in Poke
  BY LenProperties, ElementOfSeq
<1>3. CASE p.crossA23
  <2> DEFINE i == p.size - 2 * k - above + 1
  <2>1. i \in DOMAIN cards
    BY <1>1, <1>2, <1>3
  <2>2. LeadOfRun(p, k, above) = cards[i]
    <3>1. LeadOfRun(p, k, above) = p.cards[p.size - 2 * k - above + 1]
      BY <1>3, CrossingIs DEF LeadOfRun
    <3> QED
      BY <1>1, <3>1
  <2> QED
    BY <1>2, <2>1, <2>2
<1>4. CASE ~p.crossA23 /\ p.cross23
  <2> DEFINE i == p.size - k - above + 1
  <2>1. i \in DOMAIN cards
    BY <1>1, <1>2, <1>4
  <2>2. LeadOfRun(p, k, above) = cards[i]
    <3>1. LeadOfRun(p, k, above) = p.cards[i]
      BY <1>4 DEF LeadOfRun
    <3> QED
      BY <1>1, <3>1
  <2> QED
    BY <1>2, <2>1, <2>2
<1>5. CASE ~p.crossA23 /\ ~p.cross23
  BY <1>5, MainPokeIs DEF LeadOfRun
<1> QED
  BY <1>3, <1>4, <1>5

(* A list that is classified is not empty.                                    *)
LEMMA ClassifiedIs ==
  ASSUME NEW cards \in Seq(Poke), MostEqual(cards) \in 1..8
  PROVE  /\ Len(cards) > 0 /\ MaxSame(cards) \in 1..8 /\ MaxSame(cards) <= Len(cards)
         /\ Profile(cards).maxSame = MaxSame(cards)
<1>1. Len(cards) \in Nat
  BY LenProperties
<1>2. Len(cards) > 0
  BY <1>1, MostEqualIs
<1>3. MaxSame(cards) \in 1..Len(cards) /\ MaxSame(cards) <= MostEqual(cards)
  BY <1>2, MaxSameIs, MostEqualIs
<1> QED
  BY <1>1, <1>2, <1>3, ProfileFields

-----------------------------------------------------------------------------
\* The answers of the classifier.

(* One combination for each number of equal cards.                            *)
LEMMA CombinationIs ==
  ASSUME NEW cards \in Seq(Poke), NEW one, MostEqual(cards) \in 1..8
  PROVE  /\ MaxSame(cards) = 1 => GetPokeCarsdType(cards, one) = SingleOrStraight(Profile(cards))
         /\ MaxSame(cards) = 2 => GetPokeCarsdType(cards, one) = PairOrPairs(Profile(cards), one)
         /\ MaxSame(cards) = 3 => GetPokeCarsdType(cards, one) = TripOrTrips(Profile(cards))
         /\ MaxSame(cards) \in 4..8 => GetPokeCarsdType(cards, one) = Quads(Profile(cards))
<1> DEFINE p == Profile(cards)
<1>1. p.maxSame = MaxSame(cards)
  BY ClassifiedIs
<1>2. GetPokeCarsdType(cards, one) =
        CASE p.maxSame = 1 -> SingleOrStraight(p)
          [] p.maxSame = 2 -> PairOrPairs(p, one)
          [] p.maxSame = 3 -> TripOrTrips(p)
          [] p.maxSame \in 4..8 -> Quads(p)
  BY DEF GetPokeCarsdType
<1> HIDE DEF p
<1>3. p.maxSame = 1 => GetPokeCarsdType(cards, one) = SingleOrStraight(p)
  BY <1>2
<1>4. p.maxSame = 2 => GetPokeCarsdType(cards, one) = PairOrPairs(p, one)
  BY <1>2
<1>5. p.maxSame = 3 => GetPokeCarsdType(cards, one) = TripOrTrips(p)
  BY <1>2
<1>6. p.maxSame \in 4..8 => GetPokeCarsdType(cards, one) = Quads(p)
  BY <1>2
<1> QED
  BY <1>1, <1>3, <1>4, <1>5, <1>6 DEF p

(* So is the answer that the cards are nothing.                               *)
LEMMA IllegalIsACombo == Illegal \in ClassifiedCombos
BY ComboIs DEF Illegal, PokeCmbType

(* For a sorted list of any length GetPokeCarsdType ends in a combination or  *)
(* in the exception of a number found nine times.                             *)
LEMMA ClassifierTypeOK ==
  ASSUME NEW cards \in Seq(Poke), InOrder(cards), NEW one
  PROVE  GetPokeCarsdType(cards, one) \in ClassifiedCombos \cup {Throws}
<1> DEFINE p == Profile(cards)
           answer == GetPokeCarsdType(cards, one)
<1> SUFFICES ASSUME MostEqual(cards) \in 1..8 PROVE answer \in ClassifiedCombos
  BY DEF GetPokeCarsdType
<1>1. /\ Len(cards) > 0 /\ MaxSame(cards) \in 1..8 /\ MaxSame(cards) <= Len(cards)
      /\ p.maxSame = MaxSame(cards)
  BY ClassifiedIs
<1>2. Len(cards) \in Nat /\ DOMAIN cards = 1..Len(cards) /\ \A i \in DOMAIN cards : cards[i] \in Poke
  BY LenProperties, ElementOfSeq
<1>3. cards[1] \in Poke
  BY <1>1, <1>2
<1>4. /\ p.cards = cards /\ p.size = Len(cards) /\ p.kinds = Kinds(cards)
      /\ p.jokers = Times(cards, MAX)
  BY ProfileFields, CountedIsTimes DEF MAX
<1>5. MainPoke(p) \in Poke
  BY <1>1, MainPokeIs
<1> HIDE DEF p, answer
<1>6. CASE MaxSame(cards) = 1
  <2>1. answer = SingleOrStraight(p)
    BY <1>6, CombinationIs DEF p, answer
  <2>2. CASE p.size = 1
    <3>1. answer = Combo("SINGLE", p.cards[1], 0)
      BY <2>1, <2>2 DEF SingleOrStraight
    <3> QED
      BY <1>3, <1>4, <3>1, ComboIs DEF PokeCmbType, GroupTypes
  <2>3. CASE p.size # 1 /\ p.continues /\ p.size >= 5
    <3> DEFINE lead == LeadOfRun(p, 1, 0)
    <3>1. \E type \in StraightTypes : answer = Combo(type, lead, p.size)
      BY <2>1, <2>3 DEF SingleOrStraight, StraightTypes
    <3>2. lead \in Poke
      BY <1>1, <1>2, <1>4, <2>3, LeadIsACard DEF p
    <3> HIDE DEF lead
    <3> QED
      BY <1>2, <1>4, <3>1, <3>2, ComboIs DEF PokeCmbType, GroupTypes, StraightTypes, RunTypes
  <2>4. CASE p.size # 1 /\ ~(p.continues /\ p.size >= 5)
    BY <2>1, <2>4, IllegalIsACombo DEF SingleOrStraight
  <2> QED
    BY <2>2, <2>3, <2>4
<1>7. CASE MaxSame(cards) = 2
  <2>1. answer = PairOrPairs(p, one)
    BY <1>7, CombinationIs DEF p, answer
  <2> DEFINE pairs == p.size % 2 = 0 /\ p.continues /\ p.size >= 6
  <2>2. CASE p.size = 2
    <3>1. \E type \in {"JOKER_QUADS", "ILLEGAL", "PAIR"} : answer = Combo(type, p.cards[1], 0)
      BY <2>1, <2>2 DEF PairOrPairs
    <3> QED
      BY <1>3, <1>4, <3>1, ComboIs DEF PokeCmbType, GroupTypes, BombTypes
  <2>3. CASE p.size # 2 /\ pairs
    <3> DEFINE lead == LeadOfRun(p, 2, 0)
    <3>1. answer = Combo("STRAIGHT_PAIR", lead, p.size \div 2)
      BY <2>1, <2>3 DEF PairOrPairs
    <3>2. lead \in Poke
      BY <1>1, <1>2, <1>4, <2>3, LeadIsACard DEF p
    <3>3. p.size \div 2 \in Nat
      BY <1>2, <1>4
    <3> HIDE DEF lead
    <3> QED
      BY <3>1, <3>2, <3>3, ComboIs DEF PokeCmbType, GroupTypes, RunTypes
  <2>4. CASE p.size # 2 /\ ~pairs
    BY <2>1, <2>4, IllegalIsACombo DEF PairOrPairs
  <2> QED
    BY <2>2, <2>3, <2>4
<1>8. CASE MaxSame(cards) = 3
  <2> DEFINE ofRank(type) == IF MainPoke(p).number = MAX THEN Illegal
                             ELSE Combo(type, MainPoke(p), 0)
             tripPair == p.size = 5 /\ p.kinds[2] = 1
             allTrips == p.continues /\ p.size >= 6 /\ p.kinds[3] * 3 = p.size
             planes   == p.continues /\ p.kinds[2] = p.kinds[3] /\ p.kinds[2] * 5 = p.size
  <2>1. answer = TripOrTrips(p)
    BY <1>8, CombinationIs DEF p, answer
  <2>2. TripOrTrips(p) =
          CASE p.size = 3 -> ofRank("TRIP")
            [] tripPair -> ofRank("TRIP_PAIR")
            [] allTrips -> Combo("STRIGHT_TRIP", LeadOfRun(p, 3, p.jokers), p.size \div 3)
            [] p.size # 3 /\ ~tripPair /\ ~allTrips /\ planes ->
                 Combo("STRIGHT_TRIP_PAIR",
                       IF p.crossA23 THEN p.cards[p.size - 5] ELSE MainPoke(p),
                       p.size \div 5)
            [] OTHER -> Illegal
    BY DEF TripOrTrips
  <2>3. \A type \in GroupTypes : ofRank(type) \in ClassifiedCombos
    BY <1>5, ComboIs, IllegalIsACombo DEF PokeCmbType
  <2>4. CASE p.size = 3
    <3>1. ~tripPair /\ ~allTrips
      BY <2>4
    <3> HIDE DEF ofRank, tripPair, allTrips, planes
    <3>2. answer = ofRank("TRIP")
      BY <2>1, <2>2, <2>4, <3>1
    <3> QED
      BY <2>3, <3>2 DEF GroupTypes
  <2>5. CASE tripPair
    <3>1. p.size # 3 /\ ~allTrips
      BY <2>5
    <3> HIDE DEF ofRank, tripPair, allTrips, planes
    <3>2. answer = ofRank("TRIP_PAIR")
      BY <2>1, <2>2, <2>5, <3>1
    <3> QED
      BY <2>3, <3>2 DEF GroupTypes
  <2>6. CASE allTrips
    <3>1. p.size # 3 /\ ~tripPair
      BY <2>6
    <3> DEFINE lead == LeadOfRun(p, 3, p.jokers)
    <3>2. answer = Combo("STRIGHT_TRIP", lead, p.size \div 3)
      <4> HIDE DEF ofRank, tripPair, allTrips, planes
      <4> QED
        BY <2>1, <2>2, <2>6, <3>1
    <3>3. lead \in Poke
      <4>1. p.jokers \in {0, 3}
        <5>1. Cardinality(Found(cards, 3)) * 3 = Len(cards)
          BY <1>4, <2>6, KindsAre
        <5>2. \A i \in DOMAIN cards : Times(cards, cards[i].number) = 3
          <6>1. 3 \in Nat \ {0}
            OBVIOUS
          <6>2. Cardinality(Found(cards, 3)) * 3 = Len(cards)
                  => (\A i \in DOMAIN cards : Times(cards, cards[i].number) = 3)
            BY ONLY <6>1, cards \in Seq(Poke), FoundMany
          <6> QED
            BY <5>1, <6>2
        <5>3. ASSUME Times(cards, MAX) # 0 PROVE Times(cards, MAX) = 3
          <6>1. PICK i \in DOMAIN cards : cards[i].number = MAX
            BY <5>3, Counting
          <6> QED
            BY <5>2, <6>1
        <5> QED
          BY <1>4, <5>3
      <4>2. p.crossA23 => Len(cards) >= 9
        <5> SUFFICES ASSUME p.crossA23 PROVE Len(cards) >= 9
          OBVIOUS
        <5>1. Times(cards, MIN) = 3 /\ Times(cards, A) = 3 /\ Times(cards, TWO) = 3
          BY <1>8, CrossingIs DEF p
        <5>2. MIN # A /\ A # TWO /\ MIN # TWO
          BY DEF MIN, A, TWO
        <5>3. Times(cards, MIN) + Times(cards, A) + Times(cards, TWO) <= Len(cards)
          BY <5>2, CountingThree
        <5> QED
          BY <1>2, <5>1, <5>3
      <4>3. p.size = Len(cards) /\ Len(cards) >= 6
        BY <1>4, <2>6
      <4>4. /\ p.jokers \in Nat
            /\ p.crossA23 => 2 * 3 + p.jokers <= Len(cards) /\ 2 * 3 + p.jokers > 0
            /\ p.cross23 => 3 + p.jokers <= Len(cards) /\ 3 + p.jokers > 0
        BY ONLY <1>2, <4>1, <4>2, <4>3
      <4> QED
        BY <1>1, <4>4, LeadIsACard DEF p
    <3>4. p.size \div 3 \in Nat
      BY <1>2, <1>4
    <3> HIDE DEF lead
    <3> QED
      BY <3>2, <3>3, <3>4, ComboIs DEF PokeCmbType, GroupTypes, RunTypes
  <2>7. CASE p.size # 3 /\ ~tripPair /\ ~allTrips /\ planes
    <3> DEFINE lead == IF p.crossA23 THEN p.cards[p.size - 5] ELSE MainPoke(p)
    <3>1. answer = Combo("STRIGHT_TRIP_PAIR", lead, p.size \div 5)
      <4> HIDE DEF ofRank, tripPair, allTrips, planes
      <4> QED
        BY <2>1, <2>2, <2>7
    <3>2. lead \in Poke
      <4>1. CASE p.crossA23
        <5>1. Times(cards, MIN) = 3 /\ Times(cards, A) = 3 /\ Times(cards, TWO) = 3
          BY <1>8, <4>1, CrossingIs DEF p
        <5>2. MIN # A /\ A # TWO /\ MIN # TWO
          BY DEF MIN, A, TWO
        <5>3. Times(cards, MIN) + Times(cards, A) + Times(cards, TWO) <= Len(cards)
          BY <5>2, CountingThree
        <5>4. Len(cards) >= 9
          BY <1>2, <5>1, <5>3
        <5>5. p.size - 5 \in DOMAIN cards
          BY <1>2, <1>4, <5>4
        <5> QED
          BY <1>2, <1>4, <4>1, <5>5
      <4> QED
        BY <1>5, <4>1
    <3>3. p.size \div 5 \in Nat
      BY <1>2, <1>4
    <3> HIDE DEF lead
    <3> QED
      BY <3>1, <3>2, <3>3, ComboIs DEF PokeCmbType, GroupTypes, RunTypes
  <2>8. CASE p.size # 3 /\ ~tripPair /\ ~allTrips /\ ~planes
    <3> HIDE DEF ofRank, tripPair, allTrips, planes
    <3> QED
      BY <2>1, <2>2, <2>8, IllegalIsACombo
  <2> QED
    BY <2>4, <2>5, <2>6, <2>7, <2>8
<1>9. CASE MaxSame(cards) \in 4..8
  <2>1. answer = Quads(p)
    BY <1>9, CombinationIs DEF p, answer
  <2>2. \/ answer = Combo("JOKER_QUADS", NoPoke, 0)
        \/ answer = Combo("QUADS", MainPoke(p), p.maxSame)
        \/ answer = Illegal
    BY <2>1 DEF Quads
  <2>3. p.maxSame \in Nat
    BY <1>1
  <2> QED
    BY <1>5, <2>2, <2>3, ComboIs, IllegalIsACombo DEF PokeCmbType, GroupTypes, BombTypes
<1> QED
  BY <1>1, <1>6, <1>7, <1>8, <1>9

(* What the classifier answers, by the number of cards found most often.      *)
LEMMA OfOneEach ==
  ASSUME NEW cards \in Seq(Poke), NEW one, MostEqual(cards) \in 1..8, MaxSame(cards) = 1,
         NEW answer, answer = GetPokeCarsdType(cards, one)
  PROVE  /\ Len(cards) = 1 => answer.type = "SINGLE"
         /\ Len(cards) # 1 /\ Continues(cards) /\ Len(cards) >= 5 =>
              /\ answer.type \in StraightTypes /\ answer.continuousNum = Len(cards)
              /\ answer.mainPoke = LeadOfRun(Profile(cards), 1, 0)
         /\ Len(cards) # 1 /\ ~(Continues(cards) /\ Len(cards) >= 5) => answer.type = "ILLEGAL"
<1> DEFINE p == Profile(cards)
<1>1. answer = SingleOrStraight(p)
  BY CombinationIs
<1>2. p.size = Len(cards) /\ (p.continues <=> Continues(cards))
  BY ProfileFields
<1> HIDE DEF p
<1>3. p.size = 1 => answer = Combo("SINGLE", p.cards[1], 0)
  BY <1>1 DEF SingleOrStraight
<1>4. p.size # 1 /\ p.continues /\ p.size >= 5 =>
        \E type \in StraightTypes : answer = Combo(type, LeadOfRun(p, 1, 0), p.size)
  BY <1>1 DEF SingleOrStraight, StraightTypes
<1>5. p.size # 1 /\ ~(p.continues /\ p.size >= 5) => answer = Illegal
  BY <1>1 DEF SingleOrStraight
<1>6. Len(cards) = 1 => answer.type = "SINGLE"
  BY <1>2, <1>3, AnswerFields
<1>7. ASSUME Len(cards) # 1, Continues(cards), Len(cards) >= 5
      PROVE  /\ answer.type \in StraightTypes /\ answer.continuousNum = Len(cards)
             /\ answer.mainPoke = LeadOfRun(p, 1, 0)
  <2>1. PICK type \in StraightTypes : answer = Combo(type, LeadOfRun(p, 1, 0), p.size)
    BY <1>2, <1>4, <1>7
  <2> QED
    BY <1>2, <2>1, AnswerFields
<1>8. Len(cards) # 1 /\ ~(Continues(cards) /\ Len(cards) >= 5) => answer.type = "ILLEGAL"
  BY <1>2, <1>5, AnswerFields DEF Illegal
<1> QED
  BY <1>6, <1>7, <1>8 DEF p

(* Pairs: one is a pair or two jokers, three or more that are counted as one  *)
(* run are a run, anything else is nothing.                                   *)
LEMMA OfTwoEach ==
  ASSUME NEW cards \in Seq(Poke), NEW one \in BOOLEAN, MostEqual(cards) \in 1..8,
         MaxSame(cards) = 2,
         NEW answer, answer = GetPokeCarsdType(cards, one)
  PROVE  /\ Len(cards) = 2 /\ MaxNo(cards) = MAX /\ one => answer.type = "JOKER_QUADS"
         /\ Len(cards) = 2 /\ MaxNo(cards) = MAX /\ ~one /\ cards[1].color # cards[2].color
              => answer.type = "ILLEGAL"
         /\ Len(cards) = 2 /\ ~(MaxNo(cards) = MAX /\ (one \/ cards[1].color # cards[2].color))
              => answer.type = "PAIR"
         /\ Len(cards) # 2 /\ Len(cards) % 2 = 0 /\ Continues(cards) /\ Len(cards) >= 6 =>
              /\ answer.type = "STRAIGHT_PAIR" /\ answer.continuousNum = Len(cards) \div 2
              /\ answer.mainPoke = LeadOfRun(Profile(cards), 2, 0)
         /\ Len(cards) # 2 /\ ~(Len(cards) % 2 = 0 /\ Continues(cards) /\ Len(cards) >= 6)
              => answer.type = "ILLEGAL"
<1> DEFINE p == Profile(cards)
           pairs == p.size % 2 = 0 /\ p.continues /\ p.size >= 6
           kind == CASE p.maxNo = MAX /\ one -> "JOKER_QUADS"
                     [] p.maxNo = MAX /\ ~one /\ p.cards[1].color # p.cards[2].color -> "ILLEGAL"
                     [] OTHER -> "PAIR"
<1>1. answer = PairOrPairs(p, one)
  BY CombinationIs
<1>2. /\ p.size = Len(cards) /\ (p.continues <=> Continues(cards)) /\ p.cards = cards
      /\ p.maxNo = MaxNo(cards)
  BY ProfileFields
<1> HIDE DEF p
<1>3. p.size = 2 => answer = Combo(kind, p.cards[1], 0)
  BY <1>1 DEF PairOrPairs
<1>4. p.size # 2 /\ pairs => answer = Combo("STRAIGHT_PAIR", LeadOfRun(p, 2, 0), p.size \div 2)
  BY <1>1 DEF PairOrPairs
<1>5. p.size # 2 /\ ~pairs => answer = Illegal
  BY <1>1 DEF PairOrPairs
<1>6. /\ p.maxNo = MAX /\ one => kind = "JOKER_QUADS"
      /\ p.maxNo = MAX /\ ~one /\ p.cards[1].color # p.cards[2].color => kind = "ILLEGAL"
      /\ ~(p.maxNo = MAX /\ (one \/ p.cards[1].color # p.cards[2].color)) => kind = "PAIR"
  OBVIOUS
<1> HIDE DEF kind
<1>7. p.size = 2 => answer.type = kind
  BY <1>3, AnswerFields
<1>8. p.size # 2 /\ pairs =>
        /\ answer.type = "STRAIGHT_PAIR" /\ answer.continuousNum = p.size \div 2
        /\ answer.mainPoke = LeadOfRun(p, 2, 0)
  <2> HIDE DEF pairs
  <2> QED
    BY <1>4, AnswerFields
<1>9. p.size # 2 /\ ~pairs => answer.type = "ILLEGAL"
  <2> HIDE DEF pairs
  <2> QED
    BY <1>5, AnswerFields DEF Illegal
<1>10. /\ Len(cards) # 2 /\ Len(cards) % 2 = 0 /\ Continues(cards) /\ Len(cards) >= 6 =>
              /\ answer.type = "STRAIGHT_PAIR" /\ answer.continuousNum = Len(cards) \div 2
              /\ answer.mainPoke = LeadOfRun(p, 2, 0)
       /\ Len(cards) # 2 /\ ~(Len(cards) % 2 = 0 /\ Continues(cards) /\ Len(cards) >= 6)
              => answer.type = "ILLEGAL"
  BY <1>2, <1>8, <1>9
<1>11. /\ Len(cards) = 2 /\ MaxNo(cards) = MAX /\ one => answer.type = "JOKER_QUADS"
       /\ Len(cards) = 2 /\ MaxNo(cards) = MAX /\ ~one /\ cards[1].color # cards[2].color
              => answer.type = "ILLEGAL"
       /\ Len(cards) = 2 /\ ~(MaxNo(cards) = MAX /\ (one \/ cards[1].color # cards[2].color))
              => answer.type = "PAIR"
  BY <1>2, <1>6, <1>7
<1> QED
  BY <1>10, <1>11 DEF p

FullHouse(cards) == Len(cards) = 5 /\ Kinds(cards)[2] = 1
AllTrips(cards) ==
  Continues(cards) /\ Len(cards) >= 6 /\ Kinds(cards)[3] * 3 = Len(cards)
Planes(cards) ==
  Continues(cards) /\ Kinds(cards)[2] = Kinds(cards)[3] /\ Kinds(cards)[2] * 5 = Len(cards)

(* Trips: one, one with a pair, a run of them, a plane with pairs, or         *)
(* nothing.                                                                   *)
LEMMA OfThreeEach ==
  ASSUME NEW cards \in Seq(Poke), InOrder(cards), NEW one,
         MostEqual(cards) \in 1..8, MaxSame(cards) = 3,
         NEW answer, answer = GetPokeCarsdType(cards, one)
  PROVE  /\ MaxNo(cards) = MAX /\ (Len(cards) = 3 \/ FullHouse(cards)) => answer.type = "ILLEGAL"
         /\ MaxNo(cards) # MAX /\ Len(cards) = 3 => answer.type = "TRIP"
         /\ MaxNo(cards) # MAX /\ FullHouse(cards) => answer.type = "TRIP_PAIR"
         /\ Len(cards) # 3 /\ ~FullHouse(cards) /\ AllTrips(cards) =>
              /\ answer.type = "STRIGHT_TRIP" /\ answer.continuousNum = Len(cards) \div 3
              /\ answer.mainPoke = LeadOfRun(Profile(cards), 3, Times(cards, MAX))
         /\ Len(cards) # 3 /\ ~FullHouse(cards) /\ ~AllTrips(cards) /\ Planes(cards)
              => answer.type = "STRIGHT_TRIP_PAIR"
         /\ Len(cards) # 3 /\ ~FullHouse(cards) /\ ~AllTrips(cards) /\ ~Planes(cards)
              => answer.type = "ILLEGAL"
<1> DEFINE p == Profile(cards)
           ofRank(type) == IF MainPoke(p).number = MAX THEN Illegal
                           ELSE Combo(type, MainPoke(p), 0)
           tripPair == p.size = 5 /\ p.kinds[2] = 1
           allTrips == p.continues /\ p.size >= 6 /\ p.kinds[3] * 3 = p.size
           planes   == p.continues /\ p.kinds[2] = p.kinds[3] /\ p.kinds[2] * 5 = p.size
<1>1. answer = TripOrTrips(p)
  BY CombinationIs
<1>2. /\ p.size = Len(cards) /\ (p.continues <=> Continues(cards)) /\ p.kinds = Kinds(cards)
      /\ p.jokers = Times(cards, MAX)
  BY ProfileFields, CountedIsTimes DEF MAX
<1>3. MainPoke(p).number = MaxNo(cards)
  BY MainPokeIs, ClassifiedIs
<1> HIDE DEF p
<1>4. (tripPair <=> FullHouse(cards)) /\ (allTrips <=> AllTrips(cards)) /\ (planes <=> Planes(cards))
  BY <1>2 DEF FullHouse, AllTrips, Planes
<1>5. ~(p.size = 3 /\ tripPair) /\ ~(p.size = 3 /\ allTrips) /\ ~(tripPair /\ allTrips)
  OBVIOUS
<1>6. answer =
        CASE p.size = 3 -> ofRank("TRIP")
          [] tripPair -> ofRank("TRIP_PAIR")
          [] allTrips -> Combo("STRIGHT_TRIP", LeadOfRun(p, 3, p.jokers), p.size \div 3)
          [] p.size # 3 /\ ~tripPair /\ ~allTrips /\ planes ->
               Combo("STRIGHT_TRIP_PAIR",
                     IF p.crossA23 THEN p.cards[p.size - 5] ELSE MainPoke(p),
                     p.size \div 5)
          [] OTHER -> Illegal
  BY <1>1 DEF TripOrTrips
<1>7. \A type : /\ MaxNo(cards) = MAX => ofRank(type).type = "ILLEGAL"
                /\ MaxNo(cards) # MAX => ofRank(type).type = type
  BY <1>3, AnswerFields DEF Illegal
<1> HIDE DEF ofRank, tripPair, allTrips, planes
<1>8. p.size = 3 => answer = ofRank("TRIP")
  BY <1>5, <1>6
<1>9. tripPair => answer = ofRank("TRIP_PAIR")
  BY <1>5, <1>6
<1>10. allTrips =>
         /\ answer.type = "STRIGHT_TRIP" /\ answer.continuousNum = p.size \div 3
         /\ answer.mainPoke = LeadOfRun(p, 3, p.jokers)
  <2>1. allTrips => answer = Combo("STRIGHT_TRIP", LeadOfRun(p, 3, p.jokers), p.size \div 3)
    BY <1>5, <1>6
  <2> QED
    BY <2>1, AnswerFields
<1>11. p.size # 3 /\ ~tripPair /\ ~allTrips /\ planes => answer.type = "STRIGHT_TRIP_PAIR"
  <2> SUFFICES ASSUME p.size # 3 /\ ~tripPair /\ ~allTrips /\ planes
               PROVE  answer.type = "STRIGHT_TRIP_PAIR"
    OBVIOUS
  <2> DEFINE lead == IF p.crossA23 THEN p.cards[p.size - 5] ELSE MainPoke(p)
  <2>1. answer = Combo("STRIGHT_TRIP_PAIR", lead, p.size \div 5)
    BY <1>6
  <2> HIDE DEF lead
  <2> QED
    BY <2>1, AnswerFields
<1>12. p.size # 3 /\ ~tripPair /\ ~allTrips /\ ~planes => answer.type = "ILLEGAL"
  <2>1. p.size # 3 /\ ~tripPair /\ ~allTrips /\ ~planes => answer = Illegal
    BY <1>6
  <2> QED
    BY <2>1, AnswerFields DEF Illegal
<1>13. /\ MaxNo(cards) = MAX /\ (Len(cards) = 3 \/ FullHouse(cards)) => answer.type = "ILLEGAL"
       /\ MaxNo(cards) # MAX /\ Len(cards) = 3 => answer.type = "TRIP"
       /\ MaxNo(cards) # MAX /\ FullHouse(cards) => answer.type = "TRIP_PAIR"
  BY <1>2, <1>4, <1>7, <1>8, <1>9
<1> QED
  BY <1>2, <1>4, <1>10, <1>11, <1>12, <1>13 DEF p

(* Four to eight equal cards: a bomb when there are no others.                *)
LEMMA OfFourEachOrMore ==
  ASSUME NEW cards \in Seq(Poke), NEW one, MostEqual(cards) \in 1..8, MaxSame(cards) \in 4..8,
         NEW answer, answer = GetPokeCarsdType(cards, one)
  PROVE  /\ Profile(cards).maxSamePos = MAX /\ MaxSame(cards) = 4 => answer.type = "JOKER_QUADS"
         /\ Profile(cards).maxSamePos # MAX /\ Len(cards) = MaxSame(cards) => answer.type = "QUADS"
         /\ answer.type \in {"JOKER_QUADS", "QUADS", "ILLEGAL"}
         /\ answer.type = "QUADS" => Len(cards) = MaxSame(cards)
         /\ answer.type = "JOKER_QUADS" => Profile(cards).maxSamePos = MAX
<1> DEFINE p == Profile(cards)
           jokers == p.maxSame = 4 /\ p.maxSamePos = MAX
<1>1. answer = Quads(p)
  BY CombinationIs
<1>2. p.size = Len(cards) /\ p.maxSame = MaxSame(cards)
  BY ProfileFields
<1> HIDE DEF p
<1>3. jokers => answer = Combo("JOKER_QUADS", NoPoke, 0)
  BY <1>1 DEF Quads
<1>4. ~jokers /\ p.size = p.maxSame => answer = Combo("QUADS", MainPoke(p), p.maxSame)
  BY <1>1 DEF Quads
<1>5. ~jokers /\ p.size # p.maxSame => answer = Illegal
  BY <1>1 DEF Quads
<1>6. /\ jokers => answer.type = "JOKER_QUADS"
      /\ ~jokers /\ p.size = p.maxSame => answer.type = "QUADS"
      /\ ~jokers /\ p.size # p.maxSame => answer.type = "ILLEGAL"
  <2> HIDE DEF jokers
  <2> QED
    BY <1>3, <1>4, <1>5, AnswerFields DEF Illegal
<1>7. /\ p.maxSamePos = MAX /\ p.maxSame = 4 => answer.type = "JOKER_QUADS"
      /\ p.maxSamePos # MAX /\ p.size = p.maxSame => answer.type = "QUADS"
      /\ answer.type \in {"JOKER_QUADS", "QUADS", "ILLEGAL"}
      /\ answer.type = "QUADS" => p.size = p.maxSame
      /\ answer.type = "JOKER_QUADS" => p.maxSamePos = MAX
  BY <1>6
<1> QED
  BY <1>2, <1>7 DEF p

-----------------------------------------------------------------------------
\* Groups and bombs.

(* Equal cards: the number found most often is the only one.                  *)
LEMMA EqualIs ==
  ASSUME NEW cards \in Seq(Poke), Len(cards) > 0
  PROVE  /\ Cardinality(Numbers(cards)) = 1 <=> MaxSame(cards) = Len(cards)
         /\ MaxSame(cards) = Len(cards) => (MAX \in Numbers(cards) <=> MaxNo(cards) = MAX)
<1>1. Len(cards) \in Nat /\ DOMAIN cards = 1..Len(cards) /\ \A i \in DOMAIN cards : cards[i] \in Poke
  BY LenProperties, ElementOfSeq
<1>2. \A i \in DOMAIN cards : cards[i].number \in MIN..MAX
  BY <1>1, CardFields
<1>3. 1 \in DOMAIN cards
  BY <1>1
<1>4. ASSUME MaxSame(cards) = Len(cards) PROVE Numbers(cards) = {MaxNo(cards)}
  <2>1. Times(cards, MaxNo(cards)) = Len(cards)
    BY <1>4, MaxSameIs
  <2>2. \A i \in DOMAIN cards : cards[i].number = MaxNo(cards)
    BY <2>1, Counting
  <2> QED
    BY <1>3, <2>2 DEF Numbers
<1>5. ASSUME Cardinality(Numbers(cards)) = 1 PROVE MaxSame(cards) = Len(cards)
  <2>1. Numbers(cards) \in SUBSET (MIN..MAX) /\ IsFiniteSet(MIN..MAX)
    <3>1. MIN \in Int /\ MAX \in Int
      BY DEF MIN, MAX
    <3> QED
      BY <1>2, <3>1, FS_Interval DEF Numbers
  <2>2. IsFiniteSet(Numbers(cards))
    BY <2>1, FS_Subset
  <2>3. PICK x : Numbers(cards) = {x}
    BY <1>5, <2>2, FS_Singleton
  <2>4. \A i \in DOMAIN cards : cards[i].number = x
    BY <2>3 DEF Numbers
  <2>5. Times(cards, x) = Len(cards) /\ x \in MIN..MAX
    BY <1>2, <1>3, <2>4, Counting
  <2>6. ~FourJokers(cards)
    <3> SUFFICES ASSUME FourJokers(cards) PROVE FALSE
      OBVIOUS
    <3>1. Times(cards, MAX) = 4 /\ Len(cards) > 4
      BY CountedIsTimes DEF FourJokers, MAX
    <3>2. Times(cards, MAX) # 0
      BY <3>1
    <3>3. x = MAX
      BY <2>4, <3>2, Counting
    <3>4. Len(cards) = 4
      BY <2>5, <3>1, <3>3
    <3> QED
      BY ONLY <3>1, <3>4
  <2>7. Times(cards, x) <= MaxSame(cards)
    BY <2>5, <2>6, MaxSameIs DEF MIN, MAX, TWO
  <2>8. MaxSame(cards) \in 1..Len(cards)
    BY MaxSameIs
  <2> QED
    BY <1>1, <2>5, <2>7, <2>8
<1>6. Cardinality({MaxNo(cards)}) = 1
  BY FS_Singleton
<1>7. Cardinality(Numbers(cards)) = 1 <=> MaxSame(cards) = Len(cards)
  BY <1>4, <1>5, <1>6
<1>8. MaxSame(cards) = Len(cards) => (MAX \in Numbers(cards) <=> MaxNo(cards) = MAX)
  BY <1>4
<1> QED
  BY <1>7, <1>8

(* A trip and a pair.                                                         *)
IsFullHouse(cards) ==
  /\ Len(cards) = 5
  /\ {Times(cards, n) : n \in Numbers(cards)} = {2, 3}
  /\ Times(cards, MAX) # 3

(* The classifier asks for five cards and one pair to tell a trip with a      *)
(* pair.                                                                      *)
LEMMA FullHouseIs ==
  ASSUME NEW cards \in Seq(Poke), Len(cards) > 0
  PROVE  IsFullHouse(cards)
           <=> MaxSame(cards) = 3 /\ FullHouse(cards) /\ MaxNo(cards) # MAX
<1> DEFINE a == MaxNo(cards)
<1>1. Len(cards) \in Nat /\ DOMAIN cards = 1..Len(cards) /\ \A i \in DOMAIN cards : cards[i] \in Poke
  BY LenProperties, ElementOfSeq
<1>2. \A i \in DOMAIN cards : cards[i].number \in MIN..MAX
  BY <1>1, CardFields
<1>3. a \in MIN..MAX /\ Times(cards, a) = MaxSame(cards)
  BY MaxSameIs
<1>4. \A n : Times(cards, n) \in Nat /\ (Times(cards, n) # 0 <=> n \in Numbers(cards))
  <2> TAKE n
  <2>1. /\ Times(cards, n) \in 0..Len(cards)
        /\ (Times(cards, n) = 0 <=> (\A i \in DOMAIN cards : cards[i].number # n))
    BY Counting
  <2> QED
    BY <1>1, <2>1 DEF Numbers
<1>5. \A m, n : m # n /\ Times(cards, m) = 3 /\ Times(cards, n) = 2 /\ Len(cards) = 5
        => Numbers(cards) = {m, n}
  <2> TAKE m, n
  <2> HAVE m # n /\ Times(cards, m) = 3 /\ Times(cards, n) = 2 /\ Len(cards) = 5
  <2>1. Times(cards, m) + Times(cards, n) = Len(cards)
    OBVIOUS
  <2>2. \A i \in DOMAIN cards : cards[i].number \in {m, n}
    BY <2>1, CountingTwo
  <2>3. Times(cards, m) # 0 /\ Times(cards, n) # 0
    OBVIOUS
  <2>4. m \in Numbers(cards) /\ n \in Numbers(cards)
    BY <1>4, <2>3
  <2> QED
    BY <2>2, <2>4 DEF Numbers
<1>6. \A n : Numbers(cards) \subseteq MIN..MAX
  BY <1>2 DEF Numbers
<1>7. FourJokers(cards) => Times(cards, MAX) = 4 /\ MaxSame(cards) < 4
  BY CountedIsTimes DEF FourJokers, MaxSame, MAX
<1>8. ASSUME IsFullHouse(cards)
      PROVE  MaxSame(cards) = 3 /\ FullHouse(cards) /\ a # MAX
  <2>1. PICK m \in Numbers(cards) : Times(cards, m) = 3
    BY <1>8 DEF IsFullHouse
  <2>2. PICK n \in Numbers(cards) : Times(cards, n) = 2
    BY <1>8 DEF IsFullHouse
  <2>3. m # n
    BY <2>1, <2>2
  <2>4. Numbers(cards) = {m, n} /\ Len(cards) = 5
    BY <1>5, <1>8, <2>1, <2>2, <2>3 DEF IsFullHouse
  <2>5. Times(cards, MAX) # 4
    BY <1>4, <2>1, <2>2, <2>4
  <2>6. ~FourJokers(cards)
    BY <1>7, <2>5
  <2>7. MaxSame(cards) # 0 /\ a \in {m, n}
    BY <1>3, <1>4, <2>4, MaxSameIs, SMTT(30)
  <2>8. Times(cards, m) <= MaxSame(cards)
    BY <1>6, <2>6, MaxSameIs DEF MIN, MAX, TWO
  <2>9. MaxSame(cards) = 3 /\ a = m
    BY <1>3, <2>1, <2>2, <2>7, <2>8
  <2>10. a # MAX
    BY <1>8, <2>1, <2>9 DEF IsFullHouse
  <2>11. Found(cards, 2) = {n}
    <3>1. \A x \in MIN..MAX : Times(cards, x) = 2 => x = n
      BY <1>4, <2>1, <2>4
    <3> QED
      BY <1>6, <2>2, <3>1 DEF Found
  <2>12. Kinds(cards)[2] = 1
    <3>1. Cardinality(Found(cards, 2)) = 1
      BY <2>11, FS_Singleton
    <3> QED
      BY <2>6, <3>1, KindsAre
  <2> QED
    BY <2>4, <2>9, <2>10, <2>12 DEF FullHouse
<1>9. ASSUME MaxSame(cards) = 3, FullHouse(cards), a # MAX
      PROVE  IsFullHouse(cards)
  <2>1. Len(cards) = 5 /\ Kinds(cards)[2] = 1 /\ Times(cards, a) = 3
    BY <1>3, <1>9 DEF FullHouse
  <2>2. ~FourJokers(cards)
    <3> SUFFICES ASSUME FourJokers(cards) PROVE FALSE
      OBVIOUS
    <3>1. Times(cards, a) + Times(cards, MAX) <= Len(cards)
      BY <1>9, CountingTwo
    <3>2. Times(cards, MAX) = 4
      BY <1>7
    <3> QED
      BY ONLY <2>1, <3>1, <3>2
  <2>3. Cardinality(Found(cards, 2)) = 1 /\ IsFiniteSet(Found(cards, 2))
    <3>1. 2 \in Nat \ {0}
      OBVIOUS
    <3>2. IsFiniteSet(Found(cards, 2)) /\ Cardinality(Found(cards, 2)) \in Nat
      BY <3>1, FoundMany
    <3> QED
      BY <2>1, <2>2, <3>2, KindsAre
  <2>4. PICK n : Found(cards, 2) = {n}
    BY <2>3, FS_Singleton
  <2>5. Times(cards, n) = 2 /\ n # a
    BY <2>1, <2>4 DEF Found
  <2>6. Numbers(cards) = {a, n}
    BY <1>5, <2>1, <2>5
  <2>7. {Times(cards, x) : x \in Numbers(cards)} = {2, 3}
    BY <2>1, <2>5, <2>6
  <2>8. Times(cards, MAX) # 3
    BY <1>4, <1>9, <2>5, <2>6
  <2> QED
    BY <2>1, <2>7, <2>8 DEF IsFullHouse
<1> QED
  BY <1>8, <1>9

(* The combinations that are no run, and the bombs, are named as the rules    *)
(* do.                                                                        *)
LEMMA GroupsMatch ==
  ASSUME HandInv
  PROVE  GroupsMatchRules
<1> DEFINE size == Len(mine)
           one == game.isOnePeckOfCards
           M == MaxSame(mine)
           t == MyType.type
           S == {"SINGLE", "PAIR", "TRIP", "TRIP_PAIR", "QUADS", "JOKER_QUADS"}
           equal == Cardinality(Numbers(mine)) = 1
           jokers == MAX \in Numbers(mine)
<1>1. mine \in Seq(Poke) /\ InOrder(mine) /\ one \in BOOLEAN
  BY GamesAssumption DEF HandInv
<1>2. size \in Nat
  BY <1>1, LenProperties
<1>3. SUFFICES ASSUME size > 0, size < 20, ~FourJokersAlone
              PROVE  \A type \in S : t = type <=> IsGroup(mine, type)
  <2>1. mine # <<>> => size > 0
    BY <1>1, <1>2, EmptySeq
  <2> QED
    BY <1>2, <1>3, <2>1 DEF GroupsMatchRules, GroupTypes, BombTypes, MAX
<1>4. /\ IsGroup(mine, "SINGLE") <=> size = 1
      /\ IsGroup(mine, "PAIR") <=>
           size = 2 /\ equal /\ (jokers => ~one /\ mine[1].color = mine[2].color)
      /\ IsGroup(mine, "TRIP") <=> size = 3 /\ equal /\ ~jokers
      /\ IsGroup(mine, "TRIP_PAIR") <=> IsFullHouse(mine)
      /\ IsGroup(mine, "QUADS") <=> size \in 4..8 /\ equal
      /\ IsGroup(mine, "JOKER_QUADS") <=> size = 2 /\ equal /\ jokers /\ one
  <2>1. ~(size = 4 /\ equal /\ jokers)
    BY <1>3 DEF FourJokersAlone, IsGroup
  <2> QED
    BY <2>1 DEF IsGroup, IsFullHouse
<1>5. M \in 1..size /\ (equal <=> M = size) /\ (M = size => (jokers <=> MaxNo(mine) = MAX))
  BY <1>1, <1>3, EqualIs, MaxSameIs
<1>6. IsFullHouse(mine) <=> M = 3 /\ FullHouse(mine) /\ MaxNo(mine) # MAX
  BY <1>1, <1>3, FullHouseIs
<1>7. IsFullHouse(mine) => size = 5
  BY DEF IsFullHouse
<1> HIDE DEF size, equal, jokers, M
<1>8. CASE MostEqual(mine) \notin 1..8
  <2>1. size > 8
    BY <1>1, <1>2, <1>3, <1>8, MostEqualIs, MaxSameIs DEF size
  <2>2. t = "THROWS"
    BY <1>8, AnswerFields DEF MyType, GetPokeCarsdType, Throws
  <2> HIDE DEF t
  <2>3. \A type \in S : ~IsGroup(mine, type)
    BY <1>2, <1>4, <1>7, <2>1
  <2> QED
    BY <2>2, <2>3
<1>9. CASE MostEqual(mine) \in 1..8
  <2>1. M \in 1..8
    BY <1>1, <1>9, ClassifiedIs DEF M
  <2>2. MyType = GetPokeCarsdType(mine, one)
    BY DEF MyType
  <2>3. CASE M = 1
    <3>1. /\ size = 1 => t = "SINGLE"
          /\ size # 1 => t \in StraightTypes \cup {"ILLEGAL"}
      BY <1>1, <1>9, <2>2, <2>3, OfOneEach DEF size, M
    <3> HIDE DEF t
    <3>2. \A type \in S : IsGroup(mine, type) <=> type = "SINGLE" /\ size = 1
      BY <1>2, <1>4, <1>5, <1>6, <2>3
    <3> QED
      BY <3>1, <3>2 DEF StraightTypes
  <2>4. CASE M = 2
    <3> DEFINE two == mine[1].color # mine[2].color
               rank == MaxNo(mine) = MAX
    <3>1. /\ size = 2 /\ rank /\ one => t = "JOKER_QUADS"
          /\ size = 2 /\ rank /\ ~one /\ two => t = "ILLEGAL"
          /\ size = 2 /\ ~(rank /\ (one \/ two)) => t = "PAIR"
          /\ size # 2 => t \in {"STRAIGHT_PAIR", "ILLEGAL"}
      BY <1>1, <1>9, <2>2, <2>4, OfTwoEach DEF size, M
    <3>2. /\ IsGroup(mine, "PAIR") <=> size = 2 /\ ~(rank /\ (one \/ two))
          /\ IsGroup(mine, "JOKER_QUADS") <=> size = 2 /\ rank /\ one
      BY <1>1, <1>4, <1>5, <2>4
    <3> HIDE DEF t, rank, two
    <3>3. \A type \in S \ {"PAIR", "JOKER_QUADS"} : ~IsGroup(mine, type)
      BY <1>2, <1>4, <1>5, <1>6, <2>4
    <3> QED
      BY <3>1, <3>2, <3>3
  <2>5. CASE M = 3
    <3> DEFINE rank == MaxNo(mine) = MAX
    <3>1. /\ rank /\ (size = 3 \/ FullHouse(mine)) => t = "ILLEGAL"
          /\ ~rank /\ size = 3 => t = "TRIP"
          /\ ~rank /\ FullHouse(mine) => t = "TRIP_PAIR"
          /\ size # 3 /\ ~FullHouse(mine)
               => t \in {"STRIGHT_TRIP", "STRIGHT_TRIP_PAIR", "ILLEGAL"}
      BY <1>1, <1>9, <2>2, <2>5, OfThreeEach DEF size, M
    <3>2. /\ IsGroup(mine, "TRIP") <=> size = 3 /\ ~rank
          /\ IsGroup(mine, "TRIP_PAIR") <=> FullHouse(mine) /\ ~rank
      BY <1>4, <1>5, <1>6, <2>5
    <3>3. FullHouse(mine) => size = 5
      BY DEF FullHouse, size
    <3> HIDE DEF t, rank
    <3>4. \A type \in S \ {"TRIP", "TRIP_PAIR"} : ~IsGroup(mine, type)
      BY <1>2, <1>4, <1>5, <2>5
    <3> QED
      BY <3>1, <3>2, <3>3, <3>4
  <2>6. CASE M \in 4..8
    <3>1. Profile(mine).maxSamePos # MAX
      <4> DEFINE pos == Profile(mine).maxSamePos
      <4>1. pos \in Nat /\ pos + M <= size
        BY <1>1, <1>3, MainPokeIs DEF size, M
      <4> HIDE DEF pos
      <4>2. pos < 16
        BY <1>2, <1>3, <2>6, <4>1
      <4> QED
        BY <4>1, <4>2 DEF MAX, pos
    <3>2. /\ size = M => t = "QUADS"
          /\ size # M => t = "ILLEGAL"
      BY <1>1, <1>9, <2>2, <2>6, <3>1, OfFourEachOrMore DEF size, M
    <3> HIDE DEF t
    <3>3. \A type \in S : IsGroup(mine, type) <=> type = "QUADS" /\ size = M
      BY <1>2, <1>4, <1>5, <1>6, <2>6
    <3> QED
      BY <3>2, <3>3
  <2> QED
    BY <2>1, <2>3, <2>4, <2>5, <2>6
<1> QED
  BY <1>8, <1>9

-----------------------------------------------------------------------------
\* Runs.

(* What the two loops of the fourth step find.                                *)
Up(cards, groups) ==
  {i \in 0..(groups - 1) : Times(cards, (i + MaxNo(cards)) % MAX) = MaxSame(cards)}
Down(cards, groups) ==
  {i \in 1..(groups - 1) : Times(cards, (MaxNo(cards) + 13 - i) % MAX) = MaxSame(cards)}

(* CardsInRun counts the numbers that its two loops find, and no loop counts  *)
(* more than its steps.                                                       *)
LEMMA LoopsFind ==
  ASSUME NEW cards \in Seq(Poke), Len(cards) > 0, NEW groups \in Nat, NEW perGroup
  PROVE  /\ CardsInRun(Counted(cards), MaxNo(cards), MaxSame(cards), groups, perGroup)
              = perGroup * (Cardinality(Up(cards, groups)) + Cardinality(Down(cards, groups)))
         /\ IsFiniteSet(Up(cards, groups)) /\ Cardinality(Up(cards, groups)) \in 0..groups
         /\ Cardinality(Up(cards, groups)) = groups => Up(cards, groups) = 0..(groups - 1)
         /\ IsFiniteSet(Down(cards, groups)) /\ Cardinality(Down(cards, groups)) \in Nat
<1> DEFINE first == MaxNo(cards)
           k == MaxSame(cards)
           counts == Counted(cards)
           up == {i \in 0..(groups - 1) : counts[(i + first) % MAX] = k}
           down == {i \in 1..(groups - 1) : counts[(first + MAX - i - 3) % MAX] = k}
<1>1. first \in 3..16
  BY MaxSameIs DEF MIN, MAX
<1>2. \A n \in 0..16 : counts[n] = Times(cards, n)
  BY CountedIsTimes DEF MAX
<1>3. CardsInRun(counts, first, k, groups, perGroup) = perGroup * (Cardinality(up) + Cardinality(down))
  BY DEF CardsInRun
<1> HIDE DEF counts, first, k
<1>4. up = Up(cards, groups)
  <2>1. \A i \in 0..(groups - 1) : (i + first) % 16 \in 0..16
    BY <1>1
  <2>2. \A i \in 0..(groups - 1) : counts[(i + first) % 16] = Times(cards, (i + first) % 16)
    BY <1>2, <2>1
  <2> QED
    BY <2>2 DEF Up, MAX, first, k
<1>5. down = Down(cards, groups)
  <2>1. \A i \in 1..(groups - 1) :
          /\ (first + 13 - i) % 16 \in 0..16
          /\ first + 16 - i - 3 = first + 13 - i
    BY <1>1
  <2>2. \A i \in 1..(groups - 1) :
          counts[(first + 16 - i - 3) % 16] = Times(cards, (first + 13 - i) % 16)
    BY <1>2, <2>1
  <2> QED
    BY <2>2 DEF Down, MAX, first, k
<1>6. IsFiniteSet(0..(groups - 1)) /\ Cardinality(0..(groups - 1)) = groups
  <2>1. 0 \in Int /\ groups - 1 \in Int
    OBVIOUS
  <2>2. /\ IsFiniteSet(0..(groups - 1))
        /\ Cardinality(0..(groups - 1)) = IF 0 > groups - 1 THEN 0 ELSE (groups - 1) - 0 + 1
    BY <2>1, FS_Interval
  <2> QED
    BY <2>2
<1>7. up \in SUBSET (0..(groups - 1)) /\ down \in SUBSET (0..(groups - 1))
  OBVIOUS
<1> HIDE DEF up, down
<1>8. /\ IsFiniteSet(up) /\ Cardinality(up) <= groups
      /\ Cardinality(up) = groups => up = 0..(groups - 1)
      /\ IsFiniteSet(down)
  <2> DEFINE span == 0..(groups - 1)
  <2>1. IsFiniteSet(span) /\ Cardinality(span) = groups /\ up \in SUBSET span /\ down \in SUBSET span
    BY <1>6, <1>7
  <2>2. /\ IsFiniteSet(up) /\ Cardinality(up) <= Cardinality(span)
        /\ Cardinality(span) = Cardinality(up) => span = up
        /\ IsFiniteSet(down)
    <3> HIDE DEF span
    <3> QED
      BY <2>1, FS_Subset
  <2> QED
    BY <2>1, <2>2
<1>9. Cardinality(up) \in Nat /\ Cardinality(down) \in Nat
  BY <1>8, FS_CardinalityType
<1> QED
  BY <1>3, <1>4, <1>5, <1>8, <1>9 DEF counts, first, k

(* A run of pairs of fewer than 16 cards is made of pairs: the loops look at  *)
(* no number twice.                                                           *)
LEMMA ShortPairsAreEven ==
  ASSUME NEW cards \in Seq(Poke), Len(cards) \in 1..15, Continues(cards), MaxSame(cards) = 2
  PROVE  \A n \in Numbers(cards) : n \in MIN..TWO /\ Times(cards, n) = 2
<1> DEFINE groups == Len(cards) \div 2
           up == Up(cards, groups)
           down == Down(cards, groups)
           c == MaxNo(cards)
           U == {(i + c) % 16 : i \in up}
           D == {(c + 13 - i) % 16 : i \in down}
           R == {n \in MIN..TWO : Times(cards, n) = 2}
<1>1. groups \in 0..7 /\ c \in 3..16
  <2>1. c \in MIN..MAX
    BY MaxSameIs
  <2>2. groups \in 0..7
    <3>1. \A n \in 1..15 : n \div 2 \in 0..7
      OBVIOUS
    <3> QED
      BY <3>1
  <2> QED
    BY <2>1, <2>2 DEF MIN, MAX
<1>2. PerGroup(cards) = 2
  BY DEF PerGroup, Plane
<1>3. /\ IsFiniteSet(up) /\ Cardinality(up) \in Nat /\ IsFiniteSet(down) /\ Cardinality(down) \in Nat
      /\ Len(cards) = 2 * (Cardinality(up) + Cardinality(down))
  <2>1. CardsInRun(Counted(cards), MaxNo(cards), MaxSame(cards), groups, 2) = Len(cards)
    BY <1>2 DEF Continues
  <2> HIDE DEF groups
  <2>2. /\ CardsInRun(Counted(cards), MaxNo(cards), MaxSame(cards), groups, 2)
            = 2 * (Cardinality(up) + Cardinality(down))
        /\ IsFiniteSet(up) /\ Cardinality(up) \in 0..groups
        /\ IsFiniteSet(down) /\ Cardinality(down) \in Nat
    <3>1. Len(cards) > 0
      OBVIOUS
    <3>2. groups \in Nat
      BY <1>1
    <3> QED
      BY <3>1, <3>2, LoopsFind
  <2> QED
    BY <1>1, <2>1, <2>2
<1>4. /\ up \subseteq 0..6 /\ \A i \in up : Times(cards, (i + c) % 16) = 2
      /\ down \subseteq 1..6 /\ \A i \in down : Times(cards, (c + 13 - i) % 16) = 2
  BY <1>1, SMTT(30) DEF Up, Down, MAX
<1> HIDE DEF up, down, c
<1>5. IsFiniteSet(U) /\ Cardinality(U) = Cardinality(up)
  <2>1. up \subseteq 0..15 /\ c \in Nat
    BY <1>1, <1>4
  <2> QED
    BY <1>3, <2>1, ShiftCount
<1>6. IsFiniteSet(D) /\ Cardinality(D) = Cardinality(down)
  <2> DEFINE e == c + 13
             E == {(e - i) % 16 : i \in down}
  <2>1. down \subseteq 0..15 /\ e \in Nat
    BY <1>1, <1>4
  <2>2. \A i \in down : e - i = c + 13 - i
    BY <1>1, <1>4
  <2>3. E = D
    BY <2>2
  <2>4. IsFiniteSet(E) /\ Cardinality(E) = Cardinality(down)
    <3> HIDE DEF e
    <3> QED
      BY <1>3, <2>1, ShiftCount
  <2> QED
    BY <2>3, <2>4
<1>7. \A n : Times(cards, n) = 2 => n \in MIN..MAX
  <2> TAKE n
  <2> HAVE Times(cards, n) = 2
  <2>1. PICK i \in DOMAIN cards : cards[i].number = n
    BY Counting
  <2> QED
    BY <2>1, ElementOfSeq, LenProperties, CardFields
<1>8. U \subseteq R /\ D \subseteq R
  <2>1. \A i \in up : (i + c) % 16 \in 0..15 /\ Times(cards, (i + c) % 16) = 2
    BY <1>1, <1>4
  <2>2. \A i \in down : (c + 13 - i) % 16 \in 0..15 /\ Times(cards, (c + 13 - i) % 16) = 2
    BY <1>1, <1>4
  <2>3. \A n \in 0..15 : Times(cards, n) = 2 => n \in R
    BY <1>7 DEF MIN, MAX, TWO
  <2> QED
    BY <2>1, <2>2, <2>3
<1>9. U \cap D = {}
  <2>1. \A i \in 0..6 : \A j \in 1..6 : (i + c) % 16 # (c + 13 - j) % 16
    BY <1>1
  <2> QED
    BY <1>4, <2>1
<1> HIDE DEF U, D
<1>10. /\ IsFiniteSet(U \cup D)
       /\ Cardinality(U \cup D) = Cardinality(up) + Cardinality(down)
  <2>1. IsFiniteSet(U \cup D) /\ Cardinality(U \cup D) = Cardinality(U) + Cardinality(D)
    BY <1>5, <1>6, <1>9, CountingApart
  <2> QED
    BY <1>5, <1>6, <2>1
<1>11. /\ IsFiniteSet(R) /\ Cardinality(R) \in Nat /\ Cardinality(R) * 2 <= Len(cards)
       /\ Cardinality(R) * 2 = Len(cards) => (\A i \in DOMAIN cards : cards[i].number \in R)
  <2>1. R \subseteq MIN..MAX /\ (\A n \in R : Times(cards, n) >= 2) /\ 2 \in Nat \ {0}
    BY DEF MIN, MAX, TWO
  <2> HIDE DEF R
  <2> QED
    BY <2>1, CountingMany
<1>12. Cardinality(U \cup D) <= Cardinality(R)
  <2>1. U \cup D \in SUBSET R
    BY <1>8
  <2> HIDE DEF R
  <2> QED
    BY <1>11, <2>1, FS_Subset
<1> HIDE DEF R
<1>13. \A i \in DOMAIN cards : cards[i].number \in R
  BY <1>3, <1>10, <1>11, <1>12, SMTT(30)
<1> QED
  BY <1>13 DEF R, Numbers

(* The numbers of a list are those found in it.                               *)
LEMMA NumbersAre ==
  ASSUME NEW cards \in Seq(Poke)
  PROVE  /\ Numbers(cards) \subseteq MIN..MAX
         /\ \A n : Times(cards, n) \in Nat /\ (Times(cards, n) # 0 <=> n \in Numbers(cards))
<1>1. Len(cards) \in Nat /\ DOMAIN cards = 1..Len(cards) /\ \A i \in DOMAIN cards : cards[i] \in Poke
  BY LenProperties, ElementOfSeq
<1>2. \A i \in DOMAIN cards : cards[i].number \in MIN..MAX
  BY <1>1, CardFields
<1>3. \A n : Times(cards, n) \in Nat /\ (Times(cards, n) # 0 <=> n \in Numbers(cards))
  <2> TAKE n
  <2>1. /\ Times(cards, n) \in 0..Len(cards)
        /\ (Times(cards, n) = 0 <=> (\A i \in DOMAIN cards : cards[i].number # n))
    BY Counting
  <2> QED
    BY <1>1, <2>1 DEF Numbers
<1> QED
  BY <1>2, <1>3 DEF Numbers

(* When the trips fill the list, each number is found three times.            *)
LEMMA AllTripsAreEven ==
  ASSUME NEW cards \in Seq(Poke), AllTrips(cards)
  PROVE  \A n \in Numbers(cards) : Times(cards, n) = 3
<1>1. Cardinality(Found(cards, 3)) * 3 = Len(cards)
  BY KindsAre DEF AllTrips
<1>2. 3 \in Nat \ {0}
  OBVIOUS
<1>3. Cardinality(Found(cards, 3)) * 3 = Len(cards)
        => (\A i \in DOMAIN cards : Times(cards, cards[i].number) = 3)
  BY ONLY <1>2, cards \in Seq(Poke), FoundMany
<1> QED
  BY <1>1, <1>3 DEF Numbers

(* What is known of cards that are taken for a run.                           *)
LEMMA TakenForARun ==
  ASSUME HandInv, MyType.type \in RunTypes
  PROVE  /\ Len(mine) > 0 /\ Continues(mine)
         /\ \/ /\ MyType.type \in StraightTypes /\ MaxSame(mine) = 1
               /\ MyType.mainPoke = LeadOfRun(Profile(mine), 1, 0)
            \/ /\ MyType.type = "STRAIGHT_PAIR" /\ MaxSame(mine) = 2
               /\ MyType.mainPoke = LeadOfRun(Profile(mine), 2, 0)
            \/ /\ MyType.type = "STRIGHT_TRIP" /\ MaxSame(mine) = 3 /\ AllTrips(mine)
               /\ MyType.mainPoke = LeadOfRun(Profile(mine), 3, Times(mine, MAX))
            \/ /\ MyType.type = "STRIGHT_TRIP_PAIR" /\ MaxSame(mine) = 3 /\ Planes(mine)
               /\ ~FullHouse(mine)
<1> DEFINE one == game.isOnePeckOfCards
           t == MyType.type
<1>1. mine \in Seq(Poke) /\ InOrder(mine) /\ one \in BOOLEAN
  BY GamesAssumption DEF HandInv
<1>2. MyType = GetPokeCarsdType(mine, one)
  BY DEF MyType
<1>3. t \in {"STRAIGHT", "FLUSH_STRAIGHT", "STRAIGHT_PAIR", "STRIGHT_TRIP", "STRIGHT_TRIP_PAIR"}
  BY DEF RunTypes, StraightTypes
<1>4. MostEqual(mine) \in 1..8
  <2> SUFFICES ASSUME MostEqual(mine) \notin 1..8 PROVE FALSE
    OBVIOUS
  <2>1. t = "THROWS"
    BY <1>2, AnswerFields DEF GetPokeCarsdType, Throws
  <2> QED
    BY <1>3, <2>1
<1>5. Len(mine) > 0 /\ MaxSame(mine) \in 1..8
  BY <1>1, <1>4, ClassifiedIs
<1> HIDE DEF t
<1>6. CASE MaxSame(mine) = 1
  <2>1. Len(mine) # 1 /\ Continues(mine) /\ Len(mine) >= 5
    BY <1>1, <1>2, <1>3, <1>4, <1>6, OfOneEach DEF t
  <2> QED
    BY <1>1, <1>2, <1>4, <1>5, <1>6, <2>1, OfOneEach
<1>7. CASE MaxSame(mine) = 2
  <2>1. Len(mine) # 2 /\ Len(mine) % 2 = 0 /\ Continues(mine) /\ Len(mine) >= 6
    BY <1>1, <1>2, <1>3, <1>4, <1>7, OfTwoEach DEF t
  <2> QED
    BY <1>1, <1>2, <1>4, <1>5, <1>7, <2>1, OfTwoEach
<1>8. CASE MaxSame(mine) = 3
  <2>1. /\ MaxNo(mine) = MAX /\ (Len(mine) = 3 \/ FullHouse(mine)) => t = "ILLEGAL"
        /\ MaxNo(mine) # MAX /\ Len(mine) = 3 => t = "TRIP"
        /\ MaxNo(mine) # MAX /\ FullHouse(mine) => t = "TRIP_PAIR"
        /\ Len(mine) # 3 /\ ~FullHouse(mine) /\ AllTrips(mine) =>
              /\ t = "STRIGHT_TRIP"
              /\ MyType.mainPoke = LeadOfRun(Profile(mine), 3, Times(mine, MAX))
        /\ Len(mine) # 3 /\ ~FullHouse(mine) /\ ~AllTrips(mine) /\ Planes(mine)
              => t = "STRIGHT_TRIP_PAIR"
        /\ Len(mine) # 3 /\ ~FullHouse(mine) /\ ~AllTrips(mine) /\ ~Planes(mine)
              => t = "ILLEGAL"
    BY <1>1, <1>2, <1>4, <1>8, OfThreeEach DEF t
  <2>2. Len(mine) # 3 /\ ~FullHouse(mine) /\ (AllTrips(mine) \/ Planes(mine))
    BY <1>3, <2>1
  <2>3. Continues(mine)
    BY <2>2 DEF AllTrips, Planes
  <2> QED
    BY <1>5, <1>8, <2>1, <2>2, <2>3 DEF t
<1>9. CASE MaxSame(mine) \in 4..8
  <2>1. t \in {"JOKER_QUADS", "QUADS", "ILLEGAL"}
    BY <1>1, <1>2, <1>4, <1>9, OfFourEachOrMore DEF t
  <2> QED
    BY <1>3, <2>1
<1> QED
  BY <1>5, <1>6, <1>7, <1>8, <1>9

(* K, A, 2 and 3 do not all belong to a run.                                  *)
LEMMA NeverKingAceTwoThree ==
  ASSUME HandInv, MyType.type \in RunTypes, LoopsApart
  PROVE  ~({K, A, TWO, MIN} \subseteq RunNumbers(mine, MyType.type))
<1> DEFINE four == {MIN, K, A, TWO}
           numbers == RunNumbers(mine, MyType.type)
<1> SUFFICES ASSUME four \subseteq numbers PROVE FALSE
  OBVIOUS
<1>1. mine \in Seq(Poke)
  BY DEF HandInv
<1>2. Len(mine) > 0 /\ Continues(mine)
  BY TakenForARun
<1>3. four \subseteq MIN..TWO /\ \A n \in four : Counted(mine)[n] = Times(mine, n)
  BY CountedIsTimes DEF MIN, K, A, TWO, MAX
<1>4. \E n \in four : Times(mine, n) # MaxSame(mine)
  BY <1>2, <1>3 DEF Continues, HasKingAceTwoThree
<1>5. numbers \subseteq Numbers(mine)
  BY DEF RunNumbers
<1>6. \A n \in four : Times(mine, n) \in Nat /\ Times(mine, n) # 0 /\ Times(mine, n) <= MaxSame(mine)
  BY <1>1, <1>2, <1>3, <1>5, NumbersAre, MaxSameIs
<1>7. CASE MaxSame(mine) = 1
  BY <1>4, <1>6, <1>7
<1>8. CASE MyType.type = "STRAIGHT_PAIR" /\ MaxSame(mine) = 2
  <2>1. Len(mine) \in 1..15
    <3>1. Len(mine) \in Nat /\ Len(mine) < 16
      BY <1>1, <1>8, LenProperties DEF LoopsApart, MAX
    <3>2. \A n \in Nat : n > 0 /\ n < 16 => n \in 1..15
      OBVIOUS
    <3>3. Len(mine) > 0
      BY <1>2
    <3> QED
      BY <3>1, <3>2, <3>3
  <2>2. \A n \in Numbers(mine) : Times(mine, n) = 2
    BY <1>1, <1>2, <1>8, <2>1, ShortPairsAreEven
  <2> QED
    BY <1>4, <1>5, <1>8, <2>2
<1>9. CASE MaxSame(mine) = 3 /\ AllTrips(mine)
  <2>1. \A n \in Numbers(mine) : Times(mine, n) = 3
    BY <1>1, <1>9, AllTripsAreEven
  <2> QED
    BY <1>4, <1>5, <1>9, <2>1
<1>10. CASE MyType.type = "STRIGHT_TRIP_PAIR" /\ MaxSame(mine) = 3
  <2>1. \A n \in numbers : Times(mine, n) = 3
    BY <1>10 DEF RunNumbers
  <2> QED
    BY <1>4, <1>10, <2>1
<1> QED
  BY <1>7, <1>8, <1>9, <1>10, TakenForARun

-----------------------------------------------------------------------------
(* Cards none of which is above 9: the loop down finds nothing, the other one *)
(* a number in every step.                                                    *)
LEMMA LowRunIsWhole ==
  ASSUME NEW cards \in Seq(Poke), Len(cards) > 0, Continues(cards), MaxSame(cards) \in 1..3,
         \A n \in Numbers(cards) : n <= 9,
         NEW groups, groups = Len(cards) \div PerGroup(cards)
  PROVE  /\ groups \in 1..7 /\ Len(cards) = PerGroup(cards) * groups
         /\ MaxNo(cards) \in 3..9 /\ MaxNo(cards) + groups <= 10
         /\ \A n \in MaxNo(cards)..(MaxNo(cards) + groups - 1) : Times(cards, n) = MaxSame(cards)
<1> DEFINE first == MaxNo(cards)
           k == MaxSame(cards)
           per == PerGroup(cards)
           up == Up(cards, groups)
           down == Down(cards, groups)
<1>1. Len(cards) \in Nat
  BY LenProperties
<1>2. /\ Numbers(cards) \subseteq 3..9
      /\ \A n : Times(cards, n) \in Nat /\ (Times(cards, n) # 0 <=> n \in Numbers(cards))
  BY NumbersAre DEF MIN, MAX
<1>3. /\ first \in 3..9 /\ Times(cards, first) = k
      /\ \A n \in 3..9 : Times(cards, n) = k => first <= n
      /\ \A n \in 3..9 : Times(cards, n) <= k
  <2>1. /\ first \in MIN..MAX /\ Times(cards, first) = k
        /\ \A n \in MIN..MAX : Times(cards, n) = k => first <= n
        /\ \A n \in MIN..TWO : Times(cards, n) <= k
    BY MaxSameIs
  <2>2. first \in Numbers(cards)
    BY <1>2, <2>1
  <2> QED
    BY <1>2, <2>1, <2>2 DEF MIN, MAX, TWO
<1>4. Len(cards) <= 7 * k
  <2>1. \A i \in DOMAIN cards : cards[i].number \in 3..9
    BY <1>2 DEF Numbers
  <2>2. 3..9 \subseteq MIN..MAX /\ k \in Nat
    BY DEF MIN, MAX
  <2>3. Len(cards) <= Cardinality(3..9) * k
    BY <1>3, <2>1, <2>2, CountingAll
  <2>4. Cardinality(3..9) = 7
    <3>1. 3 \in Int /\ 9 \in Int
      OBVIOUS
    <3>2. Cardinality(3..9) = IF 3 > 9 THEN 0 ELSE 9 - 3 + 1
      BY ONLY <3>1, FS_Interval
    <3> QED
      BY <3>2
  <2> QED
    BY <2>3, <2>4
<1>5. (k \in {1, 2} /\ per = k) \/ (k = 3 /\ per \in {3, 5})
  BY DEF PerGroup, Plane
<1> HIDE DEF first, k, per
<1>6. groups \in 0..7
  <2>1. CASE k = 1 /\ per = 1
    BY <1>1, <1>4, <2>1 DEF per
  <2>2. CASE k = 2 /\ per = 2
    BY <1>1, <1>4, <2>2 DEF per
  <2>3. CASE k = 3 /\ per = 3
    BY <1>1, <1>4, <2>3 DEF per
  <2>4. CASE k = 3 /\ per = 5
    BY <1>1, <1>4, <2>4 DEF per
  <2> QED
    BY <1>5, <2>1, <2>2, <2>3, <2>4
<1>7. /\ Len(cards) = per * (Cardinality(up) + Cardinality(down))
      /\ Cardinality(up) \in 0..groups
      /\ Cardinality(up) = groups => up = 0..(groups - 1)
  <2>1. groups \in Nat
    BY <1>6
  <2>2. CardsInRun(Counted(cards), MaxNo(cards), MaxSame(cards), groups, per) = Len(cards)
    BY DEF Continues, per
  <2> QED
    BY <2>1, <2>2, LoopsFind
<1>8. down = {}
  <2> SUFFICES ASSUME NEW i \in down PROVE FALSE
    OBVIOUS
  <2> DEFINE n == (first + 13 - i) % 16
  <2>1. i \in 1..(groups - 1) /\ Times(cards, n) = k
    BY DEF Down, first, k, MAX
  <2>2. i \in 1..6
    BY <1>6, <2>1
  <2>3. n \in 10..15 \/ n = first - 3 - i
    BY <1>3, <2>2
  <2> HIDE DEF n
  <2>4. n \in 3..9
    BY <1>2, <1>5, <2>1
  <2>5. first <= n
    BY <1>3, <2>1, <2>4
  <2> QED
    BY <1>3, <2>2, <2>3, <2>4, <2>5
<1>9. Cardinality(down) = 0
  BY <1>8, FS_EmptySet
<1> HIDE DEF up, down
<1>10. Cardinality(up) = groups /\ Len(cards) = per * groups
  <2> DEFINE x == Cardinality(up)
  <2>1. Len(cards) = per * x /\ groups = Len(cards) \div per /\ x \in Nat
    BY <1>6, <1>7, <1>9 DEF per
  <2> HIDE DEF x
  <2>2. x = groups
    BY ONLY <1>5, <2>1
  <2> QED
    BY <2>1, <2>2 DEF x
<1>11. groups \in 1..7
  BY <1>5, <1>6, <1>10
<1>12. ASSUME NEW i \in 0..(groups - 1)
       PROVE  first + i <= 9 /\ Times(cards, first + i) = k
  <2> DEFINE n == (i + first) % 16
  <2>1. i \in up
    BY <1>7, <1>10
  <2>2. Times(cards, n) = k
    BY <2>1 DEF up, Up, first, k, MAX
  <2>3. n = first + i
    BY <1>3, <1>11
  <2> HIDE DEF n
  <2>4. n \in 3..9
    BY <1>2, <1>5, <2>2
  <2> QED
    BY <2>2, <2>3, <2>4
<1>13. first + groups <= 10
  <2>1. groups - 1 \in 0..(groups - 1)
    BY <1>11
  <2>2. first + (groups - 1) <= 9
    BY <1>12, <2>1
  <2> QED
    BY <1>3, <1>11, <2>2
<1>14. ASSUME NEW n \in first..(first + groups - 1) PROVE Times(cards, n) = k
  <2>1. n - first \in 0..(groups - 1) /\ first + (n - first) = n
    BY <1>3, <1>11
  <2> QED
    BY <1>12, <2>1
<1> QED
  BY <1>3, <1>10, <1>11, <1>13, <1>14 DEF first, k, per

\* A number of the run of `length` from `head`: from its head on or, if it
\* passes from 2 to 3, from 3 on.
InRun(n, head, length) ==
  \/ n \in head..15 /\ n < head + length
  \/ n \in 3..15 /\ n + 13 < head + length

(* Following gives the numbers of a run as InRun tells them.                  *)
LEMMA FollowingIs ==
  ASSUME NEW head \in 3..15, NEW length \in 0..13
  PROVE  \A n : n \in Following(head, length) <=> InRun(n, head, length)
<1>1. Following(head, length) = {3 + ((head - 3 + i) % 13) : i \in 0..(length - 1)}
  BY DEF Following, MIN, MAX
<1>2. ASSUME NEW i \in 0..(length - 1)
      PROVE  /\ head + i <= 15 => 3 + ((head - 3 + i) % 13) = head + i
             /\ head + i > 15 => 3 + ((head - 3 + i) % 13) = head + i - 13
  OBVIOUS
<1>3. ASSUME NEW n \in Following(head, length)
      PROVE  InRun(n, head, length)
  <2>1. PICK i \in 0..(length - 1) : n = 3 + ((head - 3 + i) % 13)
    BY <1>1
  <2> QED
    BY <1>2, <2>1 DEF InRun
<1>4. ASSUME NEW n \in head..15, n < head + length PROVE n \in Following(head, length)
  <2>1. n - head \in 0..(length - 1) /\ head + (n - head) = n /\ n <= 15
    BY <1>4
  <2>2. 3 + ((head - 3 + (n - head)) % 13) = n
    BY <1>2, <2>1
  <2> QED
    BY <1>1, <2>1, <2>2
<1>5. ASSUME NEW n \in 3..15, n + 13 < head + length PROVE n \in Following(head, length)
  <2> DEFINE i == n + 13 - head
  <2>1. i \in 0..(length - 1) /\ head + i > 15 /\ head + i - 13 = n
    BY <1>5
  <2>2. 3 + ((head - 3 + i) % 13) = n
    BY <1>2, <2>1
  <2> QED
    BY <1>1, <2>1, <2>2
<1> QED
  BY <1>3, <1>4, <1>5 DEF InRun

(* Consecutive numbers up to 9 are a run.                                     *)
LEMMA LowIsRun ==
  ASSUME NEW f \in 3..9, NEW g \in 1..7, f + g <= 10
  PROVE  /\ IsRun(f..(f + g - 1)) /\ Cardinality(f..(f + g - 1)) = g
<1> DEFINE S == f..(f + g - 1)
<1>1. Cardinality(S) = g
  <2>1. f \in Int /\ f + g - 1 \in Int
    OBVIOUS
  <2>2. Cardinality(S) = IF f > f + g - 1 THEN 0 ELSE (f + g - 1) - f + 1
    BY <2>1, FS_Interval
  <2> QED
    BY <2>2
<1>2. \A n : n \in Following(f, g) <=> InRun(n, f, g)
  <2>1. f \in 3..15 /\ g \in 0..13
    OBVIOUS
  <2> QED
    BY <2>1, FollowingIs
<1>3. S = Following(f, g)
  <2>1. \A n : n \in f..15 /\ n < f + g <=> n \in S
    OBVIOUS
  <2>2. \A n \in 3..15 : ~(n + 13 < f + g)
    OBVIOUS
  <2>3. \A n : n \in Following(f, g) <=> n \in S
    BY <1>2, <2>1, <2>2 DEF InRun
  <2> HIDE DEF S
  <2> QED
    BY <2>3
<1>4. f \in S /\ S \subseteq MIN..TWO /\ K \notin S
  BY DEF MIN, K, TWO
<1> HIDE DEF S
<1>5. LeadsRun(f, S)
  BY <1>1, <1>3 DEF LeadsRun
<1>6. IsRun(S)
  BY <1>4, <1>5 DEF IsRun
<1> QED
  BY <1>1, <1>6 DEF S

(* A run none of whose cards is above 9 is made of consecutive cards.         *)
LEMMA LowRuns ==
  ASSUME HandInv, MyType.type \in RunTypes, \A n \in Numbers(mine) : n <= 9
  PROVE  IsRun(RunNumbers(mine, MyType.type))
<1> DEFINE per == PerGroup(mine)
           groups == Len(mine) \div per
           f == MaxNo(mine)
           k == MaxSame(mine)
           R == f..(f + groups - 1)
           numbers == RunNumbers(mine, MyType.type)
<1>1. mine \in Seq(Poke) /\ Len(mine) > 0 /\ Continues(mine) /\ k \in 1..3
  BY TakenForARun DEF HandInv
<1>2. /\ groups \in 1..7 /\ Len(mine) = per * groups
      /\ f \in 3..9 /\ f + groups <= 10
      /\ \A n \in R : Times(mine, n) = k
  BY <1>1, LowRunIsWhole
<1> HIDE DEF groups, f, k
<1>3. IsRun(R) /\ Cardinality(R) = groups /\ R \subseteq MIN..MAX
  <2>1. R \subseteq MIN..MAX
    BY <1>2 DEF MIN, MAX
  <2> QED
    BY <1>2, <2>1, LowIsRun
<1> HIDE DEF R
<1>4. R \subseteq Numbers(mine)
  <2>1. \A n \in R : Times(mine, n) # 0
    BY <1>1, <1>2
  <2> QED
    BY <1>1, <2>1, NumbersAre
<1>5. ASSUME per = k PROVE Numbers(mine) = R
  <2>1. \A n \in R : Times(mine, n) >= k
    BY <1>1, <1>2
  <2>2. k \in Nat \ {0}
    BY <1>1
  <2>3. Cardinality(R) * k = Len(mine) => (\A i \in DOMAIN mine : mine[i].number \in R)
    BY <1>1, <1>3, <2>1, <2>2, CountingMany
  <2>4. Cardinality(R) * k = Len(mine)
    BY <1>1, <1>2, <1>3, <1>5
  <2> QED
    BY <1>4, <2>3, <2>4 DEF Numbers
<1>6. CASE k # 3
  <2>1. per = k
    BY <1>6 DEF PerGroup, Plane, k
  <2>2. numbers = Numbers(mine)
    BY <1>6, TakenForARun DEF RunNumbers, k, RunTypes, StraightTypes
  <2> QED
    BY <1>3, <1>5, <2>1, <2>2
<1>7. CASE k = 3 /\ MyType.type = "STRIGHT_TRIP" /\ AllTrips(mine)
  <2>1. Found(mine, 2) = {}
    <3> SUFFICES ASSUME NEW n \in Found(mine, 2) PROVE FALSE
      OBVIOUS
    <3>1. Times(mine, n) = 2
      BY DEF Found
    <3>2. n \in Numbers(mine)
      BY <1>1, <3>1, NumbersAre
    <3>3. Times(mine, n) = 3
      BY <1>1, <1>7, <3>2, AllTripsAreEven
    <3> QED
      BY <3>1, <3>3
  <2>2. ~FourJokers(mine)
    <3> SUFFICES ASSUME FourJokers(mine) PROVE FALSE
      OBVIOUS
    <3>1. Times(mine, MAX) = 4
      BY CountedIsTimes DEF FourJokers, MAX
    <3>2. MAX \in Numbers(mine)
      BY <1>1, <3>1, NumbersAre
    <3> QED
      BY <3>2 DEF MAX
  <2>3. Kinds(mine)[2] = 0
    <3>1. Cardinality(Found(mine, 2)) = 0
      BY <2>1, FS_EmptySet
    <3> QED
      BY <2>2, <3>1, KindsAre
  <2>4. ~Plane(mine)
    BY <2>3 DEF Plane
  <2>5. per = k /\ numbers = Numbers(mine)
    BY <1>7, <2>4 DEF PerGroup, RunNumbers, k
  <2> QED
    BY <1>3, <1>5, <2>5
<1>8. CASE k = 3 /\ MyType.type = "STRIGHT_TRIP_PAIR" /\ Planes(mine) /\ ~FullHouse(mine)
  <2> DEFINE F == Found(mine, 3)
  <2>1. IsFiniteSet(F) /\ Cardinality(F) \in Nat
    <3>1. 3 \in Nat \ {0}
      OBVIOUS
    <3> QED
      BY <1>1, <3>1, FoundMany
  <2>2. Kinds(mine)[3] = Cardinality(F) /\ Kinds(mine)[2] = Kinds(mine)[3]
        /\ Kinds(mine)[2] * 5 = Len(mine)
    BY <1>8, KindsAre DEF Planes
  <2>3. R \in SUBSET F
    BY <1>2, <1>3, <1>8 DEF Found
  <2> HIDE DEF F
  <2>4. Cardinality(R) <= Cardinality(F) /\ (Cardinality(F) = Cardinality(R) => F = R)
    BY <2>1, <2>3, FS_Subset
  <2>5. Cardinality(F) > 1
    <3>1. Cardinality(F) >= 1
      BY <1>2, <1>3, <2>1, <2>4
    <3>2. Cardinality(F) # 1
      BY <1>8, <2>2 DEF FullHouse
    <3> QED
      BY <2>1, <3>1, <3>2
  <2>6. per = 5
    BY <1>8, <2>2, <2>5 DEF PerGroup, Plane, k
  <2>7. Cardinality(F) = groups
    BY <1>2, <2>1, <2>2, <2>6
  <2>8. F = R
    BY <1>3, <2>4, <2>7
  <2>9. numbers = F
    <3>1. numbers = {n \in Numbers(mine) : Times(mine, n) = 3}
      BY <1>8 DEF RunNumbers
    <3>2. Numbers(mine) \subseteq MIN..MAX
      BY <1>1, NumbersAre
    <3> QED
      BY <1>4, <2>3, <2>8, <3>1, <3>2 DEF F, Found
  <2> QED
    BY <1>3, <2>8, <2>9
<1> QED
  BY <1>6, <1>7, <1>8, TakenForARun DEF k

(* Cards taken for a run are one, with no pass from the king to the 3.        *)
LEMMA RunsFollow ==
  ASSUME HandInv
  PROVE  RunsFollowTheRules
BY LowRuns, NeverKingAceTwoThree DEF RunsFollowTheRules

-----------------------------------------------------------------------------
\* Short runs.

(* Cards that are a run of groups of k equal cards.                           *)
LEMMA EvenRun ==
  ASSUME NEW cards \in Seq(Poke), Len(cards) > 0, NEW k \in 1..3,
         EachTimes(cards, k), IsRun(Numbers(cards)),
         NEW c, c = Cardinality(Numbers(cards))
  PROVE  /\ c \in 1..13 /\ Len(cards) = c * k
         /\ MaxSame(cards) = k /\ PerGroup(cards) = k /\ MostEqual(cards) \in 1..8
         /\ Kinds(cards)[3] = IF k = 3 THEN c ELSE 0
         /\ Times(cards, MAX) = 0
         /\ \A n : Times(cards, n) = k <=> n \in Numbers(cards)
         /\ MaxNo(cards) \in Numbers(cards) /\ \A n \in Numbers(cards) : MaxNo(cards) <= n
         /\ \E h \in 3..15 : /\ h \in Numbers(cards) /\ LeadsRun(h, Numbers(cards))
                               /\ \A n : n \in Numbers(cards) <=> InRun(n, h, c)
<1> DEFINE S == Numbers(cards)
<1>1. Len(cards) \in Nat
  BY LenProperties
<1>2. S \subseteq MIN..TWO
  BY DEF IsRun
<1>3. \A n : /\ Times(cards, n) \in Nat
             /\ n \in S => Times(cards, n) = k
             /\ n \notin S => Times(cards, n) = 0
  BY NumbersAre DEF EachTimes
<1>4. \A n : Times(cards, n) = k <=> n \in S
  BY <1>3
<1>5. MAX \notin S /\ S \subseteq MIN..MAX
  BY <1>2 DEF MIN, MAX, TWO
<1>6. Times(cards, MAX) = 0
  BY <1>3, <1>5
<1>7. ~FourJokers(cards)
  BY <1>6, CountedIsTimes DEF FourJokers, MAX
<1>8. /\ MaxSame(cards) \in 1..Len(cards) /\ MaxNo(cards) \in MIN..MAX
      /\ Times(cards, MaxNo(cards)) = MaxSame(cards)
      /\ \A n \in MIN..MAX : Times(cards, n) = MaxSame(cards) => MaxNo(cards) <= n
  BY MaxSameIs
<1>9. MaxSame(cards) = k /\ MaxNo(cards) \in S
  BY <1>3, <1>8
<1>10. \A n \in S : MaxNo(cards) <= n
  BY <1>3, <1>5, <1>8, <1>9
<1>11. MostEqual(cards) \in 1..8
  <2>1. PICK n \in MIN..MAX : Times(cards, n) = MostEqual(cards)
    BY MostEqualIs
  <2>2. MostEqual(cards) \in {0, k}
    BY <1>3, <2>1
  <2>3. Times(cards, MaxNo(cards)) <= MostEqual(cards)
    BY <1>8, MostEqualIs
  <2>4. MostEqual(cards) # 0
    BY <1>8, <1>9, <2>2, <2>3
  <2> QED
    BY <2>2, <2>4
<1>12. IsFiniteSet(S) /\ c \in Nat /\ c * k <= Len(cards) /\ Len(cards) <= c * k
  <2>1. k \in Nat \ {0} /\ k \in Nat
    OBVIOUS
  <2>2. \A n \in S : Times(cards, n) >= k /\ Times(cards, n) <= k
    BY <1>3
  <2>3. \A i \in DOMAIN cards : cards[i].number \in S
    BY DEF Numbers
  <2> HIDE DEF S
  <2>4. IsFiniteSet(S) /\ Cardinality(S) \in Nat /\ Cardinality(S) * k <= Len(cards)
    BY <1>5, <2>1, <2>2, CountingMany
  <2>5. Len(cards) <= Cardinality(S) * k
    BY <1>5, <2>1, <2>2, <2>3, CountingAll
  <2> QED
    BY <2>4, <2>5 DEF S
<1>13. Len(cards) = c * k
  <2> DEFINE m == c * k
  <2>1. m \in Nat
    BY <1>12
  <2> HIDE DEF m
  <2>2. m <= Len(cards) /\ Len(cards) <= m
    BY <1>12 DEF m
  <2>3. Len(cards) = m
    BY <1>1, <2>1, <2>2
  <2> QED
    BY <2>3 DEF m
<1>14. c \in 1..13
  <2>1. Cardinality(MIN..TWO) = 13 /\ IsFiniteSet(MIN..TWO)
    <3>1. 3 \in Int /\ 15 \in Int
      OBVIOUS
    <3>2. /\ IsFiniteSet(3..15)
          /\ Cardinality(3..15) = IF 3 > 15 THEN 0 ELSE 15 - 3 + 1
      BY ONLY <3>1, FS_Interval
    <3> QED
      BY <3>2 DEF MIN, TWO
  <2>2. S \in SUBSET (MIN..TWO)
    BY <1>2
  <2> HIDE DEF S
  <2>3. Cardinality(S) <= Cardinality(MIN..TWO)
    BY <2>1, <2>2, FS_Subset
  <2>4. c # 0
    BY <1>9, <1>12, FS_EmptySet DEF S
  <2> QED
    BY <1>12, <2>1, <2>3, <2>4, SMTT(30) DEF S
<1>15. /\ Found(cards, k) = S
       /\ k # 2 => Found(cards, 2) = {}
       /\ k # 3 => Found(cards, 3) = {}
  BY <1>3, <1>5 DEF Found
<1>16. Cardinality({}) = 0
  BY FS_EmptySet
<1>17. Kinds(cards)[3] = IF k = 3 THEN c ELSE 0
  BY <1>15, <1>16, KindsAre
<1>18. PerGroup(cards) = k
  <2>1. k = 3 => Kinds(cards)[2] = 0
    <3>1. ASSUME k = 3 PROVE Cardinality(Found(cards, 2)) = 0
      <4>1. k # 2
        BY <3>1
      <4>2. Found(cards, 2) = {}
        BY <1>15, <4>1
      <4> QED
        BY <1>16, <4>2
    <3> QED
      BY <1>7, <3>1, KindsAre
  <2>2. ~Plane(cards)
    BY <1>9, <2>1 DEF Plane
  <2> QED
    BY <1>9, <2>2 DEF PerGroup
<1>19. PICK h \in S : LeadsRun(h, S) /\ S = Following(h, c)
  BY DEF IsRun, LeadsRun
<1>20. h \in 3..15 /\ c \in 0..13
  BY <1>2, <1>14 DEF MIN, TWO
<1>21. \A n : n \in Following(h, c) <=> InRun(n, h, c)
  BY <1>20, FollowingIs
<1> HIDE DEF S
<1>22. \A n : n \in S <=> InRun(n, h, c)
  BY <1>19, <1>21
<1>23. \E l \in 3..15 : l \in S /\ LeadsRun(l, S) /\ (\A n : n \in S <=> InRun(n, l, c))
  BY <1>19, <1>20, <1>22
<1> QED
  BY <1>4, <1>6, <1>9, <1>10, <1>11, <1>13, <1>14, <1>17, <1>18, <1>23 DEF S

(* Of seven groups or fewer, all are counted, and each once.                  *)
LEMMA ShortRunContinues ==
  ASSUME NEW cards \in Seq(Poke), Len(cards) > 0, NEW k \in 1..3,
         EachTimes(cards, k), IsRun(Numbers(cards)),
         Cardinality(Numbers(cards)) \in 2..7
  PROVE  Continues(cards)
<1> DEFINE S == Numbers(cards)
           c == Cardinality(S)
           first == MaxNo(cards)
           up == Up(cards, c)
           down == Down(cards, c)
<1>1. PICK h \in 3..15 : h \in S /\ \A n : n \in S <=> InRun(n, h, c)
  BY EvenRun
<1>2. /\ Len(cards) = c * k /\ MaxSame(cards) = k /\ PerGroup(cards) = k
      /\ \A n : Times(cards, n) = k <=> n \in S
      /\ first \in S /\ \A n \in S : first <= n
  BY EvenRun
<1>3. c \in 2..7
  OBVIOUS
<1>4. up = {i \in 0..(c - 1) : (i + first) % 16 \in S}
  BY <1>2 DEF Up, MAX
<1>5. down = {i \in 1..(c - 1) : (first + 13 - i) % 16 \in S}
  BY <1>2 DEF Down, MAX
<1> HIDE DEF S, c, first, up, down
<1>6. ASSUME h + c <= 16 PROVE Cardinality(up) + Cardinality(down) = c
  <2>1. \A n : n \in S <=> n \in h..15 /\ n < h + c
    BY <1>1, <1>3, <1>6 DEF InRun
  <2>2. first = h
    <3>1. h \in S
      BY <1>3, <2>1
    <3>2. first \in h..15 /\ first <= h
      BY <1>2, <2>1, <3>1
    <3> QED
      BY <3>2
  <2>3. \A i \in 0..(c - 1) : (i + h) % 16 = i + h /\ i + h \in S
    BY <1>3, <1>6, <2>1
  <2>4. up = 0..(c - 1)
    BY <1>4, <2>2, <2>3
  <2>5. \A i \in 1..(c - 1) : (h + 13 - i) % 16 \notin S
    <3> TAKE i \in 1..(c - 1)
    <3> DEFINE n == (h + 13 - i) % 16
    <3>1. n = h + 13 - i \/ n = h - 3 - i
      BY <1>3
    <3>2. h + 13 - i >= h + c
      BY <1>3
    <3> HIDE DEF n
    <3>3. n \notin S
      BY <1>3, <2>1, <3>1, <3>2
    <3> QED
      BY <3>3 DEF n
  <2>6. down = {}
    BY <1>5, <2>2, <2>5
  <2>7. Cardinality(up) = c /\ Cardinality(down) = 0
    <3>1. 0 \in Int /\ c - 1 \in Int /\ 0 <= (c - 1) + 1
      BY <1>3
    <3>2. Cardinality(0..(c - 1)) = (c - 1) - 0 + 1
      BY ONLY <3>1, IntervalSize
    <3> QED
      BY <1>3, <2>4, <2>6, <3>2, FS_EmptySet
  <2> QED
    BY <1>3, <2>7
<1>7. ASSUME h + c > 16 PROVE Cardinality(up) + Cardinality(down) = c
  <2>1. \A n : n \in S <=> n \in h..15 \/ n \in 3..(h + c - 14)
    <3>1. \A n \in h..15 : n < h + c
      BY <1>3, <1>7
    <3>2. \A n : n \in 3..15 /\ n + 13 < h + c <=> n \in 3..(h + c - 14)
      BY <1>3, <1>7, SMTT(30)
    <3> QED
      BY <1>1, <3>1, <3>2 DEF InRun
  <2>2. h >= 10 /\ h + c - 14 <= 8
    BY <1>3, <1>7
  <2>3. first = 3
    <3>1. 3 \in S /\ \A n \in S : n >= 3
      BY <1>3, <1>7, <2>1
    <3>2. first >= 3 /\ first <= 3
      BY <1>2, <3>1
    <3>3. first \in Int
      BY <1>2, <2>1
    <3> QED
      BY <3>2, <3>3
  <2>4. \A i \in 0..(c - 1) : (i + 3) % 16 \in S <=> i \in 0..(h + c - 17)
    <3> TAKE i \in 0..(c - 1)
    <3>1. (i + 3) % 16 = i + 3 /\ i + 3 \in 3..9
      BY <1>3
    <3>2. i + 3 \in S <=> i + 3 \in 3..(h + c - 14)
      BY <2>1, <2>2, <3>1
    <3> QED
      BY <1>3, <3>1, <3>2
  <2>5. up = 0..(h + c - 17)
    <3>1. 0..(h + c - 17) \subseteq 0..(c - 1)
      BY <1>3
    <3> QED
      BY <1>4, <2>3, <2>4, <3>1
  <2>6. \A i \in 1..(c - 1) : (3 + 13 - i) % 16 \in S <=> i \in 1..(16 - h)
    <3> TAKE i \in 1..(c - 1)
    <3>1. (3 + 13 - i) % 16 = 16 - i
      BY <1>3
    <3> DEFINE n == 16 - i
    <3>2. n \in 10..15
      BY <1>3
    <3> HIDE DEF n
    <3>3. n \in S <=> n \in h..15
      <4>1. n \notin 3..(h + c - 14)
        BY <1>3, <2>2, <3>2
      <4> QED
        BY <2>1, <4>1
    <3>4. n \in h..15 <=> i \in 1..(16 - h)
      BY <1>3 DEF n
    <3> QED
      BY <3>1, <3>3, <3>4 DEF n
  <2>7. down = 1..(16 - h)
    <3>1. 1..(16 - h) \subseteq 1..(c - 1)
      BY <1>3, <1>7
    <3> QED
      BY <1>5, <2>3, <2>6, <3>1
  <2>8. Cardinality(up) = h + c - 16
    <3>1. 0 \in Int /\ h + c - 17 \in Int /\ 0 <= (h + c - 17) + 1
      BY <1>3, <1>7
    <3>2. Cardinality(0..(h + c - 17)) = (h + c - 17) - 0 + 1
      BY ONLY <3>1, IntervalSize
    <3> QED
      BY <1>3, <2>5, <3>2
  <2>9. Cardinality(down) = 16 - h
    <3>1. 16 - h \in Nat
      OBVIOUS
    <3> QED
      BY <2>7, <3>1, SpanSize
  <2> QED
    BY <1>3, <2>8, <2>9
<1>8. Cardinality(up) + Cardinality(down) = c
  BY <1>3, <1>6, <1>7
<1>9. CardsInRun(Counted(cards), first, k, c, k) = k * c
  <2>1. c \in Nat
    BY <1>3
  <2>2. CardsInRun(Counted(cards), first, k, c, k) = k * (Cardinality(up) + Cardinality(down))
    BY <1>2, <2>1, LoopsFind DEF first, up, down
  <2> QED
    BY <1>8, <2>2
<1>10. Len(cards) \div k = c /\ k * c = Len(cards)
  BY <1>2, <1>3
<1>11. ~HasKingAceTwoThree(Counted(cards), k)
  <2>1. \A n \in {MIN, K, A, TWO} : Counted(cards)[n] = Times(cards, n)
    BY CountedIsTimes DEF MIN, K, A, TWO, MAX
  <2> QED
    BY <1>2, <2>1 DEF HasKingAceTwoThree, IsRun, S
<1> QED
  BY <1>2, <1>9, <1>10, <1>11 DEF Continues, first

(* A run of no more than seven groups is taken for one.                       *)
LEMMA ShortRuns ==
  ASSUME HandInv
  PROVE  ShortRunsAreRecognised
<1> SUFFICES ASSUME NEW k \in 1..3, mine # <<>>, EachTimes(mine, k), IsRun(Numbers(mine)),
                    Cardinality(Numbers(mine)) \in (CASE k = 1 -> 5..7 [] k = 2 -> 3..7 [] k = 3 -> 2..7)
             PROVE  MyType.type \in RunTypes /\ MyType.continuousNum * k = Len(mine)
  BY DEF ShortRunsAreRecognised
<1> DEFINE c == Cardinality(Numbers(mine))
           one == game.isOnePeckOfCards
<1>1. mine \in Seq(Poke) /\ InOrder(mine) /\ one \in BOOLEAN
  BY GamesAssumption DEF HandInv
<1>2. Len(mine) > 0
  BY <1>1, LenProperties, EmptySeq
<1>3. c \in 2..7 /\ (k = 1 => c \in 5..7) /\ (k = 2 => c \in 3..7)
  OBVIOUS
<1>4. /\ Len(mine) = c * k /\ MaxSame(mine) = k /\ MostEqual(mine) \in 1..8
      /\ Kinds(mine)[3] = IF k = 3 THEN c ELSE 0
  BY <1>1, <1>2, EvenRun
<1>5. Continues(mine)
  BY <1>1, <1>2, <1>3, ShortRunContinues
<1>6. MyType = GetPokeCarsdType(mine, one)
  BY DEF MyType
<1> HIDE DEF c
<1>7. CASE k = 1
  <2>1. Len(mine) = c /\ Len(mine) # 1 /\ Len(mine) >= 5
    BY <1>3, <1>4, <1>7
  <2>2. MyType.type \in StraightTypes /\ MyType.continuousNum = Len(mine)
    BY <1>1, <1>4, <1>5, <1>6, <1>7, <2>1, OfOneEach
  <2> QED
    BY <1>3, <1>7, <2>1, <2>2 DEF RunTypes
<1>8. CASE k = 2
  <2>1. Len(mine) # 2 /\ Len(mine) % 2 = 0 /\ Len(mine) >= 6 /\ (Len(mine) \div 2) * 2 = Len(mine)
    BY <1>3, <1>4, <1>8
  <2>2. MyType.type = "STRAIGHT_PAIR" /\ MyType.continuousNum = Len(mine) \div 2
    BY <1>1, <1>4, <1>5, <1>6, <1>8, <2>1, OfTwoEach
  <2> QED
    BY <1>8, <2>1, <2>2 DEF RunTypes
<1>9. CASE k = 3
  <2>1. Len(mine) # 3 /\ Len(mine) # 5 /\ Len(mine) >= 6 /\ (Len(mine) \div 3) * 3 = Len(mine)
        /\ Kinds(mine)[3] * 3 = Len(mine)
    BY <1>3, <1>4, <1>9
  <2>2. ~FullHouse(mine) /\ AllTrips(mine)
    BY <1>5, <2>1 DEF FullHouse, AllTrips
  <2>3. MyType.type = "STRIGHT_TRIP" /\ MyType.continuousNum = Len(mine) \div 3
    BY <1>1, <1>4, <1>6, <1>9, <2>1, <2>2, OfThreeEach
  <2> QED
    BY <1>9, <2>1, <2>3 DEF RunTypes
<1> QED
  BY <1>7, <1>8, <1>9

-----------------------------------------------------------------------------
\* The card that leads a run.

(* Without jokers the twos come last, and the aces before them.               *)
LEMMA LastPlaces ==
  ASSUME NEW cards \in Seq(Poke), Times(cards, MAX) = 0
  PROVE  /\ Cardinality(Below(cards, TWO)) = Len(cards) - Times(cards, TWO)
         /\ Cardinality(Below(cards, A)) = Len(cards) - Times(cards, TWO) - Times(cards, A)
<1> DEFINE twos == PlacesOf(cards, TWO)
           aces == PlacesOf(cards, A)
           belowTwo == Below(cards, TWO)
           belowAce == Below(cards, A)
<1>1. Len(cards) \in Nat /\ DOMAIN cards = 1..Len(cards) /\ \A i \in DOMAIN cards : cards[i] \in Poke
  BY LenProperties, ElementOfSeq
<1>2. \A i \in DOMAIN cards : cards[i].number \in 3..15
  <2>1. \A i \in DOMAIN cards : cards[i].number \in MIN..MAX /\ cards[i].number # MAX
    BY <1>1, CardFields, Counting
  <2> QED
    BY <2>1 DEF MIN, MAX
<1>3. /\ twos \in SUBSET (1..Len(cards)) /\ IsFiniteSet(twos) /\ Times(cards, TWO) = Cardinality(twos)
      /\ aces \in SUBSET (1..Len(cards)) /\ IsFiniteSet(aces) /\ Times(cards, A) = Cardinality(aces)
  BY Counting
<1>4. belowTwo \cup twos = 1..Len(cards) /\ belowTwo \cap twos = {}
  BY <1>1, <1>2 DEF Below, PlacesOf, TWO
<1>5. belowAce \cup aces = belowTwo /\ belowAce \cap aces = {}
  BY <1>1, <1>2 DEF Below, PlacesOf, A, TWO
<1> HIDE DEF twos, aces, belowTwo, belowAce
<1>6. IsFiniteSet(1..Len(cards)) /\ Cardinality(1..Len(cards)) = Len(cards)
  BY <1>1, SpanSize
<1>7. IsFiniteSet(belowTwo) /\ IsFiniteSet(belowAce)
  <2>1. belowTwo \in SUBSET (1..Len(cards)) /\ belowAce \in SUBSET (1..Len(cards))
    BY <1>4, <1>5
  <2> QED
    BY <1>6, <2>1, FS_Subset
<1>8. /\ Cardinality(belowTwo) \in Nat /\ Cardinality(twos) \in Nat
      /\ Cardinality(belowTwo) + Cardinality(twos) = Len(cards)
  BY <1>3, <1>4, <1>6, <1>7, CountingApart
<1>9. /\ Cardinality(belowAce) \in Nat /\ Cardinality(aces) \in Nat
      /\ Cardinality(belowAce) + Cardinality(aces) = Cardinality(belowTwo)
  BY <1>3, <1>5, <1>7, CountingApart
<1>10. Cardinality(belowTwo) = Len(cards) - Times(cards, TWO)
  BY <1>1, <1>3, <1>8
<1>11. Cardinality(belowAce) = Len(cards) - Times(cards, TWO) - Times(cards, A)
  BY <1>1, <1>3, <1>8, <1>9
<1> QED
  BY <1>10, <1>11 DEF belowTwo, belowAce

(* The lead of a run without a joker is the card its numbers start with.      *)
LEMMA LeadIsHead ==
  ASSUME NEW cards \in Seq(Poke), InOrder(cards), Len(cards) > 0, NEW k \in 1..3,
         EachTimes(cards, k), IsRun(Numbers(cards)), Continues(cards)
  PROVE  LeadsRun(LeadOfRun(Profile(cards), k, 0).number, Numbers(cards))
<1> DEFINE S == Numbers(cards)
           c == Cardinality(S)
           p == Profile(cards)
           lead == LeadOfRun(p, k, 0)
<1>1. PICK h \in 3..15 : /\ h \in S /\ LeadsRun(h, S)
                         /\ \A n : n \in S <=> InRun(n, h, c)
  BY EvenRun
<1>2. /\ c \in 1..13 /\ MaxSame(cards) = k /\ Times(cards, MAX) = 0
      /\ \A n : Times(cards, n) = k <=> n \in S
      /\ MaxNo(cards) \in S /\ \A n \in S : MaxNo(cards) <= n
  BY EvenRun
<1>3. ~({13, 14, 15, 3} \subseteq S)
  BY DEF IsRun, K, A, TWO, MIN
<1>4. \A n \in {3, 14, 15} : Counted(cards)[n] = Times(cards, n)
  BY CountedIsTimes DEF MAX
<1>5. /\ p.cards = cards /\ p.size = Len(cards)
      /\ p.crossA23 <=> 3 \in S /\ 14 \in S /\ 15 \in S
      /\ p.cross23 <=> 3 \in S /\ 15 \in S /\ 14 \notin S
  <2>1. /\ AreMax(cards, {MIN, A, TWO}) <=> 3 \in S /\ 14 \in S /\ 15 \in S
        /\ AreMax(cards, {MIN, TWO}) <=> 3 \in S /\ 15 \in S
        /\ AreMax(cards, {A}) <=> 14 \in S
    BY <1>2, <1>4 DEF AreMax, MIN, A, TWO
  <2> QED
    BY <2>1, ProfileFields
<1>6. Len(cards) \in Nat
  BY LenProperties
<1> HIDE DEF S, c, p, lead
<1>7. lead.number = h
  <2>1. CASE h + c <= 16
    <3>1. \A n : n \in S <=> n \in h..15 /\ n < h + c
      BY <1>2, <2>1, <1>1 DEF InRun
    <3>2. ~(3 \in S /\ 15 \in S)
      <4> SUFFICES ASSUME 3 \in S, 15 \in S PROVE FALSE
        OBVIOUS
      <4>1. h = 3 /\ c = 13
        BY <1>2, <3>1
      <4>2. {13, 14, 15, 3} \subseteq S
        BY <3>1, <4>1
      <4> QED
        BY <1>3, <4>2
    <3>3. lead = MainPoke(p)
      BY <1>5, <3>2 DEF LeadOfRun, lead
    <3>4. MaxNo(cards) = h
      BY <1>1, <1>2, <3>1
    <3> QED
      BY <3>3, <3>4, MainPokeIs DEF p
  <2>2. CASE h + c > 16
    <3>1. \A n \in h..15 : n \in S
      BY <1>1, <1>2, <2>2 DEF InRun
    <3>2. 3 \in S /\ 15 \in S
      BY <1>1, <1>2, <2>2 DEF InRun
    <3>3. h \in {14, 15}
      <4> SUFFICES ASSUME h <= 13 PROVE FALSE
        OBVIOUS
      <4>1. {13, 14, 15, 3} \subseteq S
        BY <3>1, <3>2
      <4> QED
        BY <1>3, <4>1
    <3>4. /\ Cardinality(Below(cards, 15)) = Len(cards) - Times(cards, 15)
          /\ Cardinality(Below(cards, 14)) = Len(cards) - Times(cards, 15) - Times(cards, 14)
      BY <1>2, LastPlaces DEF A, TWO
    <3>5. Times(cards, 15) = k /\ (14 \in S => Times(cards, 14) = k)
      BY <1>2, <3>2
    <3>6. \A n \in 14..15 : Times(cards, n) # 0 => cards[Cardinality(Below(cards, n)) + 1].number = n
      BY FirstOf DEF MIN, MAX
    <3>7. CASE h = 14
      <4>1. 14 \in S
        BY <3>1, <3>7
      <4>2. lead = cards[Len(cards) - 2 * k - 0 + 1]
        BY <1>5, <3>2, <4>1 DEF LeadOfRun, lead
      <4>3. Len(cards) - 2 * k - 0 + 1 = Cardinality(Below(cards, 14)) + 1
        BY <1>6, <3>4, <3>5, <4>1
      <4>4. Times(cards, 14) # 0
        BY <3>5, <4>1
      <4> QED
        BY <3>6, <3>7, <4>2, <4>3, <4>4
    <3>8. CASE h = 15
      <4>1. 14 \notin S
        <5> SUFFICES ASSUME 14 \in S PROVE FALSE
          OBVIOUS
        <5>1. c = 13
          BY <1>1, <1>2, <3>8 DEF InRun
        <5>2. 13 \in S
          BY <1>1, <3>8, <5>1 DEF InRun
        <5>3. {13, 14, 15, 3} \subseteq S
          BY <3>2, <5>2
        <5> QED
          BY <1>3, <5>3
      <4>2. lead = cards[Len(cards) - k - 0 + 1]
        BY <1>5, <3>2, <4>1 DEF LeadOfRun, lead
      <4>3. Len(cards) - k - 0 + 1 = Cardinality(Below(cards, 15)) + 1
        BY <1>6, <3>4, <3>5
      <4>4. Times(cards, 15) # 0
        BY <3>5
      <4> QED
        BY <3>6, <3>8, <4>2, <4>3, <4>4
    <3> QED
      BY <3>3, <3>7, <3>8
  <2> QED
    BY <1>2, <2>1, <2>2
<1> QED
  BY <1>1, <1>7 DEF S, p, lead

(* The main card of a run is the card the run starts with.                    *)
LEMMA MainPokeLeads ==
  ASSUME HandInv
  PROVE  MainPokeLeadsTheRun
<1> SUFFICES ASSUME MyType.type \in RunTypes, MyType.type # "STRIGHT_TRIP_PAIR", LoopsApart,
                    IsRun(Numbers(mine))
             PROVE  LeadsRun(MyType.mainPoke.number, Numbers(mine))
  BY DEF MainPokeLeadsTheRun, RunNumbers
<1>1. mine \in Seq(Poke) /\ InOrder(mine) /\ Len(mine) > 0 /\ Continues(mine)
  BY TakenForARun DEF HandInv
<1>2. \E k \in 1..3 : EachTimes(mine, k) /\ MyType.mainPoke = LeadOfRun(Profile(mine), k, 0)
  <2>1. CASE MaxSame(mine) = 1 /\ MyType.mainPoke = LeadOfRun(Profile(mine), 1, 0)
    <3>1. \A n \in Numbers(mine) : Times(mine, n) \in Nat /\ Times(mine, n) # 0 /\ Times(mine, n) <= 1
      BY <1>1, <2>1, NumbersAre, MaxSameIs DEF IsRun
    <3> QED
      BY <2>1, <3>1 DEF EachTimes
  <2>2. CASE /\ MyType.type = "STRAIGHT_PAIR" /\ MaxSame(mine) = 2
             /\ MyType.mainPoke = LeadOfRun(Profile(mine), 2, 0)
    <3>1. Len(mine) \in 1..15
      <4>1. Len(mine) \in Nat /\ Len(mine) < 16
        BY <1>1, <2>2, LenProperties DEF LoopsApart, MAX
      <4>2. \A n \in Nat : n > 0 /\ n < 16 => n \in 1..15
        OBVIOUS
      <4> QED
        BY <1>1, <4>1, <4>2
    <3> QED
      BY <1>1, <2>2, <3>1, ShortPairsAreEven DEF EachTimes
  <2>3. CASE /\ MaxSame(mine) = 3 /\ AllTrips(mine)
             /\ MyType.mainPoke = LeadOfRun(Profile(mine), 3, Times(mine, MAX))
    <3>1. EachTimes(mine, 3)
      BY <1>1, <2>3, AllTripsAreEven DEF EachTimes
    <3>2. 3 \in 1..3
      OBVIOUS
    <3>3. Times(mine, MAX) = 0
      BY <1>1, <3>1, <3>2, EvenRun
    <3> QED
      BY <2>3, <3>1, <3>2, <3>3
  <2> QED
    BY <2>1, <2>2, <2>3, TakenForARun
<1> QED
  BY <1>1, <1>2, LeadIsHead

-----------------------------------------------------------------------------
\* What holds of every hand.

(* A hand of any length is classified: the answer of GetPokeCarsdType is a    *)
(* combination, or the exception of no cards or of nine equal ones.           *)
THEOREM HandsTyped == HandsSpec => []HandsTypeOK
<1>1. HandInv => HandsTypeOK
  BY ClassifierTypeOK DEF HandInv, HandsTypeOK, MyType
<1> QED  BY <1>1, HandInvHolds, PTL

(* Whatever cards are added, a hand of fewer than twenty, four jokers alone    *)
(* apart, is named a group or a bomb exactly when its cards are one: equal     *)
(* cards, a trip with a pair, two jokers of one deck.                         *)
THEOREM GroupsNamed == HandsSpec => []GroupsMatchRules
<1>1. HandInv => GroupsMatchRules
  BY GroupsMatch
<1> QED  BY <1>1, HandInvHolds, PTL

(* Whatever cards are added, a hand named a run holds each number as often as *)
(* the others, and follows the rules where the loops do not overlap.          *)
THEOREM RunsNamed == HandsSpec => []RunsFollowTheRules
<1>1. HandInv => RunsFollowTheRules
  BY RunsFollow
<1> QED  BY <1>1, HandInvHolds, PTL

(* Whatever cards are added, a run of no more than seven groups is named one. *)
THEOREM ShortRunsNamed == HandsSpec => []ShortRunsAreRecognised
<1>1. HandInv => ShortRunsAreRecognised
  BY ShortRuns
<1> QED  BY <1>1, HandInvHolds, PTL

(* Whatever cards are added, the main card of a run is the one that leads it, *)
(* which is what CompareTo compares two runs by.                              *)
THEOREM RunsLedByHead == HandsSpec => []MainPokeLeadsTheRun
<1>1. HandInv => MainPokeLeadsTheRun
  BY MainPokeLeads
<1> QED  BY <1>1, HandInvHolds, PTL

=============================================================================
