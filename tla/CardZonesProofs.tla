---------------------------- MODULE CardZonesProofs ----------------------------
(***************************************************************************)
(* Whatever the hands and the pool, the zones of a table agree with what is  *)
(* on the screen, clicks reach the zone of the hand, and nobody plays more   *)
(* of a card than he holds.                                                 *)
(***************************************************************************)
EXTENDS CardZones, SequenceLemmas, FiniteSetTheorems

Items == [clickedUp : BOOLEAN, zoneView : Zones \cup {NoZone}, index : Nat, poke : Nat,
          interactable : BOOLEAN, parent : Zones \cup {NoZone}]

Typed ==
  /\ item \in Seq(Items)
  /\ pool \in Seq(DOMAIN item)
  /\ lstPokes \in [Zones -> Seq(Nat)]
  /\ lstPokeGoes \in [Zones -> Seq(DOMAIN item)]
  /\ lstSelected \in [Zones -> Seq(Nat)]
  /\ deals \in Nat

\* A zone has an object for every card, shown or not.
ObjectForEveryCard == \A z \in Zones : Len(lstPokeGoes[z]) = Len(lstPokes[z])

\* An object belongs to the hand's zone before it may be clicked there, and to
\* no other once it was.
ItemsClickedInTheHand ==
  \A o \in DOMAIN item :
    /\ item[o].zoneView \in {NoZone, "cards"}
    /\ item[o].parent # NoZone /\ item[o].interactable => item[o].parent = "cards"

\* A place is selected once, and in the zone of the hand.
SelectedOnce == IsInjective(lstSelected["cards"]) /\ lstSelected["outcards"] = <<>>

\* Before the first hand there is nothing.
NothingYet ==
  deals = 0 =>
    /\ item = <<>> /\ pool = <<>>
    /\ \A z \in Zones : lstPokes[z] = <<>> /\ lstPokeGoes[z] = <<>> /\ lstSelected[z] = <<>>

\* With one hand, no object shows two of its cards, and the cards played take
\* no object from it.
FirstHandKeepsItsObjects ==
  deals <= 1 =>
    /\ \A o, other \in OnScreen("cards") : item[o].index = item[other].index => o = other
    /\ \A o \in ToSet(pool) \cup ToSet(lstPokeGoes["outcards"]) : item[o].parent # "cards"

Inv ==
  /\ Typed /\ ObjectForEveryCard /\ ItemsClickedInTheHand /\ SelectedOnce
  /\ NothingYet /\ FirstHandKeepsItsObjects
  /\ ScreenShowsTheHand /\ SelectionIsWhatSticksOut

-----------------------------------------------------------------------------
(* Sorting rearranges.                                                        *)
LEMMA SortedEffect ==
  ASSUME NEW cards \in Seq(Nat)
  PROVE  /\ Sorted(cards) \in Seq(Nat) /\ Len(Sorted(cards)) = Len(cards)
         /\ \E p \in [DOMAIN cards -> DOMAIN cards] :
              IsInjective(p) /\ \A i \in DOMAIN cards : Sorted(cards)[i] = cards[p[i]]
<1> DEFINE Orders(places) ==
             /\ IsInjective(places)
             /\ \A i, j \in DOMAIN cards : i < j => cards[places[i]] <= cards[places[j]]
           p == CHOOSE places \in [DOMAIN cards -> DOMAIN cards] : Orders(places)
<1>0. Len(cards) \in Nat /\ DOMAIN cards = 1..Len(cards) /\ cards \in [DOMAIN cards -> Nat]
  BY LenProperties
<1>1. \E places \in [DOMAIN cards -> DOMAIN cards] : Orders(places)
  BY OrderExists
<1>2. p \in [DOMAIN cards -> DOMAIN cards] /\ Orders(p)
  BY <1>1
<1>3. Sorted(cards) = [i \in DOMAIN cards |-> cards[p[i]]]
  BY DEF Sorted
<1> HIDE DEF p
<1>4. \A i \in 1..Len(cards) : cards[p[i]] \in Nat
  BY <1>0, <1>2
<1>5. [i \in 1..Len(cards) |-> cards[p[i]]] \in Seq(Nat)
  BY <1>0, <1>4, IsASeq
<1>6. Sorted(cards) \in Seq(Nat) /\ DOMAIN Sorted(cards) = 1..Len(cards)
  BY <1>0, <1>3, <1>5
<1>7. Len(Sorted(cards)) = Len(cards)
  BY <1>0, <1>6, LenProperties
<1> QED
  BY <1>2, <1>3, <1>6, <1>7

(* A finite set can be listed.                                                *)
LEMMA SetToSeqEffect ==
  ASSUME NEW S, IsFiniteSet(S)
  PROVE  /\ Cardinality(S) \in Nat
         /\ SetToSeq(S) \in [1..Cardinality(S) -> S]
         /\ IsInjective(SetToSeq(S))
<1>1. Cardinality(S) \in Nat /\ ExistsBijection(1..Cardinality(S), S)
  BY FS_CardinalityType
<1>2. \E f \in [1..Cardinality(S) -> S] : IsInjective(f)
  BY <1>1 DEF ExistsBijection, Bijection, Injection, IsInjective
<1>3. SetToSeq(S) \in [1..Cardinality(S) -> S] /\ IsInjective(SetToSeq(S))
  BY <1>2 DEF SetToSeq
<1> QED
  BY <1>1, <1>3

(* The cards selected are cards of the hand, each from a place of its own.    *)
LEMMA SelectedAreHeld ==
  ASSUME Typed, SelectedOnce
  PROVE  /\ GetSelectedPokes("cards") \in Seq(Nat)
         /\ \E c \in [DOMAIN GetSelectedPokes("cards") -> DOMAIN lstPokes["cards"]] :
              /\ IsInjective(c)
              /\ \A i \in DOMAIN GetSelectedPokes("cards") :
                   GetSelectedPokes("cards")[i] = lstPokes["cards"][c[i]]
<1> DEFINE selected == lstSelected["cards"]
           hand == lstPokes["cards"]
           inHand == {k \in DOMAIN selected : selected[k] < Len(hand)}
           chosen == SetToSeq(inHand)
           n == Cardinality(inHand)
           got == GetSelectedPokes("cards")
<1>1. /\ selected \in Seq(Nat) /\ hand \in Seq(Nat) /\ IsInjective(selected)
      /\ Len(selected) \in Nat /\ Len(hand) \in Nat
      /\ DOMAIN selected = 1..Len(selected) /\ DOMAIN hand = 1..Len(hand)
      /\ selected \in [1..Len(selected) -> Nat] /\ hand \in [1..Len(hand) -> Nat]
  <2>1. selected \in Seq(Nat) /\ hand \in Seq(Nat) /\ IsInjective(selected)
    BY DEF Typed, Zones, SelectedOnce
  <2> QED
    BY <2>1, LenProperties
<1>2. got = [i \in DOMAIN chosen |-> hand[selected[chosen[i]] + 1]]
  BY DEF GetSelectedPokes
<1> HIDE DEF selected, hand
<1>3. IsFiniteSet(inHand)
  <2>1. IsFiniteSet(1..Len(selected)) /\ inHand \in SUBSET (1..Len(selected))
    BY <1>1, FS_Interval
  <2> QED
    BY <2>1, FS_Subset
<1>4. n \in Nat /\ chosen \in [1..n -> inHand] /\ IsInjective(chosen)
  BY <1>3, SetToSeqEffect
<1>5. \A k \in inHand : k \in 1..Len(selected) /\ selected[k] \in Nat /\ selected[k] < Len(hand)
  BY <1>1
<1> HIDE DEF chosen, n, inHand, got
<1>6. \A i \in 1..n : /\ selected[chosen[i]] + 1 \in 1..Len(hand)
                      /\ hand[selected[chosen[i]] + 1] \in Nat
  BY <1>1, <1>4, <1>5
<1>7. got = [i \in 1..n |-> hand[selected[chosen[i]] + 1]]
  BY <1>2, <1>4
<1>8. [i \in 1..n |-> hand[selected[chosen[i]] + 1]] \in Seq(Nat)
  BY <1>4, <1>6, IsASeq
<1> DEFINE c == [i \in 1..n |-> selected[chosen[i]] + 1]
<1>9. c \in [1..n -> 1..Len(hand)]
  BY <1>6
<1>10. IsInjective(c)
  <2>1. ASSUME NEW i \in 1..n, NEW j \in 1..n, c[i] = c[j] PROVE i = j
    <3>1. selected[chosen[i]] = selected[chosen[j]]
      BY <1>1, <1>4, <1>5, <2>1
    <3>2. chosen[i] = chosen[j]
      BY <1>1, <1>4, <1>5, <3>1 DEF IsInjective
    <3> QED
      BY <1>4, <3>2 DEF IsInjective
  <2>2. DOMAIN c = 1..n
    OBVIOUS
  <2> HIDE DEF c
  <2> QED
    BY <2>1, <2>2 DEF IsInjective
<1>11. \A i \in 1..n : got[i] = hand[c[i]]
  BY <1>7
<1>12. DOMAIN got = 1..n /\ got \in Seq(Nat)
  BY <1>7, <1>8
<1>13. c \in [DOMAIN got -> DOMAIN hand]
  BY <1>1, <1>9, <1>12
<1> HIDE DEF c
<1> QED
  BY <1>10, <1>11, <1>12, <1>13 DEF got, hand

-----------------------------------------------------------------------------
\* The objects SetData takes from the pool, and an object before it is given
\* its card.
Taken(z, cards) == Spawn(pool \o lstPokeGoes[z], Len(Sorted(cards)))
Before(z, o) == IF o \in DOMAIN item THEN Despawn(lstPokeGoes[z])[o] ELSE NewItem
Given(z, o, place, card, interactive) ==
  [Before(z, o) EXCEPT !.index = place, !.poke = card, !.parent = z, !.interactable = interactive]

\* The object is given one of the cards, which it is taken for.
Shows(o, z, cards, interactive) ==
  \E i \in 1..Len(cards) :
    /\ Taken(z, cards)[i] = o
    /\ item'[o] = Given(z, o, i - 1, Sorted(cards)[i], interactive)

(* The last of the places an object takes is well defined.                    *)
LEMMA LastPlace ==
  ASSUME NEW n \in Nat, NEW places \in SUBSET (1..n), places # {}
  PROVE  (CHOOSE i \in places : \A j \in places : j <= i) \in places
<1> DEFINE behind == {n - i : i \in places}
<1>1. behind \subseteq Nat /\ behind # {}
  <2>1. \A i \in places : n - i \in Nat
    OBVIOUS
  <2> QED
    BY <2>1
<1>2. PICK d \in behind : \A e \in behind : d <= e
  BY <1>1, LeastNumber
<1>3. PICK i \in places : d = n - i
  BY <1>2
<1>4. \A j \in places : n - i <= n - j
  BY <1>2, <1>3
<1>5. \A j \in places : j <= i
  BY <1>4
<1> QED
  BY <1>3, <1>5

(* Objects come either all from the pool, one for all, or all new.            *)
LEMMA TakenEffect ==
  ASSUME Typed, NEW z \in Zones, NEW cards \in Seq(Nat)
  PROVE  LET goes == Taken(z, cards)
             n == Len(cards)
             pooled == pool \o lstPokeGoes[z]
         IN /\ pooled \in Seq(DOMAIN item)
            /\ ToSet(pooled) = ToSet(pool) \cup ToSet(lstPokeGoes[z])
            /\ Len(item) \in Nat /\ DOMAIN item = 1..Len(item)
            /\ \/ /\ pooled # <<>>
                  /\ Last(pooled) \in ToSet(pooled) /\ Last(pooled) \in DOMAIN item
                  /\ goes = [i \in 1..n |-> Last(pooled)]
               \/ /\ pooled = <<>> /\ pool = <<>> /\ lstPokeGoes[z] = <<>>
                  /\ goes = [i \in 1..n |-> Len(item) + i]
<1> DEFINE goes == Taken(z, cards)
           n == Len(cards)
           pooled == pool \o lstPokeGoes[z]
           old == lstPokeGoes[z]
<1>0. n \in Nat /\ Len(Sorted(cards)) = n
  BY SortedEffect, LenProperties
<1>1. /\ pool \in Seq(DOMAIN item) /\ old \in Seq(DOMAIN item)
      /\ Len(pool) \in Nat /\ Len(old) \in Nat
      /\ DOMAIN pool = 1..Len(pool) /\ DOMAIN old = 1..Len(old)
      /\ Len(item) \in Nat /\ DOMAIN item = 1..Len(item)
  <2>1. pool \in Seq(DOMAIN item) /\ old \in Seq(DOMAIN item) /\ item \in Seq(Items)
    BY DEF Typed
  <2> QED
    BY <2>1, LenProperties
<1> HIDE DEF old
<1>2. /\ pooled \in Seq(DOMAIN item) /\ Len(pooled) = Len(pool) + Len(old)
      /\ DOMAIN pooled = 1..(Len(pool) + Len(old))
      /\ \A i \in 1..(Len(pool) + Len(old)) :
           pooled[i] = IF i <= Len(pool) THEN pool[i] ELSE old[i - Len(pool)]
  <2>1. /\ pool \o old \in Seq(DOMAIN item) /\ Len(pool \o old) = Len(pool) + Len(old)
        /\ \A i \in 1..(Len(pool) + Len(old)) :
             (pool \o old)[i] = IF i <= Len(pool) THEN pool[i] ELSE old[i - Len(pool)]
    BY <1>1, ConcatProperties
  <2>2. DOMAIN (pool \o old) = 1..(Len(pool) + Len(old))
    BY <2>1, LenProperties
  <2> QED
    BY <2>1, <2>2 DEF old
<1>3. goes = [i \in 1..n |-> IF pooled # <<>> THEN Last(pooled) ELSE Len(item) + i]
  BY <1>0 DEF Taken, Spawn
<1> HIDE DEF pooled, goes, n
<1>4. ToSet(pooled) = ToSet(pool) \cup ToSet(old)
  <2>1. ToSet(pooled) \subseteq ToSet(pool) \cup ToSet(old)
    <3>1. ASSUME NEW i \in 1..(Len(pool) + Len(old))
          PROVE  pooled[i] \in ToSet(pool) \cup ToSet(old)
      <4>1. CASE i <= Len(pool)
        <5>1. i \in DOMAIN pool /\ pooled[i] = pool[i]
          BY <1>1, <1>2, <4>1
        <5> QED
          BY <5>1 DEF ToSet
      <4>2. CASE ~(i <= Len(pool))
        <5>1. i - Len(pool) \in DOMAIN old /\ pooled[i] = old[i - Len(pool)]
          BY <1>1, <1>2, <4>2
        <5> QED
          BY <5>1 DEF ToSet
      <4> QED
        BY <4>1, <4>2
    <3> QED
      BY <1>2, <3>1 DEF ToSet
  <2>2. ToSet(pool) \subseteq ToSet(pooled)
    <3>1. \A i \in 1..Len(pool) : i \in DOMAIN pooled /\ pooled[i] = pool[i]
      BY <1>1, <1>2
    <3> QED
      BY <1>1, <3>1 DEF ToSet
  <2>3. ToSet(old) \subseteq ToSet(pooled)
    <3>1. ASSUME NEW i \in 1..Len(old) PROVE old[i] \in ToSet(pooled)
      <4>1. /\ Len(pool) + i \in 1..(Len(pool) + Len(old)) /\ ~(Len(pool) + i <= Len(pool))
            /\ (Len(pool) + i) - Len(pool) = i
        BY <1>1
      <4>2. pooled[Len(pool) + i] = old[i]
        BY <1>2, <4>1
      <4> QED
        BY <1>2, <4>1, <4>2 DEF ToSet
    <3> QED
      BY <1>1, <3>1 DEF ToSet
  <2> QED
    BY <2>1, <2>2, <2>3
<1>5. CASE pooled # <<>>
  <2>1. Len(pooled) \in Nat /\ Len(pooled) # 0
    BY <1>2, <1>5, EmptySeq
  <2>2. Len(pooled) \in DOMAIN pooled
    BY <1>1, <1>2, <2>1
  <2>3. Last(pooled) \in ToSet(pooled)
    BY <2>2 DEF Last, ToSet
  <2>4. Last(pooled) \in DOMAIN item
    BY <1>2, <2>2, LenProperties DEF Last
  <2>5. goes = [i \in 1..n |-> Last(pooled)]
    BY <1>3, <1>5
  <2> QED
    BY <1>1, <1>2, <1>4, <1>5, <2>3, <2>4, <2>5 DEF goes, pooled, old, n
<1>6. CASE pooled = <<>>
  <2>1. Len(pooled) = 0
    BY <1>6, EmptySeq
  <2>2. Len(pool) = 0 /\ Len(old) = 0
    <3>1. Len(pool) + Len(old) = 0
      BY <1>2, <2>1
    <3> QED
      BY <1>1, <3>1
  <2>3. pool = <<>> /\ old = <<>>
    BY <1>1, <2>2, EmptySeq
  <2>4. goes = [i \in 1..n |-> Len(item) + i]
    BY <1>3, <1>6
  <2> QED
    BY <1>1, <1>2, <1>4, <1>6, <2>3, <2>4 DEF goes, pooled, old, n
<1> QED
  BY <1>5, <1>6

(* SetData: what is on the objects afterwards.                                *)
LEMMA SetDataEffect ==
  ASSUME Typed, NEW z \in Zones, NEW cards \in Seq(Nat), NEW interactive \in BOOLEAN,
         SetData(z, cards, interactive)
  PROVE  /\ Sorted(cards) \in Seq(Nat) /\ Len(Sorted(cards)) = Len(cards) /\ Len(cards) \in Nat
         /\ Taken(z, cards) \in Seq(DOMAIN item')
         /\ DOMAIN Taken(z, cards) = 1..Len(cards)
         /\ lstPokes' = [lstPokes EXCEPT ![z] = Sorted(cards)]
         /\ lstPokeGoes' = [lstPokeGoes EXCEPT ![z] = Taken(z, cards)]
         /\ pool' = pool \o lstPokeGoes[z]
         /\ item' \in Seq(Items)
         /\ DOMAIN item' = DOMAIN item \cup ToSet(Taken(z, cards))
         /\ \A o \in ToSet(Taken(z, cards)) : Shows(o, z, cards, interactive)
         /\ \A o \in DOMAIN item \ ToSet(Taken(z, cards)) : item'[o] = Before(z, o)
         /\ UNCHANGED <<lstSelected, released>>
<1> DEFINE data == Sorted(cards)
           n == Len(cards)
           goes == Taken(z, cards)
           pooled == pool \o lstPokeGoes[z]
           places(o) == {i \in DOMAIN goes : goes[i] = o}
           last(o) == CHOOSE i \in places(o) : \A j \in places(o) : j <= i
<1>1. data \in Seq(Nat) /\ Len(data) = n /\ n \in Nat /\ DOMAIN data = 1..n
  BY SortedEffect, LenProperties
<1>2. /\ pool' = pooled
      /\ item' = ItemsSet(Despawn(lstPokeGoes[z]), goes, z, data, interactive)
      /\ lstPokes' = [lstPokes EXCEPT ![z] = data]
      /\ lstPokeGoes' = [lstPokeGoes EXCEPT ![z] = goes]
      /\ UNCHANGED <<lstSelected, released>>
  BY <1>1 DEF SetData, Taken
<1> HIDE DEF data, n, pooled
<1>3. /\ Len(item) \in Nat /\ DOMAIN item = 1..Len(item)
      /\ \/ Last(pooled) \in DOMAIN item /\ goes = [i \in 1..n |-> Last(pooled)]
         \/ goes = [i \in 1..n |-> Len(item) + i]
  BY TakenEffect DEF pooled, n
<1>4. DOMAIN Despawn(lstPokeGoes[z]) = DOMAIN item
  BY DEF Despawn
<1>5. \A o \in DOMAIN item \cup ToSet(goes) :
        item'[o] = IF places(o) = {} THEN Before(z, o)
                   ELSE Given(z, o, last(o) - 1, data[last(o)], interactive)
  <2> DEFINE rested == Despawn(lstPokeGoes[z])
  <2>1. DOMAIN rested = DOMAIN item
    BY <1>4
  <2>2. item' = ItemsSet(rested, goes, z, data, interactive)
    BY <1>2
  <2>3. ASSUME NEW o \in DOMAIN item \cup ToSet(goes)
        PROVE  item'[o] = IF places(o) = {} THEN Before(z, o)
                          ELSE Given(z, o, last(o) - 1, data[last(o)], interactive)
    <3> DEFINE old == IF o \in DOMAIN rested THEN rested[o] ELSE NewItem
    <3>1. old = Before(z, o)
      BY <2>1 DEF Before
    <3> HIDE DEF rested, goes
    <3>2. item'[o] = IF places(o) = {} THEN old
                     ELSE [old EXCEPT !.index = last(o) - 1, !.poke = data[last(o)],
                                      !.parent = z, !.interactable = interactive]
      BY <2>1, <2>2 DEF ItemsSet
    <3> HIDE DEF old, places, last
    <3> QED
      BY <3>1, <3>2 DEF Given
  <2> QED
    BY <2>3
<1>6. DOMAIN item' = DOMAIN item \cup ToSet(goes)
  BY <1>2, <1>4 DEF ItemsSet
<1> HIDE DEF goes
<1>7. DOMAIN goes = 1..n
  BY <1>3
<1>8. \A o \in ToSet(goes) : last(o) \in 1..n /\ goes[last(o)] = o /\ places(o) # {}
  <2>1. TAKE o \in ToSet(goes)
  <2>2. places(o) # {} /\ places(o) \in SUBSET (1..n)
    BY <1>7 DEF ToSet
  <2>3. last(o) \in places(o)
    BY <1>1, <2>2, LastPlace
  <2> QED
    BY <2>2, <2>3
<1>9. \A o \in DOMAIN item \ ToSet(goes) : places(o) = {}
  BY DEF ToSet
<1>10. \A o \in ToSet(goes) : item'[o] = Given(z, o, last(o) - 1, data[last(o)], interactive)
  BY <1>5, <1>8
<1>11. \A o \in DOMAIN item \ ToSet(goes) : item'[o] = Before(z, o)
  BY <1>5, <1>9
<1>12. \E k \in Nat : DOMAIN item \cup ToSet(goes) = 1..k
  <2>1. CASE Last(pooled) \in DOMAIN item /\ goes = [i \in 1..n |-> Last(pooled)]
    <3>1. ToSet(goes) \subseteq DOMAIN item
      BY <2>1 DEF ToSet
    <3> QED
      BY <1>3, <3>1
  <2>2. CASE goes = [i \in 1..n |-> Len(item) + i]
    <3>1. ToSet(goes) = {Len(item) + i : i \in 1..n}
      BY <2>2 DEF ToSet
    <3>2. \A o \in 1..(Len(item) + n) : o \in DOMAIN item \/ (o - Len(item) \in 1..n /\ o = Len(item) + (o - Len(item)))
      BY <1>1, <1>3
    <3>3. \A i \in 1..n : Len(item) + i \in 1..(Len(item) + n)
      BY <1>1, <1>3
    <3>4. DOMAIN item \subseteq 1..(Len(item) + n) /\ Len(item) + n \in Nat
      BY <1>1, <1>3
    <3> QED
      BY <3>1, <3>2, <3>3, <3>4
  <2> QED
    BY <1>3, <2>1, <2>2
<1>13. \A o \in DOMAIN item \cup ToSet(goes) : Before(z, o) \in Items
  <2>1. \A o \in DOMAIN item : item[o] \in Items
    BY LenProperties DEF Typed
  <2>2. \A o \in DOMAIN item : Despawn(lstPokeGoes[z])[o] \in Items
    BY <2>1 DEF Despawn, Items
  <2>3. NewItem \in Items
    BY DEF NewItem, Items
  <2> QED
    BY <2>2, <2>3 DEF Before
<1>14. \A o \in DOMAIN item' : item'[o] \in Items
  <2>1. ASSUME NEW o \in ToSet(goes) PROVE item'[o] \in Items
    <3>1. last(o) - 1 \in Nat /\ data[last(o)] \in Nat
      <4>1. last(o) \in 1..n
        BY <1>8
      <4> HIDE DEF last
      <4> QED
        BY <1>1, <4>1, LenProperties
    <3>2. \A place, card \in Nat : Given(z, o, place, card, interactive) \in Items
      BY <1>13 DEF Given, Items
    <3> HIDE DEF last
    <3> QED
      BY <1>10, <3>1, <3>2
  <2> QED
    BY <1>6, <1>11, <1>13, <2>1
<1>15. item' \in Seq(Items)
  <2>1. PICK k \in Nat : DOMAIN item' = 1..k
    BY <1>6, <1>12
  <2> DEFINE rested == Despawn(lstPokeGoes[z])
             body(o) ==
               LET old == IF o \in DOMAIN rested THEN rested[o] ELSE NewItem
                   taken == {i \in DOMAIN goes : goes[i] = o}
                   i == CHOOSE i \in taken : \A j \in taken : j <= i
               IN IF taken = {} THEN old
                  ELSE [old EXCEPT !.index = i - 1, !.poke = data[i], !.parent = z,
                                   !.interactable = interactive]
             all == DOMAIN rested \cup ToSet(goes)
  <2>2. item' = [o \in all |-> body(o)]
    BY <1>2, Zenon DEF ItemsSet
  <2>3. all = 1..k
    BY <1>4, <1>6, <2>1
  <2> HIDE DEF body, all
  <2>4. item' = [o \in 1..k |-> body(o)]
    BY <2>2, <2>3
  <2>5. \A o \in 1..k : body(o) \in Items
    BY <1>14, <2>1, <2>4
  <2> QED
    BY <2>4, <2>5, IsASeq
<1>16. goes \in Seq(DOMAIN item') /\ Len(goes) = n
  <2>1. goes = [i \in 1..n |-> goes[i]]
    BY <1>3
  <2>2. \A i \in 1..n : goes[i] \in DOMAIN item'
    BY <1>6, <1>7 DEF ToSet
  <2>3. [i \in 1..n |-> goes[i]] \in Seq(DOMAIN item')
    BY <1>1, <2>2, IsASeq, SMTT(30)
  <2>4. goes \in Seq(DOMAIN item')
    BY <2>1, <2>3
  <2> QED
    BY <1>1, <1>7, <2>4, LenProperties
<1>17. \A o \in ToSet(goes) : Shows(o, z, cards, interactive)
  BY <1>8, <1>10 DEF Shows, goes, data, n
<1> QED
  BY <1>1, <1>2, <1>6, <1>7, <1>11, <1>15, <1>16, <1>17 DEF data, n, goes, pooled

\* An object that is taken shows a card of the data at its place; ..
LooksTaken(o, z, cards, interactive) ==
  /\ o \in DOMAIN item'
  /\ item'[o].parent = z
  /\ item'[o].interactable = interactive
  /\ item'[o].zoneView = IF o \in DOMAIN item THEN item[o].zoneView ELSE NoZone
  /\ item'[o].clickedUp = IF o \in DOMAIN item THEN item[o].clickedUp ELSE FALSE
  /\ \E i \in 1..Len(cards) :
       /\ Taken(z, cards)[i] = o
       /\ item'[o].index = i - 1
       /\ item'[o].poke = Sorted(cards)[i]

\* .. another one may have left the screen.
LooksLeft(o, z) ==
  /\ o \in DOMAIN item
  /\ item'[o].parent = IF o \in ToSet(lstPokeGoes[z]) THEN NoZone ELSE item[o].parent
  /\ item'[o].interactable = item[o].interactable
  /\ item'[o].zoneView = item[o].zoneView
  /\ item'[o].clickedUp = item[o].clickedUp
  /\ item'[o].index = item[o].index
  /\ item'[o].poke = item[o].poke

(* SetData, field by field.                                                   *)
LEMMA FieldsAfter ==
  ASSUME Typed, NEW z \in Zones, NEW cards \in Seq(Nat), NEW interactive \in BOOLEAN,
         SetData(z, cards, interactive)
  PROVE  /\ \A o \in ToSet(Taken(z, cards)) : LooksTaken(o, z, cards, interactive)
         /\ \A o \in DOMAIN item' \ ToSet(Taken(z, cards)) : LooksLeft(o, z)
<1> DEFINE goes == Taken(z, cards)
           data == Sorted(cards)
<1>1. /\ DOMAIN item' = DOMAIN item \cup ToSet(goes)
      /\ \A o \in ToSet(goes) : \E i \in 1..Len(cards) :
           goes[i] = o /\ item'[o] = Given(z, o, i - 1, data[i], interactive)
      /\ \A o \in DOMAIN item \ ToSet(goes) : item'[o] = Before(z, o)
  <2>1. DOMAIN item' = DOMAIN item \cup ToSet(goes)
    BY SetDataEffect
  <2>2. \A o \in ToSet(goes) : \E i \in 1..Len(cards) :
          goes[i] = o /\ item'[o] = Given(z, o, i - 1, data[i], interactive)
    <3>1. \A o \in ToSet(goes) : Shows(o, z, cards, interactive)
      BY SetDataEffect
    <3> QED
      BY <3>1 DEF Shows
  <2>3. \A o \in DOMAIN item \ ToSet(goes) : item'[o] = Before(z, o)
    BY SetDataEffect
  <2> QED
    BY <2>1, <2>2, <2>3
<1> HIDE DEF goes, data
<1>2. \A o \in DOMAIN item : item[o] \in Items
  BY LenProperties DEF Typed
<1>3. ASSUME NEW o \in DOMAIN item
      PROVE  /\ Before(z, o) \in Items
             /\ Before(z, o).parent = IF o \in ToSet(lstPokeGoes[z]) THEN NoZone ELSE item[o].parent
             /\ Before(z, o).interactable = item[o].interactable
             /\ Before(z, o).zoneView = item[o].zoneView
             /\ Before(z, o).clickedUp = item[o].clickedUp
             /\ Before(z, o).index = item[o].index
             /\ Before(z, o).poke = item[o].poke
  <2>1. Before(z, o) = IF o \in ToSet(lstPokeGoes[z]) THEN [item[o] EXCEPT !.parent = NoZone]
                       ELSE item[o]
    BY DEF Before, Despawn
  <2> QED
    BY <1>2, <2>1 DEF Items
<1>4. ASSUME NEW o, o \notin DOMAIN item
      PROVE  /\ Before(z, o) \in Items
             /\ Before(z, o).zoneView = NoZone /\ Before(z, o).clickedUp = FALSE
  BY <1>4 DEF Before, NewItem, Items
<1>5. ASSUME NEW o, Before(z, o) \in Items, NEW place, NEW card
      PROVE  LET given == Given(z, o, place, card, interactive)
             IN /\ given.parent = z /\ given.interactable = interactive
                /\ given.zoneView = Before(z, o).zoneView
                /\ given.clickedUp = Before(z, o).clickedUp
                /\ given.index = place /\ given.poke = card
  BY <1>5 DEF Given, Items
<1>6. ASSUME NEW o \in ToSet(goes) PROVE LooksTaken(o, z, cards, interactive)
  <2>1. PICK i \in 1..Len(cards) :
          goes[i] = o /\ item'[o] = Given(z, o, i - 1, data[i], interactive)
    BY <1>1
  <2>2. Before(z, o) \in Items
    BY <1>3, <1>4
  <2>3. /\ item'[o].parent = z /\ item'[o].interactable = interactive
        /\ item'[o].zoneView = Before(z, o).zoneView
        /\ item'[o].clickedUp = Before(z, o).clickedUp
        /\ item'[o].index = i - 1 /\ item'[o].poke = data[i]
    BY <1>5, <2>1, <2>2
  <2>4. /\ Before(z, o).zoneView = IF o \in DOMAIN item THEN item[o].zoneView ELSE NoZone
        /\ Before(z, o).clickedUp = IF o \in DOMAIN item THEN item[o].clickedUp ELSE FALSE
    BY <1>3, <1>4
  <2> QED
    BY <1>1, <2>1, <2>3, <2>4 DEF LooksTaken, goes, data
<1>7. ASSUME NEW o \in DOMAIN item' \ ToSet(goes) PROVE LooksLeft(o, z)
  <2>1. o \in DOMAIN item /\ item'[o] = Before(z, o)
    BY <1>1
  <2> QED
    BY <1>3, <2>1 DEF LooksLeft
<1> QED
  BY <1>6, <1>7 DEF goes

-----------------------------------------------------------------------------
(* What SetData keeps, whichever zone it is given to.                         *)
LEMMA SetDataKeepsTypes ==
  ASSUME Typed, ObjectForEveryCard, NEW z \in Zones, NEW cards \in Seq(Nat),
         NEW interactive \in BOOLEAN, SetData(z, cards, interactive), deals' \in Nat
  PROVE  Typed' /\ ObjectForEveryCard'
<1> DEFINE goes == Taken(z, cards)
           data == Sorted(cards)
<1>1. /\ data \in Seq(Nat) /\ Len(data) = Len(cards)
      /\ goes \in Seq(DOMAIN item') /\ Len(goes) = Len(cards)
      /\ lstPokes' = [lstPokes EXCEPT ![z] = data]
      /\ lstPokeGoes' = [lstPokeGoes EXCEPT ![z] = goes]
      /\ pool' = pool \o lstPokeGoes[z]
      /\ item' \in Seq(Items)
      /\ DOMAIN item \subseteq DOMAIN item'
      /\ lstSelected' = lstSelected
  <2>1. data \in Seq(Nat) /\ Len(data) = Len(cards)
    BY SetDataEffect
  <2>2. goes \in Seq(DOMAIN item')
    BY SetDataEffect
  <2>6. Len(goes) = Len(cards)
    <3>1. DOMAIN goes = 1..Len(cards) /\ Len(cards) \in Nat
      BY SetDataEffect
    <3> HIDE DEF goes
    <3> QED
      BY <2>2, <3>1, LenProperties
  <2>3. lstPokes' = [lstPokes EXCEPT ![z] = data] /\ lstPokeGoes' = [lstPokeGoes EXCEPT ![z] = goes]
    BY SetDataEffect
  <2>4. pool' = pool \o lstPokeGoes[z] /\ item' \in Seq(Items) /\ lstSelected' = lstSelected
    BY SetDataEffect
  <2>5. DOMAIN item' = DOMAIN item \cup ToSet(goes)
    BY SetDataEffect
  <2> QED
    BY <2>1, <2>2, <2>3, <2>4, <2>5, <2>6
<1> HIDE DEF goes, data
<1>2. pool' \in Seq(DOMAIN item')
  <2>1. \A s \in Seq(DOMAIN item) : s \in Seq(DOMAIN item')
    <3>1. TAKE s \in Seq(DOMAIN item)
    <3>2. Len(s) \in Nat /\ s = [i \in 1..Len(s) |-> s[i]] /\ \A i \in 1..Len(s) : s[i] \in DOMAIN item'
      BY <1>1, LenProperties
    <3>3. [i \in 1..Len(s) |-> s[i]] \in Seq(DOMAIN item')
      BY <3>2, IsASeq
    <3> QED
      BY <3>2, <3>3
  <2>2. pool \in Seq(DOMAIN item) /\ lstPokeGoes[z] \in Seq(DOMAIN item)
    BY DEF Typed
  <2>3. pool \o lstPokeGoes[z] \in Seq(DOMAIN item)
    BY <2>2, ConcatProperties
  <2> QED
    BY <1>1, <2>1, <2>3
<1>3. lstPokeGoes' \in [Zones -> Seq(DOMAIN item')]
  <2>1. ASSUME NEW other \in Zones, other # z PROVE lstPokeGoes[other] \in Seq(DOMAIN item')
    <3> DEFINE s == lstPokeGoes[other]
    <3>1. s \in Seq(DOMAIN item)
      BY DEF Typed
    <3> HIDE DEF s
    <3>2. Len(s) \in Nat /\ s = [i \in 1..Len(s) |-> s[i]] /\ \A i \in 1..Len(s) : s[i] \in DOMAIN item'
      BY <1>1, <3>1, LenProperties
    <3>3. [i \in 1..Len(s) |-> s[i]] \in Seq(DOMAIN item')
      BY <3>2, IsASeq
    <3> QED
      BY <3>2, <3>3 DEF s
  <2> QED
    BY <1>1, <2>1 DEF Typed
<1>4. Typed'
  BY <1>1, <1>2, <1>3 DEF Typed
<1>5. ObjectForEveryCard'
  BY <1>1 DEF ObjectForEveryCard, Typed
<1> QED
  BY <1>4, <1>5

LEMMA SetDataKeepsClicks ==
  ASSUME Typed, ItemsClickedInTheHand, NEW z \in Zones, NEW cards \in Seq(Nat),
         NEW interactive \in BOOLEAN, SetData(z, cards, interactive),
         interactive => z = "cards"
  PROVE  ItemsClickedInTheHand'
<1>1. SUFFICES ASSUME NEW o \in DOMAIN item'
               PROVE  /\ item'[o].zoneView \in {NoZone, "cards"}
                      /\ item'[o].parent # NoZone /\ item'[o].interactable
                           => item'[o].parent = "cards"
  BY DEF ItemsClickedInTheHand
<1>2. CASE o \in ToSet(Taken(z, cards))
  <2>1. LooksTaken(o, z, cards, interactive)
    BY <1>2, FieldsAfter
  <2> QED
    BY <2>1 DEF ItemsClickedInTheHand, LooksTaken
<1>3. CASE o \notin ToSet(Taken(z, cards))
  <2>1. LooksLeft(o, z)
    BY <1>1, <1>3, FieldsAfter
  <2> QED
    BY <2>1 DEF ItemsClickedInTheHand, LooksLeft
<1> QED
  BY <1>2, <1>3

(* What was on the screen in the zone has left it; what is on it was taken     *)
(* for one of the cards. The other zone keeps what was not taken from it.      *)
LEMMA ScreenAfter ==
  ASSUME Typed, ScreenShowsTheHand, NEW z \in Zones, NEW cards \in Seq(Nat),
         NEW interactive \in BOOLEAN, SetData(z, cards, interactive)
  PROVE  /\ OnScreen(z)' = ToSet(Taken(z, cards))
         /\ \A other \in Zones \ {z} : \A o \in OnScreen(other)' :
              /\ o \in OnScreen(other)
              /\ o \notin ToSet(Taken(z, cards))
              /\ item'[o].index = item[o].index
              /\ item'[o].poke = item[o].poke
              /\ item'[o].clickedUp = item[o].clickedUp
         /\ \A other \in Zones \ {z} : \A o \in OnScreen(other) :
              o \in OnScreen(other)' \/ o \in ToSet(Taken(z, cards)) \/ o \in ToSet(lstPokeGoes[z])
<1> DEFINE goes == Taken(z, cards)
<1>0. DOMAIN item' = DOMAIN item \cup ToSet(goes)
  BY SetDataEffect
<1>1. \A o \in ToSet(goes) : o \in DOMAIN item' /\ item'[o].parent = z
  <2>1. \A o \in ToSet(goes) : LooksTaken(o, z, cards, interactive)
    BY FieldsAfter
  <2> QED
    BY <2>1 DEF LooksTaken
<1>2. ASSUME NEW o \in DOMAIN item' \ ToSet(goes)
      PROVE  /\ o \in DOMAIN item
             /\ item'[o].parent = IF o \in ToSet(lstPokeGoes[z]) THEN NoZone ELSE item[o].parent
             /\ item'[o].clickedUp = item[o].clickedUp
             /\ item'[o].index = item[o].index
             /\ item'[o].poke = item[o].poke
  <2>1. LooksLeft(o, z)
    BY FieldsAfter
  <2> QED
    BY <2>1 DEF LooksLeft
<1> HIDE DEF goes
<1>3. \A o \in OnScreen(z) : o \in ToSet(lstPokeGoes[z])
  BY DEF ScreenShowsTheHand
<1>4. OnScreen(z)' = ToSet(goes)
  <2>1. ASSUME NEW o \in DOMAIN item', item'[o].parent = z PROVE o \in ToSet(goes)
    <3>1. SUFFICES ASSUME o \notin ToSet(goes) PROVE FALSE
      OBVIOUS
    <3>2. z # NoZone
      BY DEF Zones, NoZone
    <3>3. o \in DOMAIN item /\ o \notin ToSet(lstPokeGoes[z]) /\ item[o].parent = z
      BY <1>2, <2>1, <3>1, <3>2
    <3> QED
      BY <1>3, <3>3 DEF OnScreen
  <2> QED
    BY <1>1, <2>1 DEF OnScreen
<1>5. ASSUME NEW other \in Zones \ {z}, NEW o \in OnScreen(other)'
      PROVE  /\ o \in OnScreen(other)
             /\ o \notin ToSet(goes)
             /\ item'[o].index = item[o].index
             /\ item'[o].poke = item[o].poke
             /\ item'[o].clickedUp = item[o].clickedUp
  <2>1. o \in DOMAIN item' /\ item'[o].parent = other /\ other # NoZone /\ other # z
    BY DEF OnScreen, Zones, NoZone
  <2>2. o \notin ToSet(goes)
    BY <1>1, <2>1
  <2> QED
    BY <1>2, <2>1, <2>2 DEF OnScreen
<1>6. ASSUME NEW other \in Zones \ {z}, NEW o \in OnScreen(other),
             o \notin ToSet(goes), o \notin ToSet(lstPokeGoes[z])
      PROVE  o \in OnScreen(other)'
  <2>1. o \in DOMAIN item /\ item[o].parent = other
    BY DEF OnScreen
  <2>2. o \in DOMAIN item' /\ item'[o].parent = other
    BY <1>0, <1>2, <1>6, <2>1
  <2> QED
    BY <2>2 DEF OnScreen
<1> QED
  BY <1>4, <1>5, <1>6 DEF goes

LEMMA SetDataKeepsScreen ==
  ASSUME Typed, ScreenShowsTheHand, NEW z \in Zones, NEW cards \in Seq(Nat),
         NEW interactive \in BOOLEAN, SetData(z, cards, interactive)
  PROVE  ScreenShowsTheHand'
<1> DEFINE goes == Taken(z, cards)
           data == Sorted(cards)
           n == Len(cards)
<1>1. data \in Seq(Nat) /\ Len(data) = n /\ n \in Nat
  BY SetDataEffect
<1>2. DOMAIN goes = 1..n
  BY SetDataEffect
<1>3. lstPokes' = [lstPokes EXCEPT ![z] = data] /\ lstPokeGoes' = [lstPokeGoes EXCEPT ![z] = goes]
  BY SetDataEffect
<1>4. pool' = pool \o lstPokeGoes[z] /\ released' = released
  BY SetDataEffect
<1>5. \A o \in ToSet(goes) : \E i \in 1..n :
        goes[i] = o /\ item'[o].index = i - 1 /\ item'[o].poke = data[i]
  <2>1. \A o \in ToSet(goes) : LooksTaken(o, z, cards, interactive)
    BY FieldsAfter
  <2> QED
    BY <2>1 DEF LooksTaken
<1>6. /\ OnScreen(z)' = ToSet(goes)
      /\ \A other \in Zones \ {z} : \A o \in OnScreen(other)' :
           /\ o \in OnScreen(other)
           /\ o \notin ToSet(goes)
           /\ item'[o].index = item[o].index
           /\ item'[o].poke = item[o].poke
           /\ item'[o].clickedUp = item[o].clickedUp
      /\ \A other \in Zones \ {z} : \A o \in OnScreen(other) :
           o \in OnScreen(other)' \/ o \in ToSet(goes) \/ o \in ToSet(lstPokeGoes[z])
  BY ScreenAfter
<1>7. \/ pool' # <<>>
      \/ lstPokeGoes[z] = <<>> /\ pool = <<>> /\ goes = [i \in 1..n |-> Len(item) + i]
  BY <1>4, TakenEffect
<1>8. Len(item) \in Nat /\ DOMAIN item = 1..Len(item)
  BY LenProperties DEF Typed
<1> HIDE DEF goes, data, n
<1>9. lstPokes'[z] = data /\ lstPokeGoes'[z] = goes
      /\ \A other \in Zones \ {z} : lstPokes'[other] = lstPokes[other] /\ lstPokeGoes'[other] = lstPokeGoes[other]
  BY <1>3 DEF Typed
<1>10. ASSUME NEW w \in Zones, NEW o \in OnScreen(w)'
       PROVE  /\ o \in ToSet(lstPokeGoes'[w])
              /\ item'[o].index < Len(lstPokes'[w])
              /\ item'[o].poke = lstPokes'[w][item'[o].index + 1]
  <2>1. CASE w = z
    <3>1. o \in ToSet(goes)
      BY <1>6, <2>1
    <3>2. PICK i \in 1..n : item'[o].index = i - 1 /\ item'[o].poke = data[i]
      BY <1>5, <3>1
    <3>3. i - 1 < n /\ (i - 1) + 1 = i
      BY <1>1
    <3> QED
      BY <1>1, <1>9, <2>1, <3>1, <3>2, <3>3
  <2>2. CASE w # z
    <3>1. /\ o \in OnScreen(w)
          /\ item'[o].index = item[o].index /\ item'[o].poke = item[o].poke
      BY <1>6, <2>2
    <3>2. lstPokes'[w] = lstPokes[w] /\ lstPokeGoes'[w] = lstPokeGoes[w]
      BY <1>9, <2>2
    <3> QED
      BY <3>1, <3>2 DEF ScreenShowsTheHand
  <2> QED
    BY <2>1, <2>2
<1>11. ASSUME NEW w \in Zones, pool' = <<>>, ~released'
       PROVE  {item'[o].index : o \in OnScreen(w)'} = 0..(Len(lstPokes'[w]) - 1)
  <2>1. lstPokeGoes[z] = <<>> /\ pool = <<>> /\ ~released /\ goes = [i \in 1..n |-> Len(item) + i]
    BY <1>4, <1>7, <1>11
  <2>2. CASE w = z
    <3>1. ASSUME NEW o \in ToSet(goes) PROVE item'[o].index \in 0..(n - 1)
      BY <1>1, <1>5
    <3>2. ASSUME NEW k \in 0..(n - 1) PROVE \E o \in ToSet(goes) : item'[o].index = k
      <4>1. k + 1 \in 1..n
        BY <1>1
      <4>2. goes[k + 1] \in ToSet(goes)
        BY <1>2, <4>1 DEF ToSet
      <4>3. PICK i \in 1..n : goes[i] = goes[k + 1] /\ item'[goes[k + 1]].index = i - 1
        BY <1>5, <4>2
      <4>4. Len(item) + i = Len(item) + (k + 1)
        BY <2>1, <4>1, <4>3
      <4>5. i - 1 = k
        BY <1>1, <1>8, <4>4
      <4> QED
        BY <4>2, <4>3, <4>5
    <3>3. {item'[o].index : o \in ToSet(goes)} = 0..(n - 1)
      BY <3>1, <3>2
    <3> QED
      BY <1>1, <1>6, <1>9, <2>2, <3>3
  <2>3. CASE w # z
    <3>1. ToSet(lstPokeGoes[z]) = {}
      BY <2>1 DEF ToSet
    <3>2. \A o \in DOMAIN item : o \notin ToSet(goes)
      BY <1>1, <1>8, <2>1 DEF ToSet
    <3>3. OnScreen(w)' = OnScreen(w)
      BY <1>6, <2>3, <3>1, <3>2 DEF OnScreen
    <3>4. \A o \in OnScreen(w) : item'[o].index = item[o].index
      BY <1>6, <2>3, <3>3
    <3>5. {item[o].index : o \in OnScreen(w)} = 0..(Len(lstPokes[w]) - 1)
      BY <2>1 DEF ScreenShowsTheHand
    <3> QED
      BY <1>9, <2>3, <3>3, <3>4, <3>5
  <2> QED
    BY <2>2, <2>3
<1> QED
  BY <1>10, <1>11 DEF ScreenShowsTheHand

-----------------------------------------------------------------------------
(* A hand is given.                                                           *)
LEMMA DealKeepsInv ==
  ASSUME Inv, NEW hand \in Seq(Nat), Deal(hand)
  PROVE  Inv'
<1> DEFINE goes == Taken("cards", hand)
<1>1. /\ SetData("cards", hand, TRUE) /\ deals' = deals + 1 /\ deals \in Nat
      /\ "cards" \in Zones /\ "outcards" \in Zones
  BY DEF Deal, Inv, Typed, Zones
<1>2. Typed' /\ ObjectForEveryCard'
  <2>1. deals' \in Nat /\ TRUE \in BOOLEAN
    BY <1>1
  <2> QED
    BY <1>1, <2>1, SetDataKeepsTypes DEF Inv
<1>3. ItemsClickedInTheHand'
  BY <1>1, SetDataKeepsClicks DEF Inv
<1>4. ScreenShowsTheHand'
  BY <1>1, SetDataKeepsScreen DEF Inv
<1>5. lstSelected' = lstSelected
  BY <1>1, SetDataEffect DEF Inv
<1>6. SelectedOnce'
  BY <1>5 DEF Inv, SelectedOnce
<1>7. NothingYet'
  BY <1>1 DEF NothingYet
<1>8. ASSUME deals' <= 1
      PROVE  /\ item = <<>> /\ pool = <<>> /\ lstPokeGoes["cards"] = <<>>
             /\ lstPokeGoes["outcards"] = <<>> /\ lstSelected["cards"] = <<>>
  <2>1. deals = 0
    BY <1>1, <1>8
  <2> QED
    BY <1>1, <2>1 DEF Inv, NothingYet
<1>9. OnScreen("cards")' = ToSet(goes)
  BY <1>1, ScreenAfter DEF Inv
<1>10. \A o \in ToSet(goes) : LooksTaken(o, "cards", hand, TRUE)
  BY <1>1, FieldsAfter DEF Inv
<1> HIDE DEF goes
<1>11. FirstHandKeepsItsObjects'
  <2>1. ASSUME deals' <= 1, NEW o \in OnScreen("cards")', NEW other \in OnScreen("cards")',
               item'[o].index = item'[other].index
        PROVE  o = other
    <3>1. PICK i \in 1..Len(hand) : goes[i] = o /\ item'[o].index = i - 1
      BY <1>9, <1>10 DEF LooksTaken, goes
    <3>2. PICK j \in 1..Len(hand) : goes[j] = other /\ item'[other].index = j - 1
      BY <1>9, <1>10 DEF LooksTaken, goes
    <3>3. i = j
      <4>1. i \in Int /\ j \in Int
        BY LenProperties
      <4>2. i - 1 = j - 1
        BY <2>1, <3>1, <3>2
      <4> QED
        BY ONLY <4>1, <4>2
    <3> QED
      BY <3>1, <3>2, <3>3
  <2>2. ASSUME deals' <= 1 PROVE ToSet(pool') = {} /\ ToSet(lstPokeGoes'["outcards"]) = {}
    <3>1. pool' = pool \o lstPokeGoes["cards"]
      BY <1>1, SetDataEffect DEF Inv
    <3>2. lstPokeGoes' = [lstPokeGoes EXCEPT !["cards"] = goes]
      BY <1>1, SetDataEffect DEF Inv, goes
    <3>3. <<>> \o <<>> = <<>>
      BY EmptySeq, ConcatEmptySeq
    <3>4. pool' = <<>> /\ lstPokeGoes'["outcards"] = <<>>
      BY <1>1, <1>8, <2>2, <3>1, <3>2, <3>3 DEF Inv, Typed
    <3> QED
      BY <3>4 DEF ToSet
  <2> QED
    BY <2>1, <2>2 DEF FirstHandKeepsItsObjects
<1>12. SelectionIsWhatSticksOut'
  <2>1. ASSUME deals' <= 1 PROVE ToSet(lstSelected'["cards"]) = {}
    BY <1>5, <1>8, <2>1 DEF ToSet
  <2>2. ASSUME deals' <= 1, NEW o \in OnScreen("cards")' PROVE ~item'[o].clickedUp
    <3>1. o \notin DOMAIN item
      BY <1>8, <2>2
    <3> QED
      BY <1>9, <1>10, <3>1 DEF LooksTaken
  <2> QED
    BY <2>1, <2>2 DEF SelectionIsWhatSticksOut
<1> QED
  BY <1>2, <1>3, <1>4, <1>6, <1>7, <1>11, <1>12 DEF Inv

(* The cards selected are played.                                             *)
LEMMA PlayKeepsInv ==
  ASSUME Inv, OnBtnPlay
  PROVE  Inv'
<1> DEFINE cards == GetSelectedPokes("cards")
           goes == Taken("outcards", cards)
           old == lstPokeGoes["outcards"]
<1>1. /\ SetData("outcards", cards, FALSE) /\ deals' = deals /\ deals \in Nat
      /\ "cards" \in Zones /\ "outcards" \in Zones /\ "cards" # "outcards"
  BY DEF OnBtnPlay, Inv, Typed, Zones
<1>2. cards \in Seq(Nat) /\ FALSE \in BOOLEAN
  BY SelectedAreHeld DEF Inv
<1>3. DOMAIN lstPokes["cards"] = {} => cards = <<>>
  <2>1. \E c \in [DOMAIN cards -> DOMAIN lstPokes["cards"]] : TRUE
    BY SelectedAreHeld DEF Inv
  <2>2. ASSUME DOMAIN lstPokes["cards"] = {} PROVE DOMAIN cards = {}
    BY <2>1, <2>2
  <2> HIDE DEF cards
  <2>3. ASSUME DOMAIN lstPokes["cards"] = {} PROVE cards = <<>>
    <3>1. Len(cards) \in Nat /\ DOMAIN cards = 1..Len(cards)
      BY <1>2, LenProperties
    <3>2. Len(cards) = 0
      BY <2>2, <2>3, <3>1
    <3> QED
      BY <1>2, <3>2, EmptySeq
  <2> QED
    BY <2>3
<1> HIDE DEF cards
<1>4. Typed' /\ ObjectForEveryCard'
  BY <1>1, <1>2, SetDataKeepsTypes DEF Inv
<1>5. ItemsClickedInTheHand'
  BY <1>1, <1>2, SetDataKeepsClicks DEF Inv
<1>6. ScreenShowsTheHand'
  BY <1>1, <1>2, SetDataKeepsScreen DEF Inv
<1>7. lstSelected' = lstSelected
  BY <1>1, <1>2, SetDataEffect DEF Inv
<1>8. SelectedOnce'
  BY <1>7 DEF Inv, SelectedOnce
<1>9. pool' = pool \o old
  BY <1>1, <1>2, SetDataEffect DEF Inv
<1>10. lstPokeGoes' = [lstPokeGoes EXCEPT !["outcards"] = goes]
  BY <1>1, <1>2, SetDataEffect DEF Inv
<1>11. \A o \in ToSet(goes) : LooksTaken(o, "outcards", cards, FALSE)
  BY <1>1, <1>2, FieldsAfter DEF Inv
<1>12. \A o \in DOMAIN item' \ ToSet(goes) : LooksLeft(o, "outcards")
  BY <1>1, <1>2, FieldsAfter DEF Inv
<1>13. /\ \A o \in OnScreen("cards")' :
            /\ o \in OnScreen("cards")
            /\ item'[o].index = item[o].index
            /\ item'[o].clickedUp = item[o].clickedUp
       /\ \A o \in OnScreen("cards") :
            o \in OnScreen("cards")' \/ o \in ToSet(goes) \/ o \in ToSet(old)
  <2>1. "cards" \in Zones \ {"outcards"}
    BY <1>1
  <2> HIDE DEF goes, old
  <2>2. \A o \in OnScreen("cards")' :
            /\ o \in OnScreen("cards")
            /\ item'[o].index = item[o].index
            /\ item'[o].clickedUp = item[o].clickedUp
    <3>1. \A other \in Zones \ {"outcards"} : \A o \in OnScreen(other)' :
            /\ o \in OnScreen(other)
            /\ item'[o].index = item[o].index
            /\ item'[o].clickedUp = item[o].clickedUp
      <4>1. Typed /\ ScreenShowsTheHand
        BY DEF Inv
      <4> HIDE DEF cards
      <4>2. \A other \in Zones \ {"outcards"} : \A o \in OnScreen(other)' :
              /\ o \in OnScreen(other)
              /\ o \notin ToSet(Taken("outcards", cards))
              /\ item'[o].index = item[o].index
              /\ item'[o].poke = item[o].poke
              /\ item'[o].clickedUp = item[o].clickedUp
        BY ONLY <1>1, <1>2, <4>1, ScreenAfter, Zenon
      <4> QED
        BY ONLY <4>2, Zenon
    <3> QED
      BY <2>1, <3>1
  <2>3. \A o \in OnScreen("cards") :
            o \in OnScreen("cards")' \/ o \in ToSet(goes) \/ o \in ToSet(old)
    BY <1>1, <1>2, <2>1, ScreenAfter DEF Inv, goes, old
  <2> QED
    BY <2>2, <2>3
<1>14. /\ ToSet(pool \o old) = ToSet(pool) \cup ToSet(old)
       /\ \A o \in ToSet(goes) : o \in DOMAIN item => o \in ToSet(pool \o old)
  <2>1. /\ ToSet(pool \o old) = ToSet(pool) \cup ToSet(old)
        /\ \/ Last(pool \o old) \in ToSet(pool \o old) /\ goes = [i \in 1..Len(cards) |-> Last(pool \o old)]
           \/ goes = [i \in 1..Len(cards) |-> Len(item) + i]
        /\ Len(item) \in Nat /\ DOMAIN item = 1..Len(item)
    BY <1>1, <1>2, TakenEffect DEF Inv
  <2> HIDE DEF goes, old
  <2>2. \A i \in 1..Len(cards) : Len(item) + i \notin DOMAIN item
    BY <1>2, <2>1, LenProperties
  <2> QED
    <3>1. CASE /\ Last(pool \o old) \in ToSet(pool \o old)
               /\ goes = [i \in 1..Len(cards) |-> Last(pool \o old)]
      <4>1. \A o \in ToSet(goes) : o = Last(pool \o old)
        BY <3>1 DEF ToSet
      <4> QED
        BY <2>1, <3>1, <4>1
    <3>2. CASE goes = [i \in 1..Len(cards) |-> Len(item) + i]
      <4>1. \A o \in ToSet(goes) : \E i \in 1..Len(cards) : o = Len(item) + i
        BY <3>2 DEF ToSet
      <4> QED
        BY <2>1, <2>2, <4>1
    <3> QED
      BY <2>1, <3>1, <3>2
<1> HIDE DEF goes, old
<1>15. NothingYet'
  <2>1. SUFFICES ASSUME deals = 0
                 PROVE  /\ item' = <<>> /\ pool' = <<>>
                        /\ \A z \in Zones : /\ lstPokes'[z] = <<>> /\ lstPokeGoes'[z] = <<>>
                                            /\ lstSelected'[z] = <<>>
    BY <1>1 DEF NothingYet
  <2>2. /\ item = <<>> /\ pool = <<>> /\ old = <<>>
        /\ \A z \in Zones : lstPokes[z] = <<>> /\ lstPokeGoes[z] = <<>> /\ lstSelected[z] = <<>>
    BY <1>1, <2>1 DEF Inv, NothingYet, old
  <2>3. Len(<<>>) = 0 /\ DOMAIN <<>> = {} /\ <<>> \o <<>> = <<>>
    BY EmptySeq, ConcatEmptySeq
  <2>4. cards = <<>> /\ Len(cards) = 0
    BY <1>1, <1>3, <2>2, <2>3
  <2>5. /\ Sorted(cards) \in Seq(Nat) /\ Len(Sorted(cards)) = 0
    BY <1>2, <2>4, SortedEffect
  <2>6. Sorted(cards) = <<>>
    BY <2>5, EmptySeq
  <2>7. DOMAIN goes = 1..Len(cards) /\ goes \in Seq(DOMAIN item')
    BY <1>1, <1>2, SetDataEffect DEF Inv, goes
  <2>8. goes = <<>> /\ ToSet(goes) = {}
    <3>1. Len(goes) = 0
      BY <2>4, <2>7, LenProperties
    <3> QED
      BY <2>7, <3>1, EmptySeq DEF ToSet
  <2>9. item' \in Seq(Items) /\ DOMAIN item' = DOMAIN item \cup ToSet(goes)
    BY <1>1, <1>2, SetDataEffect DEF Inv, goes
  <2>10. item' = <<>>
    <3>1. DOMAIN item' = {}
      BY <2>2, <2>3, <2>8, <2>9
    <3>2. Len(item') \in Nat /\ DOMAIN item' = 1..Len(item')
      BY <2>9, LenProperties
    <3>3. Len(item') = 0
      BY <3>1, <3>2
    <3> QED
      BY <2>9, <3>3, EmptySeq
  <2>11. lstPokes' = [lstPokes EXCEPT !["outcards"] = Sorted(cards)]
    BY <1>1, <1>2, SetDataEffect DEF Inv
  <2>12. \A z \in Zones : lstPokes'[z] = <<>> /\ lstPokeGoes'[z] = <<>>
    BY <1>10, <2>2, <2>6, <2>8, <2>11 DEF Inv, Typed
  <2>13. pool' = <<>>
    BY <1>9, <2>2, <2>3
  <2> QED
    BY <1>7, <2>2, <2>10, <2>12, <2>13
<1>16. deals <= 1 => \A o \in ToSet(pool) \cup ToSet(old) : item[o].parent # "cards"
  BY DEF Inv, FirstHandKeepsItsObjects, old
<1>17. FirstHandKeepsItsObjects'
  <2>1. ASSUME deals <= 1, NEW o \in OnScreen("cards")', NEW other \in OnScreen("cards")',
               item'[o].index = item'[other].index
        PROVE  o = other
    BY <1>13, <2>1 DEF Inv, FirstHandKeepsItsObjects
  <2>2. ASSUME deals <= 1, NEW o \in ToSet(pool') \cup ToSet(lstPokeGoes'["outcards"])
        PROVE  item'[o].parent # "cards"
    <3>1. lstPokeGoes'["outcards"] = goes
      BY <1>1, <1>10 DEF Inv, Typed
    <3>2. CASE o \in ToSet(goes)
      BY <1>1, <1>11, <3>2 DEF LooksTaken
    <3>3. CASE o \notin ToSet(goes)
      <4>1. o \in ToSet(pool) \cup ToSet(old)
        BY <1>9, <1>14, <2>2, <3>1, <3>3
      <4>2. o \in DOMAIN item'
        <5>1. pool' \in Seq(DOMAIN item')
          BY <1>4 DEF Typed
        <5>2. o \in ToSet(pool')
          BY <1>9, <1>14, <4>1
        <5> QED
          BY <5>1, <5>2, LenProperties DEF ToSet
      <4>3. LooksLeft(o, "outcards")
        BY <1>12, <3>3, <4>2
      <4>4. item[o].parent # "cards" /\ NoZone # "cards"
        BY <1>16, <2>2, <4>1 DEF NoZone
      <4> QED
        BY <4>3, <4>4 DEF LooksLeft
    <3> QED
      BY <3>2, <3>3
  <2> QED
    BY <1>1, <2>1, <2>2 DEF FirstHandKeepsItsObjects
<1>18. SelectionIsWhatSticksOut'
  <2>1. SUFFICES ASSUME deals <= 1
                 PROVE  ToSet(lstSelected'["cards"])
                          = {item'[o].index : o \in {i \in OnScreen("cards")' : item'[i].clickedUp}}
    BY <1>1 DEF SelectionIsWhatSticksOut
  <2>2. \A o \in OnScreen("cards") : o \notin ToSet(goes) /\ o \notin ToSet(old)
    BY <1>14, <1>16, <2>1 DEF OnScreen
  <2>3. OnScreen("cards")' = OnScreen("cards")
    BY <1>13, <2>2
  <2>4. \A o \in OnScreen("cards") : item'[o].index = item[o].index /\ item'[o].clickedUp = item[o].clickedUp
    BY <1>13, <2>3
  <2>5. ToSet(lstSelected["cards"])
          = {item[o].index : o \in {i \in OnScreen("cards") : item[i].clickedUp}}
    BY <2>1 DEF Inv, SelectionIsWhatSticksOut
  <2>6. {item'[o].index : o \in {i \in OnScreen("cards")' : item'[i].clickedUp}}
          = {item[o].index : o \in {i \in OnScreen("cards") : item[i].clickedUp}}
    BY <2>3, <2>4
  <2> QED
    BY <1>7, <2>5, <2>6
<1> QED
  BY <1>4, <1>5, <1>6, <1>8, <1>15, <1>17, <1>18 DEF Inv

(* An object is clicked.                                                      *)
LEMMA ClickKeepsInv ==
  ASSUME Inv, NEW o \in DOMAIN item, OnClick(o)
  PROVE  Inv'
<1> DEFINE index == item[o].index
           selected == lstSelected["cards"]
           up == item[o].clickedUp
<1>1. /\ UNCHANGED <<pool, lstPokes, lstPokeGoes, deals, released>>
      /\ item[o].parent # NoZone /\ item[o].interactable
      /\ lstSelected' = LET z == IF item[o].zoneView = NoZone THEN item[o].parent
                                 ELSE item[o].zoneView
                        IN IF up THEN OnItemDeselected(z, index) ELSE OnItemSelected(z, index)
      /\ item' = [item EXCEPT ![o].clickedUp = ~@,
                              ![o].zoneView = IF item[o].zoneView = NoZone THEN item[o].parent
                                              ELSE item[o].zoneView]
  BY DEF OnClick
<1>2. /\ item[o].parent = "cards"
      /\ (IF item[o].zoneView = NoZone THEN item[o].parent ELSE item[o].zoneView) = "cards"
  BY <1>1 DEF Inv, ItemsClickedInTheHand
<1>3. /\ item' = [item EXCEPT ![o].clickedUp = ~@, ![o].zoneView = "cards"]
      /\ lstSelected' = [lstSelected EXCEPT !["cards"] =
                           IF up THEN RemoveFirst(@, index)
                           ELSE IF Contains(@, index) THEN @ ELSE Append(@, index)]
  BY <1>1, <1>2 DEF OnItemDeselected, OnItemSelected
<1>4. \A x \in DOMAIN item : item[x] \in Items
  BY LenProperties DEF Inv, Typed
<1>5. /\ DOMAIN item' = DOMAIN item
      /\ \A x \in DOMAIN item : /\ item'[x].parent = item[x].parent
                                /\ item'[x].interactable = item[x].interactable
                                /\ item'[x].index = item[x].index
                                /\ item'[x].poke = item[x].poke
                                /\ item'[x] \in Items
                                /\ item'[x].clickedUp = IF x = o THEN ~up ELSE item[x].clickedUp
                                /\ item'[x].zoneView = IF x = o THEN "cards" ELSE item[x].zoneView
  <2>1. DOMAIN item' = DOMAIN item
    BY <1>3
  <2>2. ASSUME NEW x \in DOMAIN item, x # o PROVE item'[x] = item[x]
    BY <1>3, <2>2
  <2>3. /\ item'[o].parent = item[o].parent
        /\ item'[o].interactable = item[o].interactable
        /\ item'[o].index = item[o].index
        /\ item'[o].poke = item[o].poke
        /\ item'[o] \in Items
        /\ item'[o].clickedUp = ~item[o].clickedUp
        /\ item'[o].zoneView = "cards"
    <3>1. item'[o] = [item[o] EXCEPT !.clickedUp = ~item[o].clickedUp, !.zoneView = "cards"]
      BY <1>3
    <3>2. item[o] \in Items
      BY <1>4
    <3> QED
      BY <3>1, <3>2 DEF Items, Zones
  <2> QED
    BY <1>4, <2>1, <2>2, <2>3
<1>6. /\ selected \in Seq(Nat) /\ IsInjective(selected) /\ index \in Nat
      /\ lstSelected \in [Zones -> Seq(Nat)] /\ "cards" \in Zones /\ "outcards" \in Zones
      /\ lstSelected["outcards"] = <<>> /\ up \in BOOLEAN
  BY <1>4 DEF Inv, Typed, SelectedOnce, Zones, Items
<1> HIDE DEF index, up
<1>7. /\ lstSelected'["cards"] = IF up THEN RemoveFirst(selected, index)
                                 ELSE IF Contains(selected, index) THEN selected
                                 ELSE Append(selected, index)
      /\ lstSelected'["outcards"] = <<>>
      /\ lstSelected' = [lstSelected EXCEPT !["cards"] = lstSelected'["cards"]]
  BY <1>3, <1>6
<1> HIDE DEF selected
<1>8. /\ lstSelected'["cards"] \in Seq(Nat) /\ IsInjective(lstSelected'["cards"])
      /\ ToSet(lstSelected'["cards"])
           = IF up THEN ToSet(selected) \ {index} ELSE ToSet(selected) \cup {index}
  <2>1. CASE up
    <3>1. RemoveFirst(selected, index) \in Seq(Nat)
      BY <1>6, RemoveFirstTyped
    <3>2. IsInjective(RemoveFirst(selected, index))
      BY <1>6, RemoveFirstInjective
    <3>3. ToSet(RemoveFirst(selected, index)) = ToSet(selected) \ {index}
      BY <1>6, RemoveFirstElements
    <3> QED
      BY <1>7, <2>1, <3>1, <3>2, <3>3
  <2>2. CASE ~up /\ Contains(selected, index)
    <3>1. index \in ToSet(selected)
      BY <1>6, <2>2, LenProperties DEF Contains, ToSet
    <3> QED
      BY <1>6, <1>7, <2>2, <3>1
  <2>3. CASE ~up /\ ~Contains(selected, index)
    <3>1. \A i \in 1..Len(selected) : selected[i] # index
      BY <2>3 DEF Contains
    <3>2. Append(selected, index) \in Seq(Nat)
      BY <1>6, <3>1, AppendNew
    <3>3. IsInjective(Append(selected, index))
      BY <1>6, <3>1, AppendNew
    <3>4. ToSet(Append(selected, index)) = ToSet(selected) \cup {index}
      BY <1>6, <3>1, AppendNew
    <3> QED
      BY <1>7, <2>3, <3>2, <3>3, <3>4
  <2> QED
    BY <2>1, <2>2, <2>3
<1>9. \A z \in Zones : OnScreen(z)' = OnScreen(z)
  BY <1>5 DEF OnScreen
<1>10. Typed'
  <2>1. item' \in Seq(Items)
    <3>1. Len(item) \in Nat /\ DOMAIN item = 1..Len(item)
      BY LenProperties DEF Inv, Typed
    <3>2. item' = [x \in 1..Len(item) |-> item'[x]]
      BY <1>3, <1>5, <3>1
    <3>3. [x \in 1..Len(item) |-> item'[x]] \in Seq(Items)
      BY <1>5, <3>1, IsASeq
    <3> QED
      BY <3>2, <3>3
  <2>2. lstSelected' \in [Zones -> Seq(Nat)]
    BY <1>6, <1>7, <1>8
  <2> QED
    BY <1>1, <1>5, <2>1, <2>2 DEF Inv, Typed
<1>11. ObjectForEveryCard'
  BY <1>1 DEF Inv, ObjectForEveryCard
<1>12. ItemsClickedInTheHand'
  BY <1>5 DEF Inv, ItemsClickedInTheHand
<1>13. SelectedOnce'
  BY <1>7, <1>8 DEF SelectedOnce
<1>14. NothingYet'
  <2>1. item # <<>>
    OBVIOUS
  <2> QED
    BY <1>1, <2>1 DEF Inv, NothingYet
<1>15. FirstHandKeepsItsObjects'
  <2>1. \A x \in ToSet(pool) \cup ToSet(lstPokeGoes["outcards"]) : x \in DOMAIN item
    BY <1>6, LenProperties DEF Inv, Typed, ToSet
  <2>2. \A x \in OnScreen("cards") : x \in DOMAIN item
    BY DEF OnScreen
  <2> QED
    BY <1>1, <1>5, <1>6, <1>9, <2>1, <2>2 DEF Inv, FirstHandKeepsItsObjects
<1>16. ScreenShowsTheHand'
  <2>1. ASSUME NEW z \in Zones, NEW x \in OnScreen(z)'
        PROVE  /\ x \in ToSet(lstPokeGoes'[z])
               /\ item'[x].index < Len(lstPokes'[z])
               /\ item'[x].poke = lstPokes'[z][item'[x].index + 1]
    <3>1. x \in OnScreen(z) /\ item'[x].index = item[x].index /\ item'[x].poke = item[x].poke
      BY <1>5, <1>9 DEF OnScreen
    <3> QED
      BY <1>1, <3>1 DEF Inv, ScreenShowsTheHand
  <2>2. ASSUME NEW z \in Zones, pool' = <<>>, ~released'
        PROVE  {item'[x].index : x \in OnScreen(z)'} = 0..(Len(lstPokes'[z]) - 1)
    <3>1. {item[x].index : x \in OnScreen(z)} = 0..(Len(lstPokes[z]) - 1)
      BY <1>1, <2>2 DEF Inv, ScreenShowsTheHand
    <3>2. \A x \in OnScreen(z) : item'[x].index = item[x].index
      BY <1>5 DEF OnScreen
    <3>3. OnScreen(z)' = OnScreen(z) /\ lstPokes'[z] = lstPokes[z]
      BY <1>1, <1>9
    <3>4. {item'[x].index : x \in OnScreen(z)} = {item[x].index : x \in OnScreen(z)}
      BY <3>2
    <3> QED
      BY <3>1, <3>3, <3>4
  <2> QED
    BY <2>1, <2>2 DEF ScreenShowsTheHand
<1>17. SelectionIsWhatSticksOut'
  <2> DEFINE out == {x \in OnScreen("cards") : item[x].clickedUp}
             out1 == {x \in OnScreen("cards") : item'[x].clickedUp}
  <2>1. SUFFICES ASSUME deals <= 1
                 PROVE  ToSet(lstSelected'["cards"]) = {item[x].index : x \in out1}
    <3>1. \A x \in OnScreen("cards") : item'[x].index = item[x].index
      BY <1>5 DEF OnScreen
    <3>2. OnScreen("cards")' = OnScreen("cards")
      BY <1>6, <1>9
    <3>3. {x \in OnScreen("cards")' : item'[x].clickedUp} = out1
      BY <3>2
    <3>4. {item'[x].index : x \in out1} = {item[x].index : x \in out1}
      BY <3>1
    <3>5. deals' = deals
      BY <1>1
    <3> HIDE DEF out1
    <3> QED
      BY <3>3, <3>4, <3>5 DEF SelectionIsWhatSticksOut
  <2>2. ToSet(selected) = {item[x].index : x \in out}
    BY <2>1 DEF Inv, SelectionIsWhatSticksOut, selected
  <2>3. o \in OnScreen("cards")
    BY <1>2 DEF OnScreen
  <2>4. \A x \in OnScreen("cards") : item[x].index = index => x = o
    BY <2>1, <2>3 DEF Inv, FirstHandKeepsItsObjects, index
  <2>5. \A x \in OnScreen("cards") : item'[x].clickedUp = IF x = o THEN ~up ELSE item[x].clickedUp
    BY <1>5 DEF OnScreen
  <2>6. CASE up
    <3>1. out1 = out \ {o}
      BY <2>5, <2>6
    <3>2. {item[x].index : x \in out \ {o}} = {item[x].index : x \in out} \ {index}
      BY <2>4 DEF index
    <3> QED
      BY <1>8, <2>2, <2>6, <3>1, <3>2
  <2>7. CASE ~up
    <3>1. out1 = out \cup {o}
      BY <2>3, <2>5, <2>7
    <3>2. {item[x].index : x \in out \cup {o}} = {item[x].index : x \in out} \cup {index}
      BY DEF index
    <3> QED
      BY <1>8, <2>2, <2>7, <3>1, <3>2
  <2> QED
    BY <2>6, <2>7
<1> QED
  BY <1>10, <1>11, <1>12, <1>13, <1>14, <1>15, <1>16, <1>17 DEF Inv

(* The game ends.                                                             *)
LEMMA ReleaseKeepsInv ==
  ASSUME Inv, Release
  PROVE  Inv'
<1>1. /\ pool' = <<>> /\ released' = TRUE
      /\ UNCHANGED <<item, lstPokes, lstPokeGoes, lstSelected, deals>>
  BY DEF Release, zoneVars
<1>2. Typed'
  <2>1. <<>> \in Seq(DOMAIN item)
    BY EmptySeq
  <2> QED
    BY <1>1, <2>1 DEF Inv, Typed
<1>3. ObjectForEveryCard' /\ ItemsClickedInTheHand' /\ SelectedOnce' /\ NothingYet'
  BY <1>1 DEF Inv, ObjectForEveryCard, ItemsClickedInTheHand, SelectedOnce, NothingYet
<1>4. FirstHandKeepsItsObjects'
  <2>1. ToSet(pool') = {}
    BY <1>1 DEF ToSet
  <2> QED
    BY <1>1, <2>1 DEF Inv, FirstHandKeepsItsObjects, OnScreen
<1>5. ScreenShowsTheHand' /\ SelectionIsWhatSticksOut'
  BY <1>1 DEF Inv, ScreenShowsTheHand, SelectionIsWhatSticksOut, OnScreen
<1> QED
  BY <1>2, <1>3, <1>4, <1>5 DEF Inv

LEMMA InitInv == Init => Inv
<1> SUFFICES ASSUME Init PROVE Inv
  OBVIOUS
<1>1. /\ item = <<>> /\ pool = <<>> /\ deals = 0
      /\ \A z \in Zones : lstPokes[z] = <<>> /\ lstPokeGoes[z] = <<>> /\ lstSelected[z] = <<>>
      /\ "cards" \in Zones /\ "outcards" \in Zones
  BY DEF Init, Zones
<1>2. Len(<<>>) = 0 /\ DOMAIN <<>> = {} /\ \A S : <<>> \in Seq(S)
  BY EmptySeq
<1>3. ToSet(<<>>) = {} /\ IsInjective(<<>>)
  BY <1>2 DEF ToSet, IsInjective
<1>4. Typed
  BY <1>1, <1>2 DEF Init, Typed
<1>5. \A z \in Zones : OnScreen(z) = {}
  BY <1>1, <1>2 DEF OnScreen
<1>6. ObjectForEveryCard /\ ItemsClickedInTheHand /\ SelectedOnce /\ NothingYet
  BY <1>1, <1>2, <1>3 DEF ObjectForEveryCard, ItemsClickedInTheHand, SelectedOnce, NothingYet
<1>7. FirstHandKeepsItsObjects /\ SelectionIsWhatSticksOut
  BY <1>1, <1>3, <1>5 DEF FirstHandKeepsItsObjects, SelectionIsWhatSticksOut
<1>8. ScreenShowsTheHand
  BY <1>1, <1>2, <1>5 DEF ScreenShowsTheHand
<1> QED
  BY <1>4, <1>6, <1>7, <1>8 DEF Inv

LEMMA StepInv == Inv /\ [Next]_vars => Inv'
<1> SUFFICES ASSUME Inv, [Next]_vars PROVE Inv'
  OBVIOUS
<1>1. ASSUME NEW hand \in Hands, Deal(hand) PROVE Inv'
  BY <1>1, HandsAssumption, DealKeepsInv
<1>2. CASE Clear
  <2>1. <<>> \in Seq(Nat)
    BY EmptySeq
  <2> QED
    BY <1>2, <2>1, DealKeepsInv DEF Clear
<1>3. ASSUME NEW o \in DOMAIN item, OnClick(o) PROVE Inv'
  BY <1>3, ClickKeepsInv
<1>4. CASE OnBtnPlay
  BY <1>4, PlayKeepsInv
<1>5. CASE Release
  BY <1>5, ReleaseKeepsInv
<1>6. CASE UNCHANGED vars
  <2>1. UNCHANGED <<pool, item, lstPokes, lstPokeGoes, lstSelected, deals, released>>
    BY <1>6 DEF vars, zoneVars
  <2>2. Typed' /\ ObjectForEveryCard' /\ ItemsClickedInTheHand' /\ SelectedOnce' /\ NothingYet'
    BY <2>1 DEF Inv, Typed, ObjectForEveryCard, ItemsClickedInTheHand, SelectedOnce, NothingYet
  <2>3. \A z \in Zones : OnScreen(z)' = OnScreen(z)
    BY <2>1 DEF OnScreen
  <2>4. FirstHandKeepsItsObjects'
    BY <2>1 DEF Inv, FirstHandKeepsItsObjects, OnScreen
  <2>5. ScreenShowsTheHand'
    BY <2>1 DEF Inv, ScreenShowsTheHand, OnScreen
  <2>6. SelectionIsWhatSticksOut'
    BY <2>1 DEF Inv, SelectionIsWhatSticksOut, OnScreen
  <2> QED
    BY <2>2, <2>4, <2>5, <2>6 DEF Inv
<1> QED
  BY <1>1, <1>2, <1>3, <1>4, <1>5, <1>6 DEF Next

LEMMA InvHolds == Spec => []Inv
<1> QED
  BY InitInv, StepInv, PTL DEF Spec

-----------------------------------------------------------------------------
(* Whatever is in the pool, an object on the screen in a zone shows the card   *)
(* at its place in that zone, and until objects come back no card is missing. *)
THEOREM ZonesShowTheirCards == Spec => []ScreenShowsTheHand
  BY InvHolds, PTL DEF Inv

(* Of the first hand, the places the zone holds selected are those of the      *)
(* cards that stick out, in any order of clicks and plays.                    *)
THEOREM SelectedSticksOut == Spec => []SelectionIsWhatSticksOut
  BY InvHolds, PTL DEF Inv

(* An object that may be clicked is in the hand's zone, and tells that zone    *)
(* and no other, whichever zone it was in before.                             *)
THEOREM ClicksAreTheHands == Spec => []ClicksReachTheirZone
<1>1. Inv => ClicksReachTheirZone
  <2> SUFFICES ASSUME Inv PROVE ClicksReachTheirZone
    OBVIOUS
  <2>1. ASSUME NEW z \in Zones, NEW o \in OnScreen(z), item[o].interactable
        PROVE  z = "cards" /\ item[o].zoneView \in {NoZone, z}
    <3>1. o \in DOMAIN item /\ item[o].parent = z /\ z # NoZone
      BY DEF OnScreen, Zones, NoZone
    <3> QED
      BY <2>1, <3>1 DEF Inv, ItemsClickedInTheHand
  <2> QED
    BY <2>1 DEF ClicksReachTheirZone, Inv, SelectedOnce
<1> QED
  BY <1>1, InvHolds, PTL

(* A sequence whose elements come from places of another, each from its own,   *)
(* has none of them more often.                                               *)
LEMMA NoMoreThanHeld ==
  ASSUME NEW s \in Seq(Nat), NEW hand \in Seq(Nat),
         NEW m \in [DOMAIN s -> DOMAIN hand], IsInjective(m),
         \A i \in DOMAIN s : s[i] = hand[m[i]],
         NEW card
  PROVE  HowOften(s, card) <= HowOften(hand, card)
<1> DEFINE played == {i \in DOMAIN s : s[i] = card}
           held == {i \in DOMAIN hand : hand[i] = card}
           f == [i \in played |-> m[i]]
<1>1. IsFiniteSet(held)
  <2>1. Len(hand) \in Nat /\ DOMAIN hand = 1..Len(hand)
    BY LenProperties
  <2>2. IsFiniteSet(1..Len(hand)) /\ held \in SUBSET (1..Len(hand))
    BY <2>1, FS_Interval
  <2> QED
    BY <2>2, FS_Subset
<1>2. f \in [played -> held] /\ IsInjective(f)
  BY DEF IsInjective
<1>3. f \in Injection(played, held)
  BY <1>2 DEF Injection
<1> HIDE DEF played, held, f
<1>4. Cardinality(played) <= Cardinality(held)
  BY <1>1, <1>3, FS_Injection
<1> QED
  BY <1>4 DEF HowOften, played, held

LEMMA PlayTakesFromTheHand ==
  ASSUME Inv, OnBtnPlay, NEW card
  PROVE  HowOften(lstPokes'["outcards"], card) <= HowOften(lstPokes["cards"], card)
<1> DEFINE cards == GetSelectedPokes("cards")
           hand == lstPokes["cards"]
           data == Sorted(cards)
<1>1. /\ SetData("outcards", cards, FALSE)
      /\ "cards" \in Zones /\ "outcards" \in Zones
      /\ hand \in Seq(Nat)
  BY DEF OnBtnPlay, Inv, Typed, Zones
<1>2. cards \in Seq(Nat) /\ FALSE \in BOOLEAN
  BY SelectedAreHeld DEF Inv
<1>3. PICK c \in [DOMAIN cards -> DOMAIN hand] :
        IsInjective(c) /\ \A i \in DOMAIN cards : cards[i] = hand[c[i]]
  BY SelectedAreHeld DEF Inv
<1>4. lstPokes' = [lstPokes EXCEPT !["outcards"] = data]
  BY <1>1, <1>2, SetDataEffect DEF Inv
<1> HIDE DEF cards
<1>5. data \in Seq(Nat) /\ Len(data) = Len(cards)
  BY <1>2, SortedEffect
<1>6. PICK p \in [DOMAIN cards -> DOMAIN cards] :
        IsInjective(p) /\ \A i \in DOMAIN cards : data[i] = cards[p[i]]
  BY <1>2, SortedEffect
<1>7. DOMAIN data = DOMAIN cards
  BY <1>2, <1>5, LenProperties
<1> HIDE DEF data
<1> DEFINE m == [i \in DOMAIN data |-> c[p[i]]]
<1>8. m \in [DOMAIN data -> DOMAIN hand] /\ \A i \in DOMAIN data : data[i] = hand[m[i]]
  BY <1>3, <1>6, <1>7
<1>9. IsInjective(m)
  BY <1>3, <1>6, <1>7 DEF IsInjective
<1>10. lstPokes'["outcards"] = data
  BY <1>1, <1>4 DEF Inv, Typed
<1> HIDE DEF m, hand
<1>11. HowOften(data, card) <= HowOften(hand, card)
  BY <1>1, <1>5, <1>8, <1>9, NoMoreThanHeld
<1> QED
  BY <1>10, <1>11 DEF hand

(* Whatever was selected in whichever hands, the cards played are cards of the *)
(* hand, none of them more often than it is held.                             *)
THEOREM NobodyPlaysMore == Spec => PlayedIsHeld
<1>1. Inv /\ [Next]_vars =>
        [lstPokes'["outcards"] # lstPokes["outcards"] =>
           \A card \in ToSet(lstPokes'["outcards"]) :
             HowOften(lstPokes'["outcards"], card) <= HowOften(lstPokes["cards"], card)]_vars
  <2> SUFFICES ASSUME Inv, Next, lstPokes'["outcards"] # lstPokes["outcards"], NEW card
               PROVE  HowOften(lstPokes'["outcards"], card) <= HowOften(lstPokes["cards"], card)
    OBVIOUS
  <2>1. ASSUME NEW hand \in Seq(Nat), Deal(hand) PROVE FALSE
    <3>1. SetData("cards", hand, TRUE) /\ "cards" \in Zones /\ "cards" # "outcards"
      BY <2>1 DEF Deal, Zones
    <3>2. lstPokes' = [lstPokes EXCEPT !["cards"] = Sorted(hand)]
      BY <3>1, SetDataEffect DEF Inv
    <3> QED
      BY <3>1, <3>2 DEF Inv, Typed
  <2>2. CASE \E hand \in Hands : Deal(hand)
    BY <2>1, <2>2, HandsAssumption
  <2>3. CASE Clear
    BY <2>1, <2>3, EmptySeq DEF Clear
  <2>4. ASSUME NEW o \in DOMAIN item, OnClick(o) PROVE FALSE
    BY <2>4 DEF OnClick
  <2>5. CASE OnBtnPlay
    BY <2>5, PlayTakesFromTheHand
  <2>6. CASE Release
    BY <2>6 DEF Release, zoneVars
  <2> QED
    BY <2>2, <2>3, <2>4, <2>5, <2>6 DEF Next
<1> QED
  BY <1>1, InvHolds, PTL DEF Spec, PlayedIsHeld

===============================================================================
