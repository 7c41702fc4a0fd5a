------------------------------ MODULE CardZones ------------------------------
(***************************************************************************)
(* The two zones of a player's table (Game/Battle/View: PokeCardsnZoneView,  *)
(* PokeItemView, PlayerView) and the pool their cards come from              *)
(* (Common/GameObjectPool.cs). A game object carries a PokeItemView; a card  *)
(* is a number, ordered the way Poke.CompareForDisplay orders cards.         *)
(***************************************************************************)
EXTENDS Integers, SequencesExt

CONSTANTS
  Hands,      \* what the zone of the hand is given, cards in any order
  MaxDeals,   \* bound on how often it is given cards
  MaxPool     \* bound on the objects that come back to the pool

ASSUME HandsAssumption == Hands \subseteq Seq(Nat)
ASSUME ZoneBounds == MaxDeals \in Nat /\ MaxPool \in Nat

Zones == {"cards", "outcards"}
NoZone == "none"

VARIABLES
  pool,         \* dicPool["Card"]
  item,         \* the PokeItemView of every object made
  lstPokes,     \* for each zone, the cards it was given
  lstPokeGoes,  \* .. the objects that show them
  lstSelected,  \* .. and the places selected
  deals,        \* how often the hand was given
  released      \* the singletons have been released

zoneVars == <<lstPokes, lstPokeGoes, lstSelected>>
vars == <<pool, item, zoneVars, deals, released>>

\* Where the object is on the screen is part of it; zoneView is the zone it caches.
NewItem ==
  [clickedUp |-> FALSE, zoneView |-> NoZone, index |-> 0, poke |-> 0,
   interactable |-> FALSE, parent |-> NoZone]

Init ==
  /\ pool = <<>> /\ item = <<>>
  /\ lstPokes = [z \in Zones |-> <<>>]
  /\ lstPokeGoes = [z \in Zones |-> <<>>]
  /\ lstSelected = [z \in Zones |-> <<>>]
  /\ deals = 0 /\ released = FALSE

-----------------------------------------------------------------------------
\* Mutant: a card that comes back stays where it is on the screen.
DespawnStays(goes) == item

\* Despawn of the objects: they leave the screen ..
Despawn(goes) ==
  [o \in DOMAIN item |->
     IF o \in ToSet(goes) THEN [item[o] EXCEPT !.parent = NoZone] ELSE item[o]]

\* .. and Spawn of n objects: the last one pooled, which stays in the pool, or new ones.
Spawn(pooled, n) ==
  [i \in 1..n |-> IF pooled # <<>> THEN Last(pooled) ELSE Len(item) + i]

\* PokeItemView.SetData of one object after the other: the last one stays.
ItemsSet(items, goes, z, data, interactive) ==
  [o \in DOMAIN items \cup ToSet(goes) |->
     LET old == IF o \in DOMAIN items THEN items[o] ELSE NewItem
         places == {i \in DOMAIN goes : goes[i] = o}
         i == CHOOSE i \in places : \A j \in places : j <= i
     IN IF places = {} THEN old
        ELSE [old EXCEPT !.index = i - 1, !.poke = data[i], !.parent = z,
                         !.interactable = interactive]]

\* List.Sort, which may lay equal cards either way: cards in an order of their places.
Sorted(cards) ==
  LET Orders(places) ==
        IsInjective(places) /\ \A i, j \in DOMAIN cards : i < j => cards[places[i]] <= cards[places[j]]
      places == CHOOSE places \in [DOMAIN cards -> DOMAIN cards] : Orders(places)
  IN [i \in DOMAIN cards |-> cards[places[i]]]

SetData(z, cards, interactive) ==
  LET data == Sorted(cards)
      pooled == pool \o lstPokeGoes[z]
      goes == Spawn(pooled, Len(data))
  IN /\ Len(pooled) <= MaxPool
     /\ pool' = pooled
     /\ item' = ItemsSet(Despawn(lstPokeGoes[z]), goes, z, data, interactive)
     /\ lstPokes' = [lstPokes EXCEPT ![z] = data]
     /\ lstPokeGoes' = [lstPokeGoes EXCEPT ![z] = goes]
     /\ UNCHANGED <<lstSelected, released>>

\* The hand is given to its zone; Clear gives it none.
Deal(hand) ==
  /\ ~released /\ deals < MaxDeals
  /\ deals' = deals + 1
  /\ SetData("cards", hand, TRUE)

Clear == Deal(<<>>)

-----------------------------------------------------------------------------
\* Mutant: a place is added whether or not it is there.
OnItemSelectedAgain(z, index) == [lstSelected EXCEPT ![z] = Append(@, index)]

OnItemSelected(z, index) ==
  [lstSelected EXCEPT ![z] = IF Contains(@, index) THEN @ ELSE Append(@, index)]

\* Mutant: List.RemoveAt, which takes a place in the list.
OnItemDeselectedAt(z, index) ==
  [lstSelected EXCEPT ![z] = IF index + 1 \in DOMAIN @ THEN RemoveAt(@, index + 1) ELSE @]

OnItemDeselected(z, index) == [lstSelected EXCEPT ![z] = RemoveFirst(@, index)]

\* A click on an object that is on the screen and may be clicked.
OnClick(o) ==
  /\ ~released
  /\ item[o].parent # NoZone /\ item[o].interactable
  /\ LET zoneView == IF item[o].zoneView = NoZone THEN item[o].parent ELSE item[o].zoneView
         index == item[o].index
     IN /\ lstSelected' = IF item[o].clickedUp THEN OnItemDeselected(zoneView, index)
                                               ELSE OnItemSelected(zoneView, index)
        /\ item' = [item EXCEPT ![o].clickedUp = ~@, ![o].zoneView = zoneView]
  /\ UNCHANGED <<pool, lstPokes, lstPokeGoes, deals, released>>

\* Places beyond the hand are skipped: it may have been a longer one. The order
\* of the cards is left open: SetData, which they are given to, sorts them.
GetSelectedPokes(z) ==
  LET inHand == {k \in DOMAIN lstSelected[z] : lstSelected[z][k] < Len(lstPokes[z])}
      chosen == SetToSeq(inHand)
  IN [i \in DOMAIN chosen |-> lstPokes[z][lstSelected[z][chosen[i]] + 1]]

\* Mutant: the cards played may be clicked.
OnBtnPlayInteractive ==
  /\ ~released
  /\ SetData("outcards", GetSelectedPokes("cards"), TRUE)
  /\ UNCHANGED deals

OnBtnPlay ==
  /\ ~released
  /\ SetData("outcards", GetSelectedPokes("cards"), FALSE)
  /\ UNCHANGED deals

\* OnApplicationQuit: the pool forgets its objects, the game is over.
Release ==
  /\ ~released /\ released' = TRUE
  /\ pool' = <<>>
  /\ UNCHANGED <<item, zoneVars, deals>>

Next ==
  \/ \E hand \in Hands : Deal(hand)
  \/ Clear
  \/ \E o \in DOMAIN item : OnClick(o)
  \/ OnBtnPlay
  \/ Release

Spec == Init /\ [][Next]_vars

-----------------------------------------------------------------------------
OnScreen(z) == {o \in DOMAIN item : item[o].parent = z}

(* What is on the screen in a zone is a card of the hand it was given last, at *)
(* the place the item tells the zone, though hands share objects with each    *)
(* other, with the other zone and with the pool; until objects come back to   *)
(* the pool, every card of the hand is on the screen.                        *)
ScreenShowsTheHand ==
  \A z \in Zones :
    /\ \A o \in OnScreen(z) :
         /\ o \in ToSet(lstPokeGoes[z])
         /\ item[o].index < Len(lstPokes[z])
         /\ item[o].poke = lstPokes[z][item[o].index + 1]
    /\ pool = <<>> /\ ~released =>
         {item[o].index : o \in OnScreen(z)} = 0..(Len(lstPokes[z]) - 1)

(* Of the first hand, the places selected are those of the cards that stick    *)
(* out, however often cards are clicked and played. (Of a later hand they need *)
(* not be: neither the selection nor the items forget the hand before.)       *)
SelectionIsWhatSticksOut ==
  deals <= 1 =>
    ToSet(lstSelected["cards"]) = {item[o].index : o \in {i \in OnScreen("cards") : item[i].clickedUp}}

(* A click counts in the zone of the hand only, and for the zone the card is   *)
(* in, though an object that has cached its zone is used by both.             *)
ClicksReachTheirZone ==
  /\ lstSelected["outcards"] = <<>>
  /\ \A z \in Zones : \A o \in OnScreen(z) :
       item[o].interactable => z = "cards" /\ item[o].zoneView \in {NoZone, z}

HowOften(s, card) == Cardinality({i \in DOMAIN s : s[i] = card})

(* Nobody plays more of a card than he holds, also when places selected in an  *)
(* earlier hand, longer or shorter, are still selected.                      *)
PlayedIsHeld ==
  [][lstPokes'["outcards"] # lstPokes["outcards"] =>
       \A card \in ToSet(lstPokes'["outcards"]) :
         HowOften(lstPokes'["outcards"], card) <= HowOften(lstPokes["cards"], card)]_vars

=============================================================================
