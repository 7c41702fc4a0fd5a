----------------------------- MODULE MCPokeRules -----------------------------
EXTENDS PokeRules

Card(n, c) == [number |-> n, color |-> c]
Suited(numbers, colors) == {Card(n, c) : n \in numbers, c \in colors}
BlackJoker == Card(MAX, 5)
RedJoker == Card(MAX, 6)

\* Every number of one suit, the two jokers: every set of counts. A card of
\* another suit tells straights from flushes.
AllNumbers == Suited(MIN..TWO, {1}) \cup {Card(7, 2), BlackJoker, RedJoker}

\* The numbers around the wrap from 2 to 3, and a joker.
WrapNumbers == Suited({MIN, 4, K, A, TWO}, {1}) \cup {BlackJoker}

Game(deck, maxMine, isOnePeckOfCards) ==
  [deck |-> deck, maxMine |-> maxMine, isOnePeckOfCards |-> isOnePeckOfCards]

OneDeck == {Game(AllNumbers, 5, TRUE)}
ShortAndWrapping == {Game(AllNumbers, 6, TRUE), Game(WrapNumbers, 12, FALSE)}

=============================================================================
