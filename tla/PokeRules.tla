------------------------------ MODULE PokeRules ------------------------------
(***************************************************************************)
(* Core.GetPokeCarsdType (Game/Core.cs): which combination a list of cards  *)
(* is. The list is sorted in place first, so a hand is kept in sort order;  *)
(* cards of one number are interchangeable but for the flush test and the   *)
(* color of a joker, and are kept in the order of CompareForDisplay.        *)
(*                                                                         *)
(* A hand grows card by card, each card any that Core.GenerateOnePoke may   *)
(* draw (it draws with replacement).                                        *)
(***************************************************************************)
EXTENDS PokeTypes, FiniteSets, SequencesExt

CONSTANT Games   \* the games: the cards drawn from, how many, with one deck or several

ASSUME GamesAssumption ==
  Games \subseteq [deck : SUBSET Poke, maxMine : Nat, isOnePeckOfCards : BOOLEAN]

\* Poke.CompareTo < 0: by number, and jokers by color.
SortsBefore(left, right) == PokeCompareTo(left, right) < 0

\* List.Sort of a hand, sorted before, to which a card was added. The sort may lay
\* equal cards in any order: the card lands anywhere among its equals.
Sortings(hand, poke) ==
  {InsertAt(hand, at, poke) : at \in
     {place \in 1..(Len(hand) + 1) : \A i \in DOMAIN hand :
        /\ i < place => ~SortsBefore(poke, hand[i])
        /\ i >= place => ~SortsBefore(hand[i], poke)}}

Combo(type, mainPoke, continuousNum) ==
  [type |-> type, mainPoke |-> mainPoke, continuousNum |-> continuousNum]

Illegal == Combo("ILLEGAL", NoPoke, 0)

\* No combination: the division by zero of an empty list, the index past
\* pokeTypeCounts of more than eight equal cards.
Throws == Combo("THROWS", NoPoke, 0)

-----------------------------------------------------------------------------
\* Mutant: the numbers 0 to 2, which no card has, are not skipped on the way down.
CardsInRunNoSkip(counts, first, k, groups, perGroup) ==
  LET up   == {i \in 0..(groups - 1) : counts[(i + first) % MAX] = k}
      down == {i \in 1..(groups - 1) : counts[(first + MAX - i) % MAX] = k}
  IN perGroup * (Cardinality(up) + Cardinality(down))

\* Step four: the cards whose number is found k times, counted from the first
\* such number upwards and, for a run that passes from 2 to 3, downwards.
CardsInRun(counts, first, k, groups, perGroup) ==
  LET up   == {i \in 0..(groups - 1) : counts[(i + first) % MAX] = k}
      down == {i \in 1..(groups - 1) : counts[(first + MAX - i - 3) % MAX] = k}
  IN perGroup * (Cardinality(up) + Cardinality(down))

\* Mutant: only single cards are looked at.
HasKingAceTwoThreeOnce(counts, k) == \A n \in {MIN, K, A, TWO} : counts[n] = 1

\* K, A, 2, 3 is not continuous.
HasKingAceTwoThree(counts, k) == \A n \in {MIN, K, A, TWO} : counts[n] = k

\* Steps two to four of the classifier: the counts and what follows from them.
Profile(cards) ==
  LET size   == Len(cards)
      counts == [n \in 0..MAX |->
                   Cardinality({i \in DOMAIN cards : cards[i].number = n})]
      most   == Max({counts[n] : n \in MIN..TWO})
      \* four jokers may be the two pairs of a plane
      fourJokers == size > 4 /\ counts[MAX] = 4 /\ most < 4
      maxSame == IF fourJokers \/ most >= counts[MAX] THEN most ELSE counts[MAX]
      maxNo   == Min({n \in MIN..MAX : counts[n] = maxSame})
      kinds   == [k \in 2..3 |->
                    Cardinality({n \in MIN..MAX : counts[n] = k})
                      + IF fourJokers /\ k = 2 THEN 2 ELSE 0]
      plane   == maxSame = 3 /\ kinds[3] > 1 /\ kinds[2] = kinds[3]
      perGroup == IF plane THEN 5 ELSE maxSame
      continues ==
        /\ CardsInRun(counts, maxNo, maxSame, size \div perGroup, perGroup) = size
        /\ ~HasKingAceTwoThree(counts, maxSame)
      AllMax(S) == \A n \in S : counts[n] = maxSame
  IN [cards |-> cards, size |-> size, maxSame |-> maxSame, maxNo |-> maxNo,
      maxSamePos |-> Cardinality({i \in DOMAIN cards : cards[i].number < maxNo}),
      kinds |-> kinds, jokers |-> counts[MAX], continues |-> continues,
      crossA23 |-> continues /\ AllMax({MIN, A, TWO}),
      cross23  |-> continues /\ AllMax({MIN, TWO}) /\ ~AllMax({A})]

MainPoke(p) == p.cards[p.maxSamePos + 1]

\* Mutant: a run led by an ace is taken for one led by a two.
LeadOfRunTwo(p, k, above) ==
  IF p.crossA23 \/ p.cross23 THEN p.cards[p.size - k - above + 1] ELSE MainPoke(p)

\* The first card of a run of groups of k equal cards, `above` cards sorting
\* after the run.
LeadOfRun(p, k, above) ==
  CASE p.crossA23 -> p.cards[p.size - 2 * k - above + 1]
    [] p.cross23  -> p.cards[p.size - k - above + 1]
    [] OTHER      -> MainPoke(p)

SingleOrStraight(p) ==
  CASE p.size = 1 -> Combo("SINGLE", p.cards[1], 0)
    [] p.continues /\ p.size >= 5 ->
         LET flush == \A i \in DOMAIN p.cards : p.cards[i].color = MainPoke(p).color
         IN Combo(IF flush THEN "FLUSH_STRAIGHT" ELSE "STRAIGHT",
                  LeadOfRun(p, 1, 0), p.size)
    [] OTHER -> Illegal

PairOrPairs(p, isOnePeckOfCards) ==
  CASE p.size = 2 ->
         Combo(CASE p.maxNo = MAX /\ isOnePeckOfCards -> "JOKER_QUADS"
                 [] p.maxNo = MAX /\ ~isOnePeckOfCards
                      /\ p.cards[1].color # p.cards[2].color -> "ILLEGAL"
                 [] OTHER -> "PAIR",
               p.cards[1], 0)
    [] p.size % 2 = 0 /\ p.continues /\ p.size >= 6 ->
         Combo("STRAIGHT_PAIR", LeadOfRun(p, 2, 0), p.size \div 2)
    [] OTHER -> Illegal

\* Mutant: three jokers are a trip.
TripOrTripsOfJokers(p) ==
  IF p.size = 3 THEN Combo("TRIP", MainPoke(p), 0) ELSE Illegal

\* Mutant: a trip keeps its length like a bomb.
TripOrTripsLength(p) ==
  IF p.size = 3 THEN Combo("TRIP", MainPoke(p), 3) ELSE Illegal

TripOrTrips(p) ==
  LET ofRank(type) == IF MainPoke(p).number = MAX THEN Illegal
                      ELSE Combo(type, MainPoke(p), 0)
      tripPair == p.size = 5 /\ p.kinds[2] = 1
      allTrips == p.continues /\ p.size >= 6 /\ p.kinds[3] * 3 = p.size
      planes   == p.continues /\ p.kinds[2] = p.kinds[3] /\ p.kinds[2] * 5 = p.size
  IN CASE p.size = 3 -> ofRank("TRIP")
       [] tripPair -> ofRank("TRIP_PAIR")
       [] allTrips -> Combo("STRIGHT_TRIP", LeadOfRun(p, 3, p.jokers), p.size \div 3)
       [] p.size # 3 /\ ~tripPair /\ ~allTrips /\ planes ->
            Combo("STRIGHT_TRIP_PAIR",
                  IF p.crossA23 THEN p.cards[p.size - 5] ELSE MainPoke(p),
                  p.size \div 5)
       [] OTHER -> Illegal

\* maxSamePos, a place in the list, is compared with the number of a joker.
Quads(p) ==
  CASE p.maxSame = 4 /\ p.maxSamePos = MAX -> Combo("JOKER_QUADS", NoPoke, 0)
    [] ~(p.maxSame = 4 /\ p.maxSamePos = MAX) /\ p.size = p.maxSame ->
         Combo("QUADS", MainPoke(p), p.maxSame)
    [] OTHER -> Illegal

MostEqual(cards) ==
  Max({Cardinality({i \in DOMAIN cards : cards[i].number = n}) : n \in MIN..MAX})

GetPokeCarsdType(cards, isOnePeckOfCards) ==
  IF MostEqual(cards) \notin 1..8 THEN Throws
  ELSE LET p == Profile(cards)
       IN CASE p.maxSame = 1 -> SingleOrStraight(p)
            [] p.maxSame = 2 -> PairOrPairs(p, isOnePeckOfCards)
            [] p.maxSame = 3 -> TripOrTrips(p)
            [] p.maxSame \in 4..8 -> Quads(p)

-----------------------------------------------------------------------------
VARIABLES
  mine,    \* the hand, as sorted in place
  game     \* the game it is drawn for

HandsInit == mine = <<>> /\ game \in Games

GenerateOnePoke(poke) ==
  /\ Len(mine) < game.maxMine
  /\ mine' \in Sortings(mine, poke)
  /\ UNCHANGED game

HandsNext == \E poke \in game.deck : GenerateOnePoke(poke)

HandsSpec == HandsInit /\ [][HandsNext]_<<mine, game>>

-----------------------------------------------------------------------------
MyType == GetPokeCarsdType(mine, game.isOnePeckOfCards)

Numbers(cards) == {cards[i].number : i \in DOMAIN cards}
Times(cards, n) == Cardinality({i \in DOMAIN cards : cards[i].number = n})
EachTimes(cards, k) == \A n \in Numbers(cards) : Times(cards, n) = k

\* The numbers that follow `head` in the order 3, 4, .., K, A, 2, 3, ..
Following(head, length) ==
  {MIN + ((head - MIN + i) % (MAX - MIN)) : i \in 0..(length - 1)}

\* The rules of the game for runs: consecutive, 2 before 3 and A before 2,
\* but never K, A, 2, 3.
LeadsRun(head, S) == S = Following(head, Cardinality(S))
IsRun(S) ==
  /\ S \subseteq MIN..TWO
  /\ \E head \in S : LeadsRun(head, S)
  /\ ~({K, A, TWO, MIN} \subseteq S)

\* The numbers that make up the run of a combination, pairs of a plane apart.
RunNumbers(cards, type) ==
  IF type = "STRIGHT_TRIP_PAIR"
  THEN {n \in Numbers(cards) : Times(cards, n) = 3} ELSE Numbers(cards)

\* The rules of the game for combinations that are not runs.
IsGroup(cards, type) ==
  LET equal == Cardinality(Numbers(cards)) = 1
      jokers == MAX \in Numbers(cards)
  IN CASE type = "SINGLE" -> Len(cards) = 1
       [] type = "PAIR" ->
            /\ Len(cards) = 2 /\ equal
            /\ jokers => ~game.isOnePeckOfCards /\ cards[1].color = cards[2].color
       [] type = "TRIP" -> Len(cards) = 3 /\ equal /\ ~jokers
       [] type = "TRIP_PAIR" ->
            /\ Len(cards) = 5
            /\ {Times(cards, n) : n \in Numbers(cards)} = {2, 3}
            /\ Times(cards, MAX) # 3
       [] type = "QUADS" -> Len(cards) \in 4..8 /\ equal /\ ~(jokers /\ Len(cards) = 4)
       [] type = "JOKER_QUADS" ->
            equal /\ jokers /\ (Len(cards) = 4 \/ (Len(cards) = 2 /\ game.isOnePeckOfCards))

\* The bomb of jokers of two decks.
FourJokersAlone == Len(mine) = 4 /\ IsGroup(mine, "JOKER_QUADS")

-----------------------------------------------------------------------------
(* The classifier answers with a combination the order knows: the main card   *)
(* and the length that go with the type. The cards stay cards.                *)
HandsTypeOK ==
  /\ mine \in Seq(Poke) /\ game \in Games
  /\ MyType \in ClassifiedCombos \cup {Throws}

(* The branches on counts, the joker exceptions and the one-deck flag of     *)
(* GetPokeCarsdType name a single, pair, trip, full house or bomb exactly    *)
(* when the cards are one. Two kinds of hands are left out, for the code       *)
(* compares a place in the list with the number of a joker (see Quads): four   *)
(* jokers alone, which it does not take for the bomb of jokers, and MAX + 4    *)
(* cards or more, where four equal ones behind 16 others are taken for it.     *)
GroupsMatchRules ==
  mine # <<>> /\ ~FourJokersAlone /\ Len(mine) < MAX + 4 =>
    \A type \in GroupTypes \cup BombTypes : MyType.type = type <=> IsGroup(mine, type)

\* Of eight pairs or more the two loops of CardsInRun look at some numbers
\* twice, and cards that are no run can be counted as one.
LoopsApart == MyType.type = "STRAIGHT_PAIR" => Len(mine) < MAX

(* "K, A, 2, 3" is no run, alone or inside a longer one, and the modular      *)
(* counting of the classifier's fourth step leaves no gap where it does not   *)
(* wrap: with no card above 9 a run is made of consecutive cards.             *)
RunsFollowTheRules ==
  LET numbers == RunNumbers(mine, MyType.type)
  IN MyType.type \in RunTypes =>
       /\ LoopsApart => ~({K, A, TWO, MIN} \subseteq numbers)
       /\ (\A n \in Numbers(mine) : n <= 9) => IsRun(numbers)

(* Every run of up to seven groups is recognised, wherever it wraps.         *)
ShortRunsAreRecognised ==
  \A k \in 1..3 :
    /\ mine # <<>> /\ EachTimes(mine, k) /\ IsRun(Numbers(mine))
    /\ Cardinality(Numbers(mine)) \in (CASE k = 1 -> 5..7 [] k = 2 -> 3..7 [] k = 3 -> 2..7)
    => MyType.type \in RunTypes /\ MyType.continuousNum * k = Len(mine)

(* The main card of a true run is its first card, also when the run wraps    *)
(* from A or 2 to 3 and the list is sorted with 3 first.                      *)
MainPokeLeadsTheRun ==
  LET numbers == RunNumbers(mine, MyType.type)
  IN MyType.type \in RunTypes \ {"STRIGHT_TRIP_PAIR"} /\ LoopsApart /\ IsRun(numbers)
       => LeadsRun(MyType.mainPoke.number, numbers)

(* "Are these cards continuous": a run is made of consecutive cards only.     *)
RunsAreConsecutive ==
  MyType.type \in RunTypes => IsRun(RunNumbers(mine, MyType.type))

=============================================================================
