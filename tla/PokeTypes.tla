------------------------------ MODULE PokeTypes ------------------------------
(***************************************************************************)
(* The cards, the combination types of the game and the order between two  *)
(* combinations (struct Poke and struct PokeCardsType of Game/Core.cs).     *)
(***************************************************************************)
EXTENDS Integers

MIN == 3      \* the lowest number of a card
K   == 13
A   == 14
TWO == 15
MAX == 16     \* the number of a joker

SuitColors  == 1..4      \* CLUB, SPADE, DIAMOND, HEART
JokerColors == 5..6      \* BLACK, RED

Poke == [number : MIN..TWO, color : SuitColors]
          \cup [number : {MAX}, color : JokerColors]

\* The value of a Poke nobody assigned (the struct's default).
NoPoke == [number |-> 0, color |-> 0]

Sign(n) == IF n > 0 THEN 1 ELSE IF n < 0 THEN -1 ELSE 0

\* Poke.CompareTo: by number, jokers also by color, suits do not count.
PokeCompareTo(left, right) ==
  IF left.number = right.number /\ left.number = MAX
  THEN Sign(left.color - right.color)
  ELSE Sign(left.number - right.number)

GroupTypes == {"SINGLE", "PAIR", "TRIP", "TRIP_PAIR"}
StraightTypes == {"STRAIGHT", "FLUSH_STRAIGHT"}
RunTypes == StraightTypes
              \cup {"STRAIGHT_PAIR", "STRIGHT_TRIP", "STRIGHT_TRIP_PAIR"}
BombTypes == {"QUADS", "JOKER_QUADS"}
PokeCmbType == GroupTypes \cup RunTypes \cup BombTypes \cup {"ILLEGAL"}

\* PokeCardsType: the combination, its main card, how many in a row.
PokeCardsType ==
  [type : PokeCmbType, mainPoke : Poke \cup {NoPoke}, continuousNum : Nat]

\* The classifier sets continuousNum for runs and bombs only.
ClassifiedCombos ==
  {combo \in PokeCardsType : combo.type \in GroupTypes => combo.continuousNum = 0}

LedByAceOrTwo(combo) == combo.mainPoke.number \in {A, TWO}

\* Mutant: one of the four conditions forgets the 2.
CompareRunsForgetsTwo(left, right) ==
  IF left.mainPoke.number = A /\ ~LedByAceOrTwo(right) THEN -1
  ELSE IF LedByAceOrTwo(right) /\ ~LedByAceOrTwo(left) THEN 1
  ELSE PokeCompareTo(left.mainPoke, right.mainPoke)

\* A run led by A or 2 (A,2,3.. or 2,3,4..) is the lowest of its length.
CompareRuns(left, right) ==
  IF LedByAceOrTwo(left) /\ ~LedByAceOrTwo(right) THEN -1
  ELSE IF LedByAceOrTwo(right) /\ ~LedByAceOrTwo(left) THEN 1
  ELSE PokeCompareTo(left.mainPoke, right.mainPoke)

\* Mutant: runs of different lengths are compared by their main cards.
CompareSameTypeAnyLength(left, right) ==
  IF left.type \in RunTypes THEN CompareRuns(left, right)
  ELSE PokeCompareTo(left.mainPoke, right.mainPoke)

\* PokeCardsType.CompareTo, both combinations of one type.
CompareSameType(left, right) ==
  LET type == left.type
      sameLength == left.continuousNum = right.continuousNum
      mains == PokeCompareTo(left.mainPoke, right.mainPoke)
  IN IF type \in GroupTypes THEN mains
     ELSE IF type \in RunTypes /\ sameLength THEN
       (IF type \in StraightTypes \/ left.continuousNum > 2
        THEN CompareRuns(left, right) ELSE mains)
     ELSE IF type = "QUADS" THEN
       (IF sameLength THEN mains ELSE Sign(left.continuousNum - right.continuousNum))
     ELSE 0

\* Mutant: the bomb on the right-hand side is forgotten.
CompareOtherTypeLeftOnly(left, right) ==
  IF left.type = "JOKER_QUADS" THEN 1
  ELSE IF right.type = "JOKER_QUADS" THEN -1
  ELSE IF left.type = "QUADS" THEN 1
  ELSE 0

\* PokeCardsType.CompareTo, combinations of two types.
CompareOtherType(left, right) ==
  LET sameLength == left.continuousNum = right.continuousNum
  IN IF left.type = "JOKER_QUADS" THEN 1
     ELSE IF right.type = "JOKER_QUADS" THEN -1
     ELSE IF left.type = "QUADS" THEN 1
     ELSE IF right.type = "QUADS" THEN -1
     ELSE IF sameLength /\ left.type = "FLUSH_STRAIGHT" /\ right.type = "STRAIGHT" THEN 1
     ELSE IF sameLength /\ right.type = "FLUSH_STRAIGHT" /\ left.type = "STRAIGHT" THEN -1
     ELSE 0

CompareTo(left, right) ==
  IF left.type = right.type THEN CompareSameType(left, right)
                            ELSE CompareOtherType(left, right)

\* operator >
Beats(left, right) == CompareTo(left, right) > 0

=============================================================================
