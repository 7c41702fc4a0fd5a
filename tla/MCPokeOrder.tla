----------------------------- MODULE MCPokeOrder -----------------------------
EXTENDS PokeOrder

Mains == {[number |-> n, color |-> 1] : n \in {MIN, A, TWO}}
Joker(c) == [number |-> MAX, color |-> c]

Of(types, mains, lengths) ==
  [type : types, mainPoke : mains, continuousNum : lengths]

\* Every type, led by a low card, an ace or a two, of two lengths each.
SomeCombos ==
  Of({"SINGLE"}, Mains \cup {Joker(5), Joker(6)}, {0})
    \cup Of(GroupTypes \ {"SINGLE"}, Mains, {0})
    \cup Of(StraightTypes, Mains, {5, 6})
    \cup Of({"STRIGHT_TRIP"}, Mains, {2, 3})
    \cup Of({"STRAIGHT_PAIR", "STRIGHT_TRIP_PAIR"}, Mains, {3})
    \cup Of({"QUADS"}, Mains, {4, 5})
    \cup Of({"JOKER_QUADS"}, {Joker(5)}, {0})
    \cup Of({"ILLEGAL"}, {NoPoke}, {0})

=============================================================================
