---------------------------- MODULE MCCardZones ----------------------------
EXTENDS CardZones

\* Hands of one to three cards, out of order and with two equal cards.
SomeHands == {<<2, 1>>, <<1>>, <<2, 1, 1>>}

=============================================================================
