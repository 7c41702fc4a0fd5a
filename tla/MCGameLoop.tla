------------------------------ MODULE MCGameLoop ------------------------------
EXTENDS GameLoop

CONSTANTS started, h1, h2

OneEvent == {started}
TwoHandlers == {h1, h2}

=============================================================================
