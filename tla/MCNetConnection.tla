--------------------------- MODULE MCNetConnection ---------------------------
EXTENDS NetConnection

\* Two bytes follow the length: the id 1 and a body.
ShortMessage == <<2, 1, 0>>

=============================================================================
