------------------------------- MODULE MCNetSend -------------------------------
EXTENDS NetSend

\* Two bytes follow the length: the id 1 and a body.
ShortMessage == <<2, 1, 0>>

\* One that fits a buffer of four bytes, one that fills it, and one that grows it.
SomeMessages == {<<5>>, <<6, 6, 6>>, <<7, 7, 7, 7>>}

=============================================================================
