----------------------------- MODULE MCNetEvents -----------------------------
EXTENDS NetEvents

CONSTANTS callback, receiver

AllThreads == {Main, callback, receiver}

=============================================================================
