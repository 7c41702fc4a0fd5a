---------------------------- MODULE MCNetBuffers ----------------------------
EXTENDS NetBuffers

\* Ints of two bytes, of either sign, the extremes included.
SmallNumbers == {-4, -1, 1, 4}

SmallArrays == {<<>>, <<1>>, <<0, 2>>}

=============================================================================
