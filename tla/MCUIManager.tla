----------------------------- MODULE MCUIManager -----------------------------
EXTENDS UIManager, TLC

CONSTANTS hall, table, lost, tips, warning, d1, d2

NormalWindows == {hall, table, lost}
PopupWindows == {tips, warning}
LostWindow == {lost}
TwoData == {d1, d2}

Symmetry ==
  Permutations({hall, table}) \cup Permutations({tips, warning}) \cup Permutations(TwoData)

=============================================================================
