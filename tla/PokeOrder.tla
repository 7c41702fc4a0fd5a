------------------------------ MODULE PokeOrder ------------------------------
(***************************************************************************)
(* Combinations are laid next to each other one at a time, so that what     *)
(* PokeCardsType.CompareTo answers about several of them can be related:    *)
(* the order has to be one a round of the game can be decided by.           *)
(***************************************************************************)
EXTENDS PokeTypes, Sequences

CONSTANT Combos        \* the combinations laid on the table
CONSTANT MaxCompared   \* how many of them are looked at together

ASSUME CombosAssumption == Combos \subseteq ClassifiedCombos
ASSUME MaxComparedAssumption == MaxCompared \in Nat

VARIABLE compared      \* the combinations that meet, in the order laid

Init == compared = <<>>

Lay(combo) ==
  /\ Len(compared) < MaxCompared
  /\ compared' = Append(compared, combo)

Next == \E combo \in Combos : Lay(combo)

Spec == Init /\ [][Next]_compared

-----------------------------------------------------------------------------
(* Only combinations the classifier can answer with meet.                    *)
TypeOK == compared \in Seq(Combos)

(* Who wins does not depend on who asks: CompareTo(a, b) and CompareTo(b, a) *)
(* have opposite signs for any two combinations on the table.                *)
CompareIsAntisymmetric ==
  \A i, j \in DOMAIN compared :
    CompareTo(compared[i], compared[j]) = -CompareTo(compared[j], compared[i])

(* A combination that beats one which beats a third also beats the third,    *)
(* across bombs, straights, flushes and runs led by A or 2: no cycle of      *)
(* winners exists although CompareTo leaves most pairs of types undecided.   *)
BeatsIsTransitive ==
  \A i, j, k \in DOMAIN compared :
    Beats(compared[i], compared[j]) /\ Beats(compared[j], compared[k])
      => Beats(compared[i], compared[k])

SameShape(left, right) ==
  /\ left.continuousNum = right.continuousNum
  /\ \/ left.type = right.type
     \/ {left.type, right.type} = StraightTypes

(* Only a bomb beats a combination of another shape: any other combination   *)
(* beats those of its own kind and length only.                              *)
OnlyBombsBeatOtherShapes ==
  \A i, j \in DOMAIN compared :
    Beats(compared[i], compared[j])
      => compared[i].type \in BombTypes \/ SameShape(compared[i], compared[j])

=============================================================================
