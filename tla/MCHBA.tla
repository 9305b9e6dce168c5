------------------------------- MODULE MCHBA -------------------------------
(* Instances of HBA for TLC. *)
EXTENDS HBAInv, TLC

CONSTANTS c1, c2, c3, o1, v1, v2, n1, n2, n3

MCOne == {c1}
MCOneNumber == {n1}
MCTwo == {c1, c2}
MCThree == {c1, c2, c3}
MCNoOther == {}
MCOther == {o1}
MCVolume == {v1}
MCVolumes == {v1, v2}
MCTwoNumbers == {n1, n2}
MCNumbers == {n1, n2, n3}
MCSymmetry ==
  Permutations(Calls) \cup Permutations(Volumes) \cup Permutations(Numbers)
=============================================================================
