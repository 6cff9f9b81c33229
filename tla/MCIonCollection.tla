-------------------------- MODULE MCIonCollection --------------------------
(* Instances of IonCollection for TLC. *)
EXTENDS IonCollection, TLC

CONSTANTS c1, c2, n1, n2, n3, n4, v1, v2

TwoColls   == {c1, c2}
FourNodes  == {n1, n2, n3, n4}
TwoVals    == {v1, v2}

(* Nodes and values carry no order: the next-state relation treats them all *)
(* alike, and every property the run checks is an invariant, an action      *)
(* property or a refinement, never a liveness property.                     *)
Symmetric == Permutations(FourNodes) \cup Permutations(TwoVals)
=============================================================================
