------------------------ MODULE MCResourceLifecycle ------------------------
(* Names for the small instances of ResourceLifecycle.                     *)
EXTENDS ResourceLifecycle, TLC

CONSTANTS b1, b2, n1, n2, n3, v1, v2

Blocks == {b1, b2}
TwoNames == {n1, n2}
ThreeNames == {n1, n2, n3}
OneValue == {v1}
TwoValues == {v1, v2}

\* Names and values are alike, and so are blocks none of which is imported.
Symmetry == Permutations(Name) \cup Permutations(Value)
=============================================================================
