------------------------ MODULE MCBackhaulRefinement ------------------------
(* Instances of BackhaulRefinement for model checking. *)
EXTENDS BackhaulRefinement

CONSTANTS b1, b2, p1

Blocks2 == {b1, b2}
Peers1 == {p1}
OneListen == {<<1, 0>>}
=============================================================================
