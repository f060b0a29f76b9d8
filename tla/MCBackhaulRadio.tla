--------------------------- MODULE MCBackhaulRadio ---------------------------
(* Instances of BackhaulRadio for model checking. *)
EXTENDS BackhaulRadio

CONSTANTS b1, p1
=============================================================================
