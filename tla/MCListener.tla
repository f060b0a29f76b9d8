----------------------------- MODULE MCListener -----------------------------
(* Instances of Listener for model checking. *)
EXTENDS Listener

CONSTANTS f1, f2
=============================================================================
