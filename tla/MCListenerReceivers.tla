------------------------ MODULE MCListenerReceivers ------------------------
(* Instances of ListenerReceivers for model checking. *)
EXTENDS ListenerReceivers

MCBuilds == BOOLEAN
=============================================================================
