---------------------------- MODULE MCStreaming ----------------------------
(* Instances of Streaming for model checking. *)
EXTENDS Streaming
=============================================================================
