---------------------------- MODULE MCRtdoaTag ----------------------------
(* Instances of RtdoaTag for model checking. *)
EXTENDS RtdoaTag
=============================================================================
