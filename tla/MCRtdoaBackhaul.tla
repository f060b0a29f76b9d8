-------------------------- MODULE MCRtdoaBackhaul --------------------------
(* Instances of RtdoaBackhaul for model checking. *)
EXTENDS RtdoaBackhaul

CONSTANTS b1, b2, p1

Blocks2 == {b1, b2}
Peers1 == {p1}

\* With TimeoutMod = 1 every timeout is zero: g_to_dx_time is set and cleared,
\* and the timeout register plays no part.
OneListen == {<<1, 0>>}
=============================================================================
