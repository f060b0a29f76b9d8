------------------------- MODULE BackhaulRefinement -------------------------
(***************************************************************************)
(* The backhaul library implements the channel of BackhaulChannel.         *)
(***************************************************************************)
EXTENDS RtdoaBackhaul

Id(p) == <<p.src, p.seq>>

\* The package process_rx_data_queue has taken off the queue is still in the
\* channel: it has not been printed yet.
Taken == IF pc["main"] = "process" THEN <<om["main"]>> ELSE <<>>
InChannel == Taken \o rxq

Channel == INSTANCE BackhaulChannel WITH
  Remote <- Peer,
  Local <- Task,
  Nobody <- "none",
  Number <- 0 .. SeqMod - 1,
  First <- 0,
  Capacity <- Cardinality(Block),
  chan <- [i \in 1 .. Len(InChannel) |-> Id(InChannel[i])],
  heard <- last

\* Packages leave in the order they entered rxpkt_q, none appears twice or out
\* of nowhere, a received package equal to the one heard before it never
\* enters, and the pool bounds how many are inside, whatever the interleaving
\* of rx_complete_cb, rtdoa_local_send and process_rx_data_queue.
ImplementsChannel == Channel!Spec

\* Besides, no package is left behind in rxpkt_q: the main task gets to it
\* even when a putter is preempted between os_mqueue_put's two steps.
DeliversEverything == Channel!FairSpec
=============================================================================
