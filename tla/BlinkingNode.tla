---------------------------- MODULE BlinkingNode ----------------------------
(***************************************************************************)
(* The firmware of apps/tdoa_tag: main starts the Bluetooth peripheral and *)
(* the blink callout, and hands over to the event queue.  The two share no *)
(* state.  Whichever task NimBLE gives its host, a handler of the tag may  *)
(* come between any two steps of bleprph's.                                *)
(***************************************************************************)
EXTENDS TdoaTag, Bleprph

nodeVars == <<tagVars, vars>>

\* ble_init, then init_timer.
NodeInit == Init /\ TagInit

NodeNext ==
  \/ TagNext /\ UNCHANGED vars
  \/ Next /\ UNCHANGED tagVars

NodeSpec == NodeInit /\ [][NodeNext]_nodeVars

FairNodeSpec == NodeSpec /\ TagFairness /\ Fairness
=============================================================================
