--------------------------- MODULE MCBlinkingNode ---------------------------
(* Instances of BlinkingNode for model checking. *)
EXTENDS BlinkingNode

\* Rates that are not negative: a negative one stops the callout for good.
NaturalRates == {0, 1, 2, 10, 300}
=============================================================================
