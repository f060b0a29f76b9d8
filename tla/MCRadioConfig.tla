---------------------------- MODULE MCRadioConfig ----------------------------
\* Every application; or twr_nranges_tdma or twr_node_tdma alone.
EXTENDS RadioConfig

MCApps == Applications
MCTwrNranges == {TwrNranges}
MCTwrNode == {TwrNode}
MCDeafness == BOOLEAN
==============================================================================
