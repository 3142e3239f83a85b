---------------------------- MODULE MCPluginConfig ----------------------------
(* Instances of PluginConfig for TLC.                                      *)
EXTENDS PluginConfig, TLC

CONSTANTS d1, d2, c1, c2, c3, r1, tickets, ai

OneDatabase == {d1}
TwoDatabases == {d1, d2}
TwoConfigures == {c1, c2}
ThreeConfigures == {c1, c2, c3}
OnePatch == {r1}
TwoModules == {tickets, ai}
Shipped == {tickets}

CallSymmetry ==
    Permutations(Databases) \cup Permutations(Configures) \cup Permutations(Requests)
==============================================================================
