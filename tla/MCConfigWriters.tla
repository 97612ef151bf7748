--------------------------- MODULE MCConfigWriters ---------------------------
EXTENDS ConfigWriters, TLC

Symmetry == Permutations(Calls)

SubmittedKeys == {{"scalars"}, {"scalars", "rules"}, {"upstreams", "rule_subscriptions"}}
=============================================================================
