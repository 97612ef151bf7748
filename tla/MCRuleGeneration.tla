-------------------------- MODULE MCRuleGeneration --------------------------
\* Model checking of RuleGeneration: editors, queries and texts are interchangeable.
EXTENDS RuleGeneration, TLC

Symmetry == Permutations(Editors) \cup Permutations(Queries) \cup Permutations(Texts)

\* States after a rebuild has overtaken another, of which nothing is claimed, are checked and
\* not gone beyond; nor are states with an entry in both tables: no entry depends on one in the
\* other table, which may expire first.
Explored == ~overtaken /\ (cache = Nothing \/ names = Nothing)
=============================================================================
