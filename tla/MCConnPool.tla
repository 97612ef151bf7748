----------------------------- MODULE MCConnPool -----------------------------
EXTENDS ConnPool, TLC

\* No value of these sets is told from another.
Symmetry ==
    Permutations(Callers) \cup Permutations(Keys) \cup Permutations(Entries) \cup Permutations(Conns)
=============================================================================
