--------------------------- MODULE MCCachePersist ---------------------------
EXTENDS CachePersist
KeySymmetry == Permutations(Keys)
=============================================================================
