---------------------------- MODULE MCServerCaches ----------------------------
EXTENDS ServerCaches, TLC
Sym == Permutations(Reqs)
=============================================================================
