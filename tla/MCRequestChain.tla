---------------------------- MODULE MCRequestChain ----------------------------
EXTENDS RequestChain, TLC
Sym == Permutations(Reqs)
=============================================================================
