-------------------------- MODULE MCStatsStream --------------------------
EXTENDS StatsStream, TLC
Symmetry == Permutations(Conns)
===========================================================================
