-------------------------- MODULE MCBroadcaster --------------------------
EXTENDS Broadcaster, TLC
Symmetry == Permutations(Conns)
===========================================================================
