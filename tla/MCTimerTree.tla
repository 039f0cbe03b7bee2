---------------------------- MODULE MCTimerTree ----------------------------
EXTENDS TimerTree, TLC

Symmetry == Permutations(Node)
=============================================================================
