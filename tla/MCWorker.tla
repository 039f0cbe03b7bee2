------------------------------ MODULE MCWorker ------------------------------
EXTENDS Worker, TLC
McEvMask == {{"in"}}
Symmetry == Permutations(Thread) \cup Permutations(Res)
=============================================================================
