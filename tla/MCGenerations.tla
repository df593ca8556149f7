---------------------------- MODULE MCGenerations ----------------------------
\* Instances of Generations for TLC.
EXTENDS Generations, TLC

CONSTANTS g1, g2, g3, e1, e2, e3, t1, t2

Symmetry == Permutations({g1, g2, g3} \cap Gens) \cup Permutations({e1, e2, e3} \cap Epochs)
=============================================================================
