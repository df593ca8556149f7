---------------------------- MODULE MCRetirement ----------------------------
\* Instances of Retirement for TLC.
EXTENDS Retirement, TLC

CONSTANTS g1, g2, e1, e2, e3, s1, s2, t1

Symmetry == Permutations({g1, g2} \cap Gens) \cup Permutations({e1, e2, e3} \cap Epochs)
              \cup Permutations({s1, s2} \cap Sessions)
=============================================================================
