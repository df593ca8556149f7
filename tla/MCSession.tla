------------------------------ MODULE MCSession ------------------------------
\* Instances of Session for TLC.
EXTENDS Session, TLC

CONSTANTS c1, c2, m1, m2

\* The callers are alike, and so are the menus.
Symmetry == Permutations({c1, c2}) \cup Permutations({m1, m2})
=============================================================================
