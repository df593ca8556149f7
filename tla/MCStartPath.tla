---------------------------- MODULE MCStartPath ----------------------------
(* Small instances of StartPath for TLC.                                   *)
EXTENDS StartPath, TLC

CONSTANTS k1, k2, q1, q2, s1, s2, e1, e2, g1, g2, h1, h2

TwoGenerations == e1 :> g1 @@ e2 :> g2
OneGeneration  == e1 :> g1

\* Session ids, requests and threads are interchangeable, and so are the two
\* generations when each takes its epoch along.
Symmetry == Permutations({s1, s2}) \cup Permutations({q1, q2}) \cup Permutations({h1, h2})
              \cup {e1 :> e2 @@ e2 :> e1 @@ g1 :> g2 @@ g2 :> g1}
=============================================================================
