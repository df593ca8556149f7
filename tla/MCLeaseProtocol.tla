--------------------------- MODULE MCLeaseProtocol ---------------------------
\* Instances of LeaseProtocol for TLC.
EXTENDS LeaseProtocol, TLC

CONSTANTS e1, e2, s1, s2, c1, c2

\* Both sessions with one daemon.
OneDaemon == [s \in Sids |-> e1]

One == [kind \in {"active", "live"} |-> 1]
Two == [kind \in {"active", "live"} |-> IF kind = "active" THEN 1 ELSE 2]

Symmetry == Permutations({c1, c2})
=============================================================================
