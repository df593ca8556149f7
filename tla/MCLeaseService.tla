--------------------------- MODULE MCLeaseService ---------------------------
\* The lease service with any clients: two epochs, three tokens.
EXTENDS LeaseService, TLC

CONSTANTS e1, e2, s1

OneSlot  == [kind \in {"active", "live"} |-> IF kind = "active" THEN 1 ELSE 2]
Symmetry == Permutations({e1, e2})
=============================================================================
