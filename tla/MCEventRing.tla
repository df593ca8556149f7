----------------------------- MODULE MCEventRing -----------------------------
EXTENDS EventRing, TLC

CONSTANTS a1, b1, me, you

MCOwnerOf == [s \in Sessions |-> IF s = b1 THEN you ELSE me]
=============================================================================
