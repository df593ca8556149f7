------------------------------- MODULE MCBoard -------------------------------
EXTENDS Board, TLC

CONSTANTS a1, a2, me, you

MCOwnerOf == [s \in Sessions |-> me]
=============================================================================
