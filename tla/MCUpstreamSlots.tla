--------------------------- MODULE MCUpstreamSlots ---------------------------
EXTENDS UpstreamSlots

CONSTANTS r1, r2, r3, r4, r5

MCRequests == {r1, r2, r3, r4, r5}
==============================================================================
