---------------------------- MODULE MCSettlement ----------------------------
EXTENDS Settlement

CONSTANTS a, b
=============================================================================
