--------------------------- MODULE MC_Connections ---------------------------
EXTENDS Connections

CONSTANTS a1, a2
=============================================================================
