--------------------------- MODULE MC_ClientMiner ---------------------------
EXTENDS ClientMiner

CONSTANTS t1, t2
=============================================================================
