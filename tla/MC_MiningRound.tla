--------------------------- MODULE MC_MiningRound ---------------------------
EXTENDS MiningRound, TLC

CONSTANTS c1, c2, p1, p2

OneWallet == c1 :> p1
TwoWallets == (c1 :> p1) @@ (c2 :> p2)
=============================================================================
