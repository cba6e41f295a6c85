---------------------------- MODULE MCNetManager ----------------------------
EXTENDS NetManager

CONSTANTS home, typo

MCNets == {home, typo}
MCGoodNets == {home}
=============================================================================
