--------------------------- MODULE MCBingXAdapter ---------------------------
(* Instances of BingXAdapter for TLC.                                       *)
EXTENDS BingXAdapter, TLC

CONSTANTS o1, btc, eth

MCSymbolOrder == <<btc, eth>>
=============================================================================
