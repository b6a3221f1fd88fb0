--------------------------- MODULE MC_ChainBooks ---------------------------
(* Instances of ChainBooks for TLC. *)
EXTENDS ChainBooks

CONSTANTS btcb, cake, usdt

OneToken == <<btcb>>
TwoTokens == <<btcb, cake>>

=============================================================================
