--------------------------- MODULE MC_TrailScript ---------------------------
(***************************************************************************)
(* Small instances: caps of 4 dollars and one trade an hour.              *)
(***************************************************************************)
EXTENDS TrailScript

MC_Risk == [max_single_trade_usd |-> 4, max_trades_per_hour |-> 1]

MC_Lower == {<<"max_single_trade_usd", 0>>, <<"max_trades_per_hour", 0>>}

=============================================================================
