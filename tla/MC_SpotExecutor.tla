-------------------------- MODULE MC_SpotExecutor --------------------------
(***************************************************************************)
(* A contract with a few dollars and lots, prices further apart than the   *)
(* slippage, and decimals that differ between the tokens and from the      *)
(* format of the orders.                                                   *)
(***************************************************************************)
EXTENDS SpotExecutor

MC_Unit == [d \in Denoms |-> IF d = "INJ" THEN 100 ELSE 10]

MC_Seed == [d \in Denoms |-> IF d = "INJ" THEN 4 ELSE 150]

MC_Reserve == [d \in Denoms |-> IF d = "INJ" THEN 1 ELSE 0]

MC_Amounts == {<<"INJ", 1>>, <<"USDT", 100>>}

=============================================================================
