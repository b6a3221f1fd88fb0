------------------------------ MODULE MC_Desk ------------------------------
(***************************************************************************)
(* The desk with the committed Injective config (strategy.injective.json). *)
(* A lot is a hundredth of an INJ at twenty dollars, twenty cents.         *)
(***************************************************************************)
EXTENDS Desk

MC_Ladder ==
    {[at |-> 1, action |-> "halve_size"],
     [at |-> 2, action |-> "no_new_risk"],
     [at |-> 3, action |-> "stablecoin_mode"]}

MC_Pairs == {<<"USDT", "INJ">>, <<"INJ", "USDT">>}

MC_Signals ==
    {[known |-> TRUE, s1 |-> 1, s4 |-> 1, vol |-> 0],
     [known |-> TRUE, s1 |-> 1, s4 |-> -1, vol |-> 2]}

(* A volatile up-trend besides: a smaller entry. *)
MC_Readings == MC_Signals \cup {[known |-> TRUE, s1 |-> 1, s4 |-> 1, vol |-> 2]}

MC_Moves == {-1, 0, 1}

(* Up to a fifth of the price between two ticks. *)
MC_Drops == {-5, -4, 0, 4, 5}

(* A tenth of it. *)
MC_Swings == {-2, 0, 2}

=============================================================================
