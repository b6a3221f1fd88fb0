---------------------------- MODULE MC_Backtest ----------------------------
(***************************************************************************)
(* The champion with its committed ratios on short histories: the hold     *)
(* limit, the cadence and the cooldown are hours instead of days, so that  *)
(* they run out within the bound.                                          *)
(***************************************************************************)
EXTENDS Backtest

MC_Prices == {[a \in Assets |-> 1000]}

(* Prices that stay, part, or fall together. *)
MC_Moves ==
    {[a \in Assets |-> 0], [a \in Assets |-> IF a = 1 THEN 5 ELSE -5],
     [a \in Assets |-> -25]}

MC_Readings ==
    {[best |-> 0, size |-> 0, pick |-> 1], [best |-> 1, size |-> 30, pick |-> 1],
     [best |-> 2, size |-> 10, pick |-> 2]}

(* Both strategies, over a generated history from its first hour and over  *)
(* a week that starts on the challenger's cadence with a history behind it.*)
MC_Strategies == {"champion", "challenger"}
MC_Starts == {0, 4}
MC_Bounds == <<0, 2, 3, 5>>

(* One asset that is bought whenever it may be, and falls by a fifth. *)
MC_Falls == {[a \in Assets |-> 0], [a \in Assets |-> -20]}

MC_Eager == {[best |-> 1, size |-> 30, pick |-> 1]}

=============================================================================
