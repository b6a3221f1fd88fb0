-------------------------- MODULE MC_NonceManager --------------------------
(* Instances of NonceManager for TLC. *)
EXTENDS NonceManager

=============================================================================
