------------------------ MODULE MC_AbstentionLedger ------------------------
(* Instances of AbstentionLedger for TLC. *)
EXTENDS AbstentionLedger

=============================================================================
