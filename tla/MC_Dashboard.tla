---------------------------- MODULE MC_Dashboard ----------------------------
(* Instances of the audit trail and its dashboard for TLC. *)
EXTENDS Dashboard

(* The loop runs the verifier's config; a second process, "cli tick" or    *)
(* the simulator, another one.                                             *)
MC_Config ==
    [p \in {"loop", "cli", "verifier"} |-> IF p = "cli" THEN "other" ELSE "committed"]

(* The loop alone, with a reset and a verifier; the loop alone, with the   *)
(* dashboard; two writers.                                                 *)
MC_Scenes ==
    {[crew |-> {"loop"}, resets |-> TRUE, verifies |-> TRUE, watched |-> FALSE],
     [crew |-> {"loop"}, resets |-> FALSE, verifies |-> FALSE, watched |-> TRUE],
     [crew |-> {"loop", "cli"}, resets |-> FALSE, verifies |-> FALSE, watched |-> FALSE]}

=============================================================================
