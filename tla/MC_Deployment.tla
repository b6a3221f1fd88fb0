--------------------------- MODULE MC_Deployment ---------------------------
(* Instances of Deployment for TLC. *)
EXTENDS Deployment

(* The seeds and the reseed with a fixed config, the configs without them, *)
(* and a keystore that does not decode.                                    *)
Cutover == {[wallet |-> TRUE, force |-> f, seed |-> s, backend |-> "twak",
             strategy |-> "unset"] :
                f \in BOOLEAN, s \in {"none", "good", "bad"}}

Configs == {[wallet |-> TRUE, force |-> FALSE, seed |-> "none", backend |-> b,
             strategy |-> c] :
                b \in {"injective", "twak"},
                c \in {"unset", "empty", "strategy.json", "strategy.injective.json"}}

BadKeys == {[wallet |-> FALSE, force |-> FALSE, seed |-> "none",
             backend |-> "twak", strategy |-> "unset"]}

SomeEnvs == Cutover \cup Configs \cup BadKeys

OneEnv == {[wallet |-> TRUE, force |-> FALSE, seed |-> "none",
            backend |-> "twak", strategy |-> "unset"]}

=============================================================================
