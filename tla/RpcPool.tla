------------------------------ MODULE RpcPool ------------------------------
(***************************************************************************)
(* The pool of JSON-RPC endpoints (agent/ops/rpc.py).  Endpoints are       *)
(* numbered in the order the pool tries them.  A call is synchronous and   *)
(* one thread makes them all, so it is one step: the candidates before the *)
(* first one that gives a valid answer fail and start to cool down.        *)
(*                                                                         *)
(* cooling is what is left of unhealthy_until - now, and 0 once it is over.*)
(* Latency and fail_count are diagnostics and left out.                    *)
(***************************************************************************)
EXTENDS Integers

CONSTANTS
    NEndpoints,
    Cooldown     \* cooldown_s, in ticks of the clock

ASSUME PoolAssumption == NEndpoints \in Nat \ {0} /\ Cooldown \in Nat

VARIABLES
    healthy, cooling,
    up           \* the endpoints that give valid answers just now

poolVars == <<healthy, cooling>>

Endpoints == 1 .. NEndpoints

PoolInit ==
    /\ healthy = [e \in Endpoints |-> TRUE]
    /\ cooling = [e \in Endpoints |-> 0]
    /\ up \in SUBSET Endpoints

(* Fault: an endpoint that failed is never looked at again. *)
IsAvailable_Healthy(e) == healthy[e]

IsAvailable(e) == healthy[e] \/ cooling[e] = 0

Candidates == {e \in Endpoints : IsAvailable(e)}

(* _mark_failure for every endpoint of F; _mark_success for those of S. *)
MarkEndpoints(F, S) ==
    /\ healthy' = [e \in Endpoints |->
                     IF e \in F THEN FALSE ELSE IF e \in S THEN TRUE ELSE healthy[e]]
    /\ cooling' = [e \in Endpoints |->
                     IF e \in F THEN Cooldown ELSE IF e \in S THEN 0 ELSE cooling[e]]

(* call() returns what endpoint e answered ... *)
Answered(e) ==
    /\ e \in Candidates \cap up
    /\ \A d \in Candidates \cap up : e <= d
    /\ MarkEndpoints({d \in Candidates : d < e}, {e})

(* ... or raises RpcAllDownError. *)
AllDown ==
    /\ Candidates \cap up = {}
    /\ MarkEndpoints(Candidates, {})

(* The clock, and endpoints that come and go. *)
Elapse ==
    /\ \E e \in Endpoints : cooling[e] > 0
    /\ cooling' = [e \in Endpoints |-> IF cooling[e] > 0 THEN cooling[e] - 1 ELSE 0]
    /\ UNCHANGED <<healthy, up>>

Flap ==
    /\ up' \in SUBSET Endpoints
    /\ UNCHANGED poolVars

PoolTypeOK ==
    /\ healthy \in [Endpoints -> BOOLEAN]
    /\ cooling \in [Endpoints -> 0 .. Cooldown]
    /\ up \subseteq Endpoints

=============================================================================
