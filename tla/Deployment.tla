----------------------------- MODULE Deployment -----------------------------
(***************************************************************************)
(* The live container: deploy/entrypoint.railway.sh, which prepares the    *)
(* data volume and runs the dashboard and the loop, on a platform that     *)
(* restarts a container that exits; and the selection of the strategy      *)
(* config by the loop (agent/policy/canonical.py), the dashboard           *)
(* (agent/web.py) and the publisher of the policy commitment               *)
(* (agent/identity/commit_publish.py).                                     *)
(*                                                                         *)
(* The script has no `set -e`: a copy that fails is passed over.  It can   *)
(* be killed between any two commands, or in one.  What LiveLoop models in *)
(* detail is one step here, LoopTick.                                      *)
(***************************************************************************)
EXTENDS Naturals, FiniteSets

CONSTANTS
    Envs,          \* the environments the operator deploys with
    MaxRetries,    \* restartPolicyMaxRetries
    MaxDeploys     \* bound: deployments by the operator

(* The environment.  wallet says whether the keystore decodes.  strategy   *)
(* is STRATEGY_CONFIG: "unset", "empty" (set to the empty string), or the  *)
(* file it names.                                                          *)
Env == [wallet : BOOLEAN, force : BOOLEAN, seed : {"none", "good", "bad"},
        backend : {"injective", "twak"},
        strategy : {"unset", "empty", "strategy.json", "strategy.injective.json"}]

ASSUME DeploymentAssumption ==
    Envs \subseteq Env /\ MaxRetries \in Nat /\ MaxDeploys \in Nat

VARIABLES
    \* the platform and the container
    env, phase, retries, deploys,
    dash, loop,   \* the two processes: "none", "up", "dead"
    \* the volume
    vol,          \* receipts.jsonl and executions.jsonl
    state,        \* live_state.json
    marker,       \* .reseeded
    \* the container's file system
    stop,
    \* the chain
    published,    \* the hashes put there by this deployment: for which chain's
                  \* profile and of which config
    \* observers: the program does not read these
    seedWanted,   \* was a seed configured when the script last found no state file?
    lost,         \* times this deployment overwrote live receipts
    ran,          \* the configs ticks of this deployment were taken with
    told          \* did the operator stop this deployment?

deployVars == <<env, phase, retries, deploys, dash, loop, vol, state, marker, stop,
          published, seedWanted, lost, ran, told>>

Seeded == {"receipts", "executions"}

(* "part" is a copy that did not finish, "live" has lines of the loop. *)
Contents == {"absent", "part", "demo", "live"}

Script == {"keys", "reseed", "mark", "seed", "state", "spawn"}

DeployInit ==
    /\ env \in Envs /\ phase = "keys" /\ retries = 0 /\ deploys = 0
    /\ dash = "none" /\ loop = "none"
    /\ vol = [f \in Seeded |-> "absent"] /\ state = "absent" /\ marker = FALSE
    /\ stop = FALSE /\ published = {}
    /\ seedWanted = FALSE /\ lost = 0 /\ ran = {} /\ told = FALSE

volume == <<vol, state, marker>>
ghosts == <<seedWanted, lost, ran, told>>

-----------------------------------------------------------------------------
(* Which config *)

(* canonical.CONFIG_PATH: the default only if the variable is not set at   *)
(* all.  An empty string names a directory.                                *)
LoopConfig(e) == IF e.strategy = "unset" THEN "strategy.json" ELSE e.strategy

(* Fault: the dashboard reads the default config. *)
WebConfig_Default(e) == "strategy.json"

(* web._cfg *)
WebConfig(e) ==
    IF e.strategy \in {"unset", "empty"} THEN "strategy.json" ELSE e.strategy

(* The publisher's --chain: not given, or its value. *)
Chains == {"none", "injective", "bsc"}

(* commit_publish._resolve_chain: the argument counts before the backend. *)
ResolveChain(e, chain) ==
    LET asked == IF chain = "none" THEN e.backend ELSE chain
    IN  IF asked = "injective" THEN "injective" ELSE "bsc"

(* commit_publish._chain_profile; without a path publish takes that of     *)
(* canonical.                                                              *)
PublishedConfig(e, chain) ==
    IF e.strategy \notin {"unset", "empty"} THEN e.strategy
    ELSE IF chain = "injective" THEN "strategy.injective.json"
    ELSE LoopConfig(e)

Loads(config) == config # "empty"

(* commit_publish --send, by the operator with the environment of the      *)
(* deployment.  build_commitment loads the config of canonical as well.    *)
Publish ==
    \E asked \in Chains :
        LET chain  == ResolveChain(env, asked)
            config == PublishedConfig(env, chain)
        IN  /\ Loads(config) /\ Loads(LoopConfig(env))
            /\ published' = published \cup {[chain |-> chain, config |-> config]}
            /\ UNCHANGED <<env, phase, retries, deploys, dash, loop, volume, stop, ghosts>>

-----------------------------------------------------------------------------
(* The script *)

Goto(step) == phase' = step

Stopped ==
    /\ Goto("stopped")
    /\ dash' = "none" /\ loop' = "none"

Keys ==
    /\ phase = "keys"
    /\ IF env.wallet THEN Goto("reseed") /\ UNCHANGED <<dash, loop>> ELSE Stopped
    /\ UNCHANGED <<env, retries, deploys, volume, stop, published, ghosts>>

(* What cp leaves: the file, or a part of it. *)
Copied == {"demo", "part"}

(* Fault: the marker is not looked at. *)
Reseed_Always ==
    /\ phase = "reseed"
    /\ \/ /\ env.force
          /\ \E c \in Copied : vol' = [vol EXCEPT !["receipts"] = c]
          /\ lost' = IF vol["receipts"] = "live" THEN lost + 1 ELSE lost
          /\ Goto("mark")
       \/ /\ ~env.force
          /\ UNCHANGED <<vol, lost>>
          /\ Goto("seed")
    /\ UNCHANGED <<env, retries, deploys, dash, loop, state, marker, stop,
                   published, seedWanted, ran, told>>

(* FORCE_RESEED, once: receipts.jsonl (and the abstention and payment      *)
(* logs) are overwritten, executions.jsonl is not.                         *)
Reseed ==
    /\ phase = "reseed"
    /\ \/ /\ env.force /\ ~marker
          /\ \E c \in Copied : vol' = [vol EXCEPT !["receipts"] = c]
          /\ lost' = IF vol["receipts"] = "live" THEN lost + 1 ELSE lost
          /\ Goto("mark")
       \/ /\ ~env.force \/ marker
          /\ UNCHANGED <<vol, lost>>
          /\ Goto("seed")
    /\ UNCHANGED <<env, retries, deploys, dash, loop, state, marker, stop,
                   published, seedWanted, ran, told>>

Mark ==
    /\ phase = "mark"
    /\ marker' = TRUE
    /\ Goto("seed")
    /\ UNCHANGED <<env, retries, deploys, dash, loop, vol, state, stop,
                   published, ghosts>>

(* The files that are not on the volume are copied, each or only a part. *)
Seed ==
    /\ phase = "seed"
    /\ vol' \in {v \in [Seeded -> Contents] :
                    \A f \in Seeded :
                        IF vol[f] = "absent" THEN v[f] \in Copied ELSE v[f] = vol[f]}
    /\ Goto("state")
    /\ UNCHANGED <<env, retries, deploys, dash, loop, state, marker, stop,
                   published, ghosts>>

(* `base64 -d > live_state.json`: the file is there even if its contents   *)
(* are not.                                                                *)
SeedState ==
    /\ phase = "state"
    /\ \/ /\ state = "absent" /\ env.seed # "none"
          /\ \/ env.seed = "good" /\ state' = "carried"
             \/ state' = "bad"
       \/ /\ state # "absent" \/ env.seed = "none"
          /\ state' = state
    /\ seedWanted' = IF state = "absent" THEN env.seed # "none" ELSE seedWanted
    /\ Goto("spawn")
    /\ UNCHANGED <<env, retries, deploys, dash, loop, vol, marker, stop,
                   published, lost, ran, told>>

(* Both children are started; run() removes the STOP file. *)
Spawn ==
    /\ phase = "spawn"
    /\ dash' = "up" /\ loop' = "up"
    /\ stop' = FALSE
    /\ Goto("up")
    /\ UNCHANGED <<env, retries, deploys, volume, published, ghosts>>

(* Fault: the script waits for both children. *)
WaitExit_Both ==
    /\ phase = "up"
    /\ dash = "dead" /\ loop = "dead"
    /\ Stopped
    /\ UNCHANGED <<env, retries, deploys, volume, stop, published, ghosts>>

(* `wait -n`, kill, exit 1. *)
WaitExit ==
    /\ phase = "up"
    /\ dash = "dead" \/ loop = "dead"
    /\ Stopped
    /\ UNCHANGED <<env, retries, deploys, volume, stop, published, ghosts>>

-----------------------------------------------------------------------------
(* The children *)

(* What PersistentState.load makes of the file; "bad" raises. *)
Load == IF state = "absent" THEN "fresh" ELSE state

(* Fault: a file that cannot be read counts as none. *)
LoopTick_Lenient ==
    /\ loop = "up" /\ ~stop
    /\ Loads(LoopConfig(env))
    /\ vol["receipts"] # "part"
    /\ vol' = [f \in Seeded |->
                 IF f = "receipts" \/ vol[f] # "part" THEN "live" ELSE vol[f]]
    /\ state' = IF state = "bad" THEN "fresh" ELSE Load
    /\ ran' = ran \cup {LoopConfig(env)}
    /\ UNCHANGED <<env, phase, retries, deploys, dash, loop, marker, stop,
                   published, seedWanted, lost, told>>

(* A tick that places an order: a receipt is appended after the last one   *)
(* was read, the order logged, the state saved.                            *)
LoopTick ==
    /\ loop = "up" /\ ~stop
    /\ Loads(LoopConfig(env))
    /\ Load # "bad"
    /\ vol["receipts"] # "part"
    /\ vol' = [f \in Seeded |->
                 IF f = "receipts" \/ vol[f] # "part" THEN "live" ELSE vol[f]]
    /\ state' = Load
    /\ ran' = ran \cup {LoopConfig(env)}
    /\ UNCHANGED <<env, phase, retries, deploys, dash, loop, marker, stop,
                   published, seedWanted, lost, told>>

(* run() returns because of the STOP file or because the watchdog gave up, *)
(* and drops the file; or the process is killed.                           *)
LoopDies ==
    /\ loop = "up"
    /\ loop' = "dead"
    /\ stop' \in {stop, TRUE}
    /\ UNCHANGED <<env, phase, retries, deploys, dash, volume, published, ghosts>>

DashDies ==
    /\ dash = "up"
    /\ dash' = "dead"
    /\ UNCHANGED <<env, phase, retries, deploys, loop, volume, stop, published, ghosts>>

-----------------------------------------------------------------------------
(* The platform and the operator *)

(* ON_FAILURE: a stopped container is started again, a limited number of   *)
(* times.                                                                  *)
Restart ==
    /\ phase = "stopped"
    /\ IF retries < MaxRetries THEN Goto("keys") /\ retries' = retries + 1
                               ELSE Goto("off") /\ UNCHANGED retries
    /\ UNCHANGED <<env, deploys, dash, loop, volume, stop, published, ghosts>>

(* The host stops the container, between two commands of the script or     *)
(* while it runs.                                                          *)
Kill ==
    /\ phase \in Script \cup {"up"}
    /\ Stopped
    /\ UNCHANGED <<env, retries, deploys, volume, stop, published, ghosts>>

Deploy(e) ==
    /\ deploys < MaxDeploys
    /\ env' = e /\ retries' = 0 /\ deploys' = deploys + 1
    /\ Goto("keys") /\ dash' = "none" /\ loop' = "none"
    /\ stop' = FALSE /\ told' = FALSE /\ published' = {} /\ ran' = {} /\ lost' = 0
    /\ UNCHANGED <<volume, seedWanted>>

(* docs/HUMAN_STEPS.md: "To stop: `touch STOP`". *)
TouchStop ==
    /\ phase = "up" /\ ~stop
    /\ stop' = TRUE /\ told' = TRUE
    /\ UNCHANGED <<env, phase, retries, deploys, dash, loop, volume, published,
                   seedWanted, lost, ran>>

EntryPoint ==
    \/ Keys \/ Reseed \/ Mark \/ Seed \/ SeedState \/ Spawn \/ WaitExit

DeployNext ==
    \/ EntryPoint \/ Restart
    \/ LoopTick \/ LoopDies \/ DashDies
    \/ Kill \/ TouchStop \/ Publish
    \/ \E e \in Envs : Deploy(e)

DeploySpec == DeployInit /\ [][DeployNext]_deployVars

(* The script goes on to its next command, and the platform restarts what  *)
(* exited.  Nothing is assumed about the children or the operator.         *)
Fairness == WF_deployVars(EntryPoint) /\ WF_deployVars(Restart)

FairSpec == DeploySpec /\ Fairness

-----------------------------------------------------------------------------
(* What the deployment guarantees *)

DeployTypeOK ==
    /\ env \in Envs /\ phase \in Script \cup {"up", "stopped", "off"}
    /\ retries \in 0 .. MaxRetries /\ deploys \in 0 .. MaxDeploys
    /\ dash \in {"none", "up", "dead"} /\ loop \in {"none", "up", "dead"}
    /\ vol \in [Seeded -> Contents]
    /\ state \in {"absent", "bad", "carried", "fresh"} /\ marker \in BOOLEAN
    /\ stop \in BOOLEAN /\ lost \in Nat /\ seedWanted \in BOOLEAN /\ told \in BOOLEAN

(* "Optional one-time live_state seed (carries high-water-mark + guardrail *)
(* counters at cutover)": if a snapshot was configured when the script     *)
(* found no state file, the loop never trades on a fresh state, which      *)
(* would forget the drawdown; not even if the snapshot does not decode,    *)
(* the script dies while it writes it, or a later deployment comes without *)
(* it.  A snapshot configured only after the loop has made its own file is *)
(* not looked at any more (LateSeedCarried).                               *)
CarriedOver == state = "fresh" => ~seedWanted

(* "A marker file guards it so an ordinary restart never clobbers          *)
(* accumulated live data": however often the container of one deployment   *)
(* is killed and started again, between the copy and the marker too, the   *)
(* receipts the loop wrote are overwritten once at most.  (A reseed that   *)
(* is cut short before its marker leaves the next deployment free to do    *)
(* its own.)                                                               *)
ReseededOnce == lost <= 1

(* The config that the loop runs with is the one the dashboard shows and   *)
(* the one whose hash is published from the same environment; except that  *)
(* without STRATEGY_CONFIG a publisher that is told (by --chain or by the  *)
(* backend) to publish for Injective takes the Injective config where the  *)
(* loop takes strategy.json.                                               *)
PublishedIsRun ==
    \A config \in ran :
        /\ config = WebConfig(env)
        /\ \A p \in published :
              p.config = config \/ (env.strategy = "unset" /\ p.chain = "injective")

(* "Whichever exits first brings the container down so Railway restarts    *)
(* both cleanly": a dead child is followed by two that run, or the         *)
(* platform has used up its restarts.                                      *)
Revived ==
    (dash = "dead" \/ loop = "dead") ~> ((dash = "up" /\ loop = "up") \/ phase = "off")

-----------------------------------------------------------------------------
(* The inductive invariant behind the guarantees *)

(* A child runs only under the script's wait. *)
ChildInv == phase # "up" => dash = "none" /\ loop = "none"

(* Without a state file, or with one the loop made itself, no seed was     *)
(* configured when the script last looked.                                 *)
SeedInv == state \in {"absent", "fresh"} => ~seedWanted

(* After an overwrite that left no marker the script has not come past the *)
(* reseed again, so nothing is live.                                       *)
ReseedInv ==
    /\ lost <= 1
    /\ lost = 1 /\ ~marker =>
          /\ env.force /\ vol["receipts"] # "live"
          /\ phase \in {"keys", "reseed", "mark", "stopped", "off"}

(* All that ran and all that was published came from this environment. *)
ConfigInv ==
    /\ ran \subseteq {LoopConfig(env)} /\ \A config \in ran : Loads(config)
    /\ published \subseteq {[chain |-> c, config |-> PublishedConfig(env, c)] :
                                c \in {"injective", "bsc"}}

DeployInv == DeployTypeOK /\ ChildInv /\ SeedInv /\ ReseedInv /\ ConfigInv

-----------------------------------------------------------------------------
(* What comments claim, or can be read to claim, and the deployment does   *)
(* not do                                                                  *)

(* run_live.py: "drop the kill file so nothing - not a stray supervisor,   *)
(* not a manual relaunch script - silently resumes trading": once the      *)
(* operator has stopped this deployment the loop takes no tick.            *)
StopStays == [][told => ~LoopTick]_deployVars

(* entrypoint.railway.sh: the live_state seed "carries high-water-mark +   *)
(* guardrail counters at cutover": a deployment that is given one does not *)
(* trade on a fresh state.                                                 *)
LateSeedCarried == ran # {} /\ env.seed # "none" => state # "fresh"

(* commit_publish.py: "so the commit matches the config the Injective      *)
(* agent actually runs".                                                   *)
CommitMatchesRun ==
    \A config \in ran, p \in published : p.chain = "injective" => p.config = config

=============================================================================
