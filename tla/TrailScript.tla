---------------------------- MODULE TrailScript ----------------------------
(***************************************************************************)
(* scripts/run_live_trail.py beside the supervised loop: a third process   *)
(* that decides and trades through the same brain, guardrail and backend   *)
(* and counts the same ledger.  It reads its caps once for all its ticks,  *)
(* asks nobody whether the agent is paused, tells the guardrail of no      *)
(* drawdown, and dies of an answer that does not come.                     *)
(*                                                                         *)
(* A scene says who is there: the loop and a chat that gives commands      *)
(* ("talk"), the loop alone as time passes ("alone"), or the loop, the     *)
(* chat's "tick" and the script, all trading ("crowd").                    *)
(***************************************************************************)
EXTENDS SupervisedLoop

CONSTANTS
    ScriptTicks,  \* --ticks
    Scenes

ASSUME ScriptAssumption ==
    /\ ScriptTicks \in Nat /\ Scenes \subseteq {"talk", "alone", "crowd"}
    /\ IsFiniteSet(Chats) /\ "script" \notin Chats

VARIABLES
    scene,
    script  \* [at, left, caps, amount, tries]

trailVars == <<vars, scene, script>>

Off == [at |-> "off", left |-> ScriptTicks, caps |-> Risk, amount |-> 0, tries |-> 0]

Untouched == UNCHANGED <<now, file, hwm, pc, chatVars, tickVars, scene>>

TrailInit == Init /\ scene \in Scenes /\ script = Off

(* The caps as they are when the script starts. *)
ScriptStart ==
    /\ script.at = "off" /\ script.left > 0
    /\ script' = [script EXCEPT !.at = "brain",
                    !.caps = [f \in Fields |-> IF Load.overrides[f] = Unset
                                               THEN Risk[f] ELSE Load.overrides[f]]]
    /\ Untouched /\ UNCHANGED <<ledger, seen>>

(* The end of a tick: the next one after the spacing, or the summary. *)
NextTick(s) ==
    [s EXCEPT !.left = @ - 1, !.tries = 0, !.amount = 0,
              !.at = IF s.left = 1 THEN "off" ELSE "brain"]

(* The brain does not answer: tried three times, then the tick is skipped. *)
BrainDown ==
    /\ script.at = "brain"
    /\ script' = IF script.tries < 2 THEN [script EXCEPT !.tries = @ + 1]
                                     ELSE NextTick(script)
    /\ Untouched /\ UNCHANGED <<ledger, seen>>

ScriptCap ==
    IF script.caps.max_single_trade_usd <= PctCap THEN script.caps.max_single_trade_usd
    ELSE PctCap

ScriptDecide(a, listed) ==
    /\ script.at = "brain"
    /\ script' =
         IF a = 0 \/ ~listed \/ TradesLastHour >= script.caps.max_trades_per_hour
         THEN NextTick(script)
         ELSE [script EXCEPT !.at = "trade",
                 !.amount = IF a > ScriptCap /\ ScriptCap # 0 THEN ScriptCap ELSE a]
    /\ Untouched /\ UNCHANGED <<ledger, seen>>

ScriptExecute ==
    /\ script.at = "trade"
    /\ Len(trades) < MaxTrades
    /\ trades' = Append(trades,
         [at |-> now, amount |-> script.amount, cap |-> ScriptCap, disobeys |-> FALSE,
          down |-> (peak - worth) * 100 >= MaxDrawdown * peak])
    /\ script' = [script EXCEPT !.at = "record"]
    /\ Untouched /\ UNCHANGED <<ledger, sincePause, worth, peak>>

(* executed=False, or the backend raises and the script is over. *)
ScriptAttempt ==
    /\ script.at = "trade"
    /\ script' \in {NextTick(script), [Off EXCEPT !.left = 0]}
    /\ Untouched /\ UNCHANGED <<ledger, seen>>

ScriptRecord ==
    /\ script.at = "record"
    /\ ledger' = Append(ledger, now)
    /\ script' = NextTick(script)
    /\ Untouched /\ UNCHANGED seen

Script ==
    \/ ScriptStart \/ BrainDown
    \/ (\E a \in Amounts, listed \in BOOLEAN : ScriptDecide(a, listed))
    \/ ScriptExecute \/ ScriptAttempt \/ ScriptRecord

(* Trading with every answer of the backend received. *)
Heard ==
    \/ LoopTop
    \/ \E p \in Procs :
          \/ Begin(p)
          \/ (\E a \in Amounts, listed \in BOOLEAN : Decide(p, a, listed))
          \/ Execute(p) \/ Attempt(p) \/ Record(p) \/ TickEnd(p) \/ TickError(p)

TrailNext ==
    \/ /\ scene = "talk"
       /\ LoopTop \/ Tick \/ Chat
       /\ UNCHANGED <<scene, script>>
    \/ /\ scene = "alone"
       /\ Heard \/ Clock \/ (\E w \in Worths : Market(w))
       /\ UNCHANGED <<scene, script>>
    \/ /\ scene = "crowd"
       /\ \/ Script
          \/ /\ Heard \/ Clock \/ (\E c \in Chats : ChatTick(c))
             /\ UNCHANGED <<scene, script>>

TrailSpec == TrailInit /\ [][TrailNext]_trailVars

-----------------------------------------------------------------------------
(* What holds *)

TrailTypeOK ==
    /\ TypeOK /\ scene \in Scenes
    /\ script \in [at : {"off", "brain", "trade", "record"}, left : 0 .. ScriptTicks,
                   caps : [Fields -> Nat], amount : Nat, tries : 0 .. 2]
    /\ script.at # "off" => script.left > 0

(* The processes that may trade. *)
Traders == IF scene = "alone" THEN {"loop"} ELSE Procs \cup {"script"}

(* The rate limit is counted from the ledger before an order and recorded  *)
(* after it.  The loop alone keeps it exactly; where n processes trade     *)
(* beside each other it is passed by n - 1 trades at most, however slow    *)
(* any of them is between its check and its record.                        *)
RateBound ==
    scene # "talk" =>
        \A i \in DOMAIN trades :
            Cardinality({j \in 1 .. i : trades[j].at >= trades[i].at - Hour})
                <= Risk.max_trades_per_hour + Cardinality(Traders) - 1

(* No trade is larger than the cap of its tick, whoever lowered it and     *)
(* whenever, unless that cap is 0, which the clamp takes for no cap.       *)
CapBinds ==
    \A i \in DOMAIN trades : trades[i].cap # 0 => trades[i].amount <= trades[i].cap

-----------------------------------------------------------------------------
(* The inductive invariant behind the two bounds *)

(* An amount on its way out is within the cap it was checked against. *)
CapInv ==
    /\ \A p \in Procs : pc[p] = "trade" /\ Cap(p) # 0 => amount[p] <= Cap(p)
    /\ script.at = "trade" /\ ScriptCap # 0 => script.amount <= ScriptCap
    /\ CapBinds

StepOf(a) == IF a = "script" THEN script.at ELSE pc[a]

AtStep(step) == {a \in Traders : StepOf(a) = step}

TradedSince(t) == {j \in DOMAIN trades : trades[j].at >= t}
LoggedSince(t) == {i \in DOMAIN ledger : ledger[i] >= t}

(* Without commands the caps are the committed ones. *)
QuietInv ==
    scene # "talk" =>
        /\ file = DEFAULT /\ script.caps = Risk
        /\ \A p \in Procs : /\ cfg[p] = Risk /\ pc[p] \notin {"update", "open", "write"}
                            /\ p \notin Traders => pc[p] = "idle"
        /\ "script" \notin Traders => script.at = "off"

(* A trade is in the ledger or about to be; the trades that are still to   *)
(* be made on an old answer of the guardrail have their place in the bound.*)
RateInv ==
    scene # "talk" =>
        /\ \A j \in DOMAIN trades : trades[j].at <= now
        /\ \A t \in -Hour .. now :
             Cardinality(TradedSince(t))
                <= Cardinality(LoggedSince(t)) + Cardinality(AtStep("record"))
        /\ AtStep("trade") # {} =>
             Cardinality(TradedSince(now - Hour)) + Cardinality(AtStep("trade"))
                <= Risk.max_trades_per_hour + Cardinality(Traders) - 1
        /\ RateBound

TrailInv ==
    TrailTypeOK /\ PauseInv /\ SettingsInv /\ CapInv /\ QuietInv /\ RateInv

=============================================================================
