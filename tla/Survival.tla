------------------------------ MODULE Survival ------------------------------
(***************************************************************************)
(* The survival-first strategy (agent/strategy): the regime read of one    *)
(* token and the one intent a tick proposes, for the Injective config,     *)
(* whose universe is INJ and whose quote token is USDT.  Units are those   *)
(* of PolicyEngine.                                                        *)
(***************************************************************************)
EXTENDS PolicyEngine

CONSTANTS
    MinSinglePct,    \* min_single_trade_pct
    VolMax,          \* vol_enter_max_pct
    StopLossPct,     \* stop_loss_pct
    TakeProfitPct,   \* take_profit_pct
    MaxHold,         \* max_hold_hours, in seconds
    TargetPct,       \* target_risky_ratio
    BandPct,         \* rebalance_band
    Micro            \* micro_rebalance_usd, in cents

ASSUME SurvivalAssumption ==
    /\ MinSinglePct \in 0 .. MaxSinglePct
    /\ VolMax \in Nat \ {0} /\ StopLossPct \in Nat /\ TakeProfitPct \in Nat
    /\ MaxHold \in Nat /\ TargetPct \in Nat /\ BandPct \in Nat /\ Micro \in Nat

(* An entry price is kept in 1/100 cent: averaging makes it fractional. *)
PRICE == 100

(* classify: m.known, m.s1, m.s4 are the momentum readings and their signs,*)
(* m.vol the volatility in percent.  rank_entries keeps the risk_on ones.  *)
RiskOn(m) == m.known /\ m.vol < VolMax /\ m.s1 = 1 /\ m.s4 = 1

(* _vol_scaled_size, in fine units: less volatile, larger. *)
VolScaledSize(nav, vol, halve) ==
    LET calm == Greatest(0, Least(VolMax, VolMax - vol))
        usd  == 2 * nav * MinSinglePct
                + (2 * nav * (MaxSinglePct - MinSinglePct) * calm) \div VolMax
    IN Least(IF halve THEN usd \div 2 ELSE usd, FINE * MaxSingle)

(* The exit conditions of a held position, pos.age seconds old. *)
ExitDue(m, pos, rung) ==
    \/ rung = "stablecoin_mode"
    \/ (PRICE * m.px - pos.entry) * 100 <= -(StopLossPct * pos.entry)
    \/ (PRICE * m.px - pos.entry) * 100 >= TakeProfitPct * pos.entry
    \/ pos.age >= MaxHold

(* risky_exposure_pct < pct and > pct; it is 0 when there is no NAV. *)
ExposureBelow(p, pct) ==
    IF p.nav > 0 THEN 100 * p.risky < pct * p.nav ELSE 0 < pct

ExposureAbove(p, pct) == p.nav > 0 /\ 100 * p.risky > pct * p.nav

(* can_take_risk: room > 0.01 *)
CanTakeRisk(p, rung) ==
    /\ rung \in {"none", "halve_size"}
    /\ ExposureBelow(p, MaxRiskyPct - 1)

EnterSize(m, p, rung) ==
    Least(VolScaledSize(p.nav, m.vol, rung = "halve_size"), Room(p))

Buy(amount)  == [side |-> "buy", from_token |-> "USDT", to_token |-> "INJ",
                 amount |-> amount]
Sell(amount) == [side |-> "sell", from_token |-> "INJ", to_token |-> "USDT",
                 amount |-> amount]
Hold         == [side |-> "hold", from_token |-> "USDT", to_token |-> "USDT",
                 amount |-> 0]

(* The one intent of a tick: exit first, then enter, then a small nudge    *)
(* toward the target exposure, else hold.  pos is the set of positions on  *)
(* the books: at most one.                                                 *)
Decide(m, p, pos) ==
    LET rung   == LadderRung(p)
        risk   == CanTakeRisk(p, rung)
        settle == p.since >= MinInterval /\ rung # "stablecoin_mode"
    IN IF \E q \in pos : ExitDue(m, q, rung)
       THEN Sell(p.risky)
       ELSE IF /\ risk /\ RiskOn(m) /\ pos = {}
               /\ EnterSize(m, p, rung) >= 100 * FINE
       THEN Buy(RoundCents(EnterSize(m, p, rung)))
       ELSE IF /\ settle /\ risk
               /\ ExposureBelow(p, TargetPct - BandPct)
               /\ RiskOn(m) \/ pos = {}
       THEN Buy(Micro)
       ELSE IF /\ settle /\ pos # {}
               /\ ExposureAbove(p, TargetPct + BandPct)
       THEN Sell(Micro)
       ELSE Hold

=============================================================================
