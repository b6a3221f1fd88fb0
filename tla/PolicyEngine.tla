---------------------------- MODULE PolicyEngine ----------------------------
(***************************************************************************)
(* The policy engine (agent/policy/engine.py): a pure function from a      *)
(* decision, the portfolio and the market to a verdict, parameterised by   *)
(* the committed config.                                                   *)
(*                                                                         *)
(* Money is a whole number of cents.  Where the code carries a fraction of *)
(* NAV in a float, the model carries the amount in 1/200 cent, in which    *)
(* every percentage of a NAV, and half of it, is whole; ratios are         *)
(* compared by cross multiplication.  Percentages are whole numbers.       *)
(***************************************************************************)
EXTENDS Integers

CONSTANTS
    Ladder,          \* drawdown_ladder, a set of [at, action]
    MaxRiskyPct,     \* max_risky_exposure_pct
    MaxSingle,       \* max_single_trade_usd, in cents
    MaxSinglePct,    \* max_single_trade_pct
    MinInterval,     \* min_trade_interval_seconds
    MaxTradesHour,   \* max_trades_per_hour
    MaxDataAge,      \* max_data_age_seconds
    AllowedPairs     \* allowed_pairs, a set of <<from, to>>

Rungs == {"none", "halve_size", "no_new_risk", "stablecoin_mode"}

NoRisk == {"no_new_risk", "stablecoin_mode"}

ASSUME PolicyAssumption ==
    /\ Ladder \subseteq [at : Nat \ {0}, action : Rungs]
    /\ \A r, s \in Ladder : r.at = s.at => r = s
    \* a finite list: some reached rung is the highest
    /\ \A S \in SUBSET Ladder :
          S # {} => \E r \in S : \A s \in S : s.at <= r.at
    \* a rung that stops new risk is not followed by one that permits it
    /\ \A r, s \in Ladder :
          r.at <= s.at /\ r.action \in NoRisk => s.action \in NoRisk
    /\ MaxRiskyPct \in 0 .. 100 /\ MaxSinglePct \in 0 .. 100
    /\ MaxSingle \in Nat /\ MinInterval \in Nat
    /\ MaxTradesHour \in Nat /\ MaxDataAge \in Nat

FINE == 200                            \* fine units in a cent

Least(a, b) == IF a <= b THEN a ELSE b
Greatest(a, b) == IF a >= b THEN a ELSE b

(* round(amount, 2) *)
RoundCents(fine) == (fine + FINE \div 2) \div FINE

(* quote_tokens *)
IsStable(token) == token = "USDT"

RiskIncreasing(d) ==
    d.side = "buy" /\ IsStable(d.from_token) /\ ~IsStable(d.to_token)

RiskReducing(d) ==
    d.side = "sell" /\ ~IsStable(d.from_token) /\ IsStable(d.to_token)

(* drawdown_pct >= at_pct *)
DrawdownAtLeast(p, at) ==
    p.hwm > 0 /\ p.hwm > p.nav /\ (p.hwm - p.nav) * 100 >= at * p.hwm

(* Fault: the first rung that is reached decides. *)
LadderRung_First(p) ==
    LET reached == {r \in Ladder : DrawdownAtLeast(p, r.at)}
    IN IF reached = {} THEN "none"
       ELSE (CHOOSE r \in reached : \A s \in reached : r.at <= s.at).action

(* The action of the highest rung the drawdown has reached. *)
LadderRung(p) ==
    LET reached == {r \in Ladder : DrawdownAtLeast(p, r.at)}
    IN IF reached = {} THEN "none"
       ELSE (CHOOSE r \in reached : \A s \in reached : s.at <= r.at).action

Verdict(action, amount, rung) ==
    [action |-> action, amount |-> amount, rung |-> rung]

Reject(rung) == Verdict("reject", 0, rung)

(* min(usd cap, pct-of-NAV cap), halved on the first rung; in fine units. *)
SizeCap(p, rung) ==
    LET cap == IF p.nav > 0
               THEN Least(FINE * MaxSingle, 2 * MaxSinglePct * p.nav)
               ELSE FINE * MaxSingle
    IN IF rung = "halve_size" THEN cap \div 2 ELSE cap

Finalise(p, fine, rung, clamped) ==
    Verdict(IF clamped \/ fine > SizeCap(p, rung) THEN "clamp" ELSE "allow",
            RoundCents(Least(fine, SizeCap(p, rung))),
            rung)

(* What the exposure cap leaves, in fine units: room_pct * nav_usd. *)
Room(p) == Greatest(0, 2 * MaxRiskyPct * p.nav - FINE * p.risky)

IsTrade(d) == d.side \in {"buy", "sell"} /\ d.amount > 0

TooSoon(p) ==
    p.trades_last_hour >= MaxTradesHour \/ p.since < MinInterval

(* The checks in the order of the code: stale data, whitelist, ladder,     *)
(* exposure, rate limit, size.  The exposure clamp returns at once, so it  *)
(* is not followed by the rate limit.                                      *)
CheckInRoom(d, p, age, room) ==
    LET rung == LadderRung(p)
        capped == RiskIncreasing(d) /\ p.nav > 0
    IN IF ~IsTrade(d) THEN Verdict("allow", 0, "none")
       ELSE IF \/ age > MaxDataAge
               \/ <<d.from_token, d.to_token>> \notin AllowedPairs
               \/ rung = "stablecoin_mode" /\ ~RiskReducing(d)
               \/ rung = "no_new_risk" /\ RiskIncreasing(d)
               \/ capped /\ room = 0
            THEN Reject(rung)
       ELSE IF capped /\ FINE * d.amount > room
            THEN Finalise(p, room, rung, TRUE)
       ELSE IF TooSoon(p) THEN Reject(rung)
       ELSE Finalise(p, FINE * d.amount, rung, FALSE)

(* Fault: on the last rung every trade is refused, the exits too. *)
Check_BlockExits(d, p, age) ==
    IF LadderRung(p) = "stablecoin_mode" THEN Reject(LadderRung(p))
    ELSE CheckInRoom(d, p, age, Room(p))

Check(d, p, age) == CheckInRoom(d, p, age, Room(p))

Allowed(v) == v.action \in {"allow", "clamp"}

=============================================================================
