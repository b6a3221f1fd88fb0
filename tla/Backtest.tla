------------------------------ MODULE Backtest ------------------------------
(***************************************************************************)
(* The backtest of the survival strategy: the portfolio's accounting       *)
(* (backtest/portfolio.py), the champion's cascade of decisions            *)
(* (backtest/champion.py) and the naive challenger's rotation              *)
(* (backtest/challenger.py), the hourly loop that lets a strategy decide   *)
(* several times a tick and marks the NAV once (backtest/run.py, and       *)
(* backtest/real_data.py, which starts it in the middle of a history), and *)
(* the drawdowns reported of it (backtest/metrics.py, backtest/run.py).    *)
(*                                                                         *)
(* The market is an input: each hour brings any prices and any reading of  *)
(* them, the asset the entry rule ranks best, its size, and the asset with *)
(* the strongest momentum.  Money is in whole small units and a quantity   *)
(* in whole small lots, rounded down; a position carries what its lots     *)
(* cost, so its average entry price is cost / qty.                         *)
(***************************************************************************)
EXTENDS Integers, Sequences, FiniteSets, SequencesExt

CONSTANTS
    N,             \* assets of the universe, 1 .. N in its order
    Cash0,         \* initial_cash
    Bps,           \* what fee and slippage are parts of (10000)
    Fee,           \* FEE_BPS
    Slip,          \* SLIP_BPS
    MaxTrades,     \* MAX_TRADES_PER_HOUR
    MaxRisky,      \* max_risky_exposure_pct, in thousandths as all ratios below
    MaxSingle,     \* max_single_trade_pct
    StopLoss,      \* stop_loss_pct
    TakeProfit,    \* take_profit_pct
    MaxHold,       \* max_hold_hours
    Halve,         \* the rungs of drawdown_ladder
    NoRisk,
    Kill,
    Micro,         \* micro_rebalance_usd
    Under,         \* target_risky_ratio - rebalance_band
    Cadence,       \* cadence_h
    Cooldown,      \* FLAT_COOLDOWN_H
    RearmAt,       \* the drawdown below which nothing is re-armed, half a percent
    Gate,          \* GATE_DD_PCT
    Prices0,       \* prices of the first hour, functions of the asset
    Moves,         \* changes of the prices in an hour, in percent, the same
    Readings,      \* readings of the history, see Signals
    Strategies,    \* the decide functions that are run
    Starts,        \* first hours of a run: 0, or a week's with its warm-up behind it
    Warm,          \* hours of history without which nothing is ranked
    DcaUsd,        \* the challenger's notional_usd
    DcaCadence,    \* the challenger's cadence_h
    Bounds,        \* REGIME_BOUNDS
    MaxHours       \* bound: hours traded

Assets == 1 .. N
None == -1

(* What momentum and volatility amount to: the candidate that passes the   *)
(* entry rule with the best score, its size, and the strongest momentum; 0 *)
(* where the history is too short or nothing qualifies.                    *)
Signals == [best : {0} \cup Assets, size : 0 .. MaxSingle, pick : {0} \cup Assets]

ASSUME BacktestAssumption ==
    /\ N \in Nat \ {0} /\ Cash0 \in Nat \ {0} /\ Bps \in Nat \ {0}
    /\ Fee \in 0 .. Bps - 1 /\ Slip \in 0 .. Bps /\ MaxTrades \in Nat
    /\ MaxRisky \in Nat /\ MaxSingle \in Nat /\ StopLoss \in Nat /\ TakeProfit \in Nat
    /\ MaxHold \in Nat /\ Halve \in Nat /\ NoRisk \in Nat /\ Kill \in Nat
    /\ Micro \in Nat \ {0} /\ Under \in Nat /\ Cadence \in Nat \ {0}
    /\ Cooldown \in Nat /\ RearmAt \in Nat /\ Gate \in Nat \ {0}
    /\ Prices0 \subseteq [Assets -> Nat \ {0}] /\ Moves \subseteq [Assets -> -99 .. 99]
    /\ Readings \subseteq Signals
    /\ Strategies \subseteq {"champion", "challenger"}
    /\ Starts \subseteq Nat /\ Warm \in Nat
    /\ DcaUsd \in Nat \ {0} /\ DcaCadence \in Nat \ {0}
    /\ Bounds \in Seq(Nat) /\ Len(Bounds) > 1 /\ Bounds[1] = 0
    /\ \A i \in 1 .. Len(Bounds) - 1 : Bounds[i] <= Bounds[i + 1]
    /\ MaxHours \in Nat

(* The committed strategy: a tick has a decision for every asset, and the  *)
(* slippage of a purchase does not reach its own stop or target.           *)
ASSUME StrategyAssumption ==
    /\ N <= MaxTrades /\ MaxTrades > 0 /\ MaxHold > 0 /\ TakeProfit > 0
    /\ (Bps + Slip) * (1000 - StopLoss) < 1000 * Bps

VARIABLES
    who,       \* the strategy that decides
    hour,      \* the tick
    px,        \* its prices
    reading,   \* what the history says
    left,      \* decisions left in this tick
    cash,
    pos,       \* positions, entry_price, entry_hour; qty is 0 where there is none
    hwm,       \* the portfolio's high-water mark
    flat,      \* flat_since
    nav_history,
    drawdown_history   \* of losses out of a peak

market == <<who, hour, px, reading>>
portfolio == <<cash, pos, hwm, flat>>
history == <<nav_history, drawdown_history>>
backtestVars == <<market, left, portfolio, history>>

-----------------------------------------------------------------------------
(* Portfolio *)

NoLoss == [loss |-> 0, of |-> 1]
Reaches(d, at) == d.loss * 1000 >= at * d.of

dd == IF drawdown_history = <<>> THEN NoLoss ELSE Last(drawdown_history)

Position == [qty : Nat, cost : Nat, hour : Nat]
NoPosition == [qty |-> 0, cost |-> 0, hour |-> 0]

Held == {a \in Assets : pos[a].qty > 0}
Value(a) == pos[a].qty * px[a]
Risky == SumFunctionOnSet([a \in Assets |-> Value(a)], Held)
Nav == cash + Risky

(* The fee, and what is left to spend of usd when it is paid too. *)
FeeOf(gross) == (gross * Fee) \div Bps
Gross(usd) == IF usd < cash THEN usd ELSE cash
Spend(usd) ==
    LET gross == Gross(usd)
    IN  IF gross + FeeOf(gross) > cash THEN cash - FeeOf(gross) ELSE gross

(* Filled above the price; an entry hour is that of the first buy. *)
Fill(a) == (px[a] * (Bps + Slip)) \div Bps
Buy(a, usd) ==
    LET qty == Spend(usd) \div Fill(a)
        cost == qty * Fill(a)
        old == pos[a]
    IN  /\ pos' = [pos EXCEPT ![a] =
                      IF old.qty > 0
                      THEN [qty |-> old.qty + qty, cost |-> old.cost + cost,
                            hour |-> old.hour]
                      ELSE [qty |-> qty, cost |-> cost, hour |-> hour]]
        /\ cash' = cash - cost - FeeOf(Gross(usd))

(* What selling all of a brings: filled below the price, less the fee. *)
Proceeds(a) ==
    LET gross == (Value(a) * (Bps - Slip)) \div Bps
    IN  gross - FeeOf(gross)

Sell(S) ==
    /\ pos' = [a \in Assets |-> IF a \in S THEN NoPosition ELSE pos[a]]
    /\ cash' = cash + SumFunctionOnSet([a \in Assets |-> Proceeds(a)], S)

-----------------------------------------------------------------------------
(* champion.decide *)

(* A book that has been flat for the cooldown takes its loss for granted:  *)
(* the high-water mark starts again from the NAV, which is all cash.       *)
Rearms ==
    /\ Held = {} /\ flat # None /\ hour - flat >= Cooldown
    /\ dd.loss * 1000 > RearmAt * dd.of

FlatSince ==
    IF Held # {} \/ Rearms THEN None ELSE IF flat = None THEN hour ELSE flat

Rebaseline ==
    /\ hwm' = IF Rearms THEN cash ELSE hwm
    /\ drawdown_history' =
          IF Rearms THEN Front(drawdown_history) \o <<NoLoss>> ELSE drawdown_history
    /\ flat' = FlatSince

(* Fault: the first rung that matches wins instead of the last. *)
Rung_First ==
    LET seen == IF Rearms THEN NoLoss ELSE dd
    IN  IF Reaches(seen, Halve) THEN "halve"
        ELSE IF Reaches(seen, NoRisk) THEN "no_risk"
        ELSE IF Reaches(seen, Kill) THEN "flatten" ELSE "ok"

Rung ==
    LET seen == IF Rearms THEN NoLoss ELSE dd
    IN  IF Reaches(seen, Kill) THEN "flatten"
        ELSE IF Reaches(seen, NoRisk) THEN "no_risk"
        ELSE IF Reaches(seen, Halve) THEN "halve" ELSE "ok"

(* Stop loss, take profit, time stop: against the average entry price. *)
Overdue(a) ==
    /\ a \in Held
    /\ \/ 1000 * Value(a) <= pos[a].cost * (1000 - StopLoss)
       \/ 1000 * Value(a) >= pos[a].cost * (1000 + TakeProfit)
       \/ hour - pos[a].hour >= MaxHold

Exits == {a \in Assets : Overdue(a)}

(* The NAV's share that goes into the best candidate, halved on its rung. *)
EntrySize ==
    (reading.size * Nav) \div (IF Rung = "halve" THEN 2000 ELSE 1000)

Enters ==
    /\ Risky * 1000 < MaxRisky * Nav \/ Nav = 0
    /\ reading.best # 0
    /\ EntrySize > 0 /\ cash >= EntrySize

Nudges ==
    /\ Rung = "ok" /\ hour > 0 /\ hour % Cadence = 0
    /\ Risky * 1000 < Under * Nav \/ Nav = 0
    /\ cash >= Micro /\ reading.pick # 0

-----------------------------------------------------------------------------
(* challenger.decide *)

(* On cadence the asset whose turn it is, for a fixed amount, while the    *)
(* cash lasts: nothing else is looked at, and nothing is ever sold.        *)
OnCadence == hour > 0 /\ hour % DcaCadence = 0
Turn == 1 + ((hour \div DcaCadence) % N)
Buys == OnCadence /\ cash >= DcaUsd

-----------------------------------------------------------------------------
(* run._run_strategy, real_data._run_week *)

Champion == who = "champion"

(* One pass of the inner loop: decide, execute, and count it. *)
Decided == left > 0 /\ left' = left - 1 /\ UNCHANGED <<market, nav_history>>

Flatten ==
    /\ Champion /\ Rung = "flatten" /\ Held # {}
    /\ Decided /\ Rebaseline /\ Sell(Held)

Exit ==
    /\ Champion /\ Rung # "flatten" /\ Exits # {}
    /\ Decided /\ Rebaseline /\ Sell({Min(Exits)})

Enter ==
    /\ Champion /\ Rung \notin {"flatten", "no_risk"} /\ Exits = {} /\ Enters
    /\ Decided /\ Rebaseline /\ Buy(reading.best, EntrySize)

MicroRebalance ==
    /\ Champion /\ Rung = "ok" /\ Exits = {} /\ ~Enters /\ Nudges
    /\ Decided /\ Rebaseline /\ Buy(reading.pick, Micro)

(* Nothing to do ends the tick; a cooldown may still have ended in it. *)
Hold ==
    /\ Champion /\ left > 0
    /\ \/ Rung = "flatten" /\ Held = {}
       \/ Rung = "no_risk" /\ Exits = {}
       \/ Rung \in {"halve", "ok"} /\ Exits = {} /\ ~Enters /\ ~Nudges
    /\ left' = 0 /\ Rebaseline
    /\ UNCHANGED <<market, cash, pos, nav_history>>

(* The runner asks again after each fill, and the challenger only knows    *)
(* the hour: on cadence it buys as often as the rate limit allows, where   *)
(* its comment promises "a modest, fixed dollar amount per cadence".       *)
Dca ==
    /\ ~Champion /\ Buys
    /\ Decided /\ Buy(Turn, DcaUsd)
    /\ UNCHANGED <<hwm, flat, drawdown_history>>

Idle ==
    /\ ~Champion /\ left > 0 /\ ~Buys
    /\ left' = 0
    /\ UNCHANGED <<market, portfolio, history>>

Drop(peak, n) == [loss |-> peak - n, of |-> peak]

(* portfolio.mark at the end of the tick. *)
Mark ==
    LET top == IF Nav > hwm THEN Nav ELSE hwm
    IN  /\ hwm' = top
        /\ nav_history' = Append(nav_history, Nav)
        /\ drawdown_history' =
              Append(drawdown_history, IF top = 0 THEN NoLoss ELSE Drop(top, Nav))

(* What the history says at hour h: nothing while it is too short. *)
Ranked(h) ==
    IF h < Warm THEN {[best |-> 0, size |-> 0, pick |-> 0]} ELSE Readings

(* The next hour's prices and reading. *)
Market ==
    /\ \E m \in Moves :
          px' = [a \in Assets |->
                    LET p == (px[a] * (100 + m[a])) \div 100 IN IF p = 0 THEN 1 ELSE p]
    /\ reading' \in Ranked(hour + 1)

NextHour ==
    /\ left = 0 /\ Len(nav_history) < MaxHours
    /\ Mark /\ Market
    /\ hour' = hour + 1 /\ left' = MaxTrades
    /\ UNCHANGED <<who, cash, pos, flat>>

BacktestInit ==
    /\ who \in Strategies /\ hour \in Starts
    /\ px \in Prices0 /\ reading \in Ranked(hour) /\ left = MaxTrades
    /\ cash = Cash0 /\ pos = [a \in Assets |-> NoPosition]
    /\ hwm = Cash0 /\ flat = None
    /\ nav_history = <<>> /\ drawdown_history = <<>>

BacktestNext ==
    \/ Flatten \/ Exit \/ Enter \/ MicroRebalance \/ Hold
    \/ Dca \/ Idle
    \/ NextHour

BacktestSpec == BacktestInit /\ [][BacktestNext]_backtestVars

-----------------------------------------------------------------------------
(* The reports: metrics and run._per_regime_drawdown.  A drawdown is in    *)
(* thousandths, rounded down.                                              *)

(* One pass over a stretch of the NAV curve, from a mark and a worst. *)
Fell(peak, n) == IF peak > 0 THEN (1000 * (peak - n)) \div peak ELSE 0

Worse(w, n) ==
    LET peak == IF n > w.peak THEN n ELSE w.peak
        fell == Fell(peak, n)
    IN  [peak |-> peak, worst |-> IF fell > w.worst THEN fell ELSE w.worst]

Pass(from, navs) ==
    LET after[k \in 0 .. Len(navs)] ==
          IF k = 0 THEN from ELSE Worse(after[k - 1], navs[k])
    IN  after[Len(navs)]

Unseen == [peak |-> -1, worst |-> 0]

max_drawdown_pct(navs) == Pass(Unseen, navs).worst

(* The regimes one after the other: each has a worst of its own, the       *)
(* high-water mark goes on through all of them.                            *)
Window(i, navs) ==
    SubSeq(navs, Bounds[i] + 1, Min({Bounds[i + 1], Len(navs)}))

(* Fault: every regime measures from its own peak. *)
per_regime_drawdown_Reset(navs) ==
    [i \in 1 .. Len(Bounds) - 1 |-> max_drawdown_pct(Window(i, navs))]

OneRegime(acc, navs) ==
    LET p == Pass([peak |-> acc.peak, worst |-> 0], navs)
    IN  [peak |-> p.peak, out |-> Append(acc.out, p.worst)]

per_regime_drawdown(navs) ==
    LET after[i \in 0 .. Len(Bounds) - 1] ==
          IF i = 0 THEN [peak |-> -1, out |-> <<>>]
          ELSE OneRegime(after[i - 1], Window(i, navs))
    IN  after[Len(Bounds) - 1].out

(* The first entry that reached the gate, counted from 1; 0 if none did. *)
first_breach_hour ==
    LET hit == {h \in DOMAIN drawdown_history : Reaches(drawdown_history[h], Gate)}
    IN  IF hit = {} THEN 0 ELSE Min(hit)

-----------------------------------------------------------------------------
(* What the backtest guarantees *)

(* The shape of the state: no purchase overdraws the cash. *)
BacktestTypeOK ==
    /\ who \in Strategies /\ hour \in Nat /\ px \in [Assets -> Nat \ {0}]
    /\ reading \in UNION {Ranked(h) : h \in {0, Warm}}
    /\ left \in 0 .. MaxTrades /\ cash \in Nat /\ pos \in [Assets -> Position]
    /\ hwm \in Nat /\ flat \in {None} \cup 0 .. hour
    /\ nav_history \in Seq(Nat) /\ drawdown_history \in Seq([loss : Nat, of : Nat \ {0}])

(* "the runner loops up to max_trades_per_hour times per tick so exits+    *)
(* entries both get serviced": when the champion's tick is over no         *)
(* position is past its stop, its target or its time, not even one the     *)
(* tick itself opened; on the last rung the book is empty, and no tick     *)
(* that starts on one of the last two opens a position, although every     *)
(* decision of the tick sees a book the earlier ones have changed.         *)
TickServiced ==
    Champion =>
        /\ left = 0 =>
              /\ \A a \in Held :
                    /\ 1000 * Value(a) > pos[a].cost * (1000 - StopLoss)
                    /\ 1000 * Value(a) < pos[a].cost * (1000 + TakeProfit)
                    /\ hour - pos[a].hour < MaxHold
              /\ Reaches(dd, Kill) => Held = {}
        /\ Reaches(dd, NoRisk) => \A a \in Held : pos[a].hour < hour

(* The reports tell one story.  Of a run that covers the regimes from the  *)
(* first hour, the worst of the regimes is the worst of the curve, however *)
(* a fall is spread over them.  The challenger, which never re-bases, is   *)
(* eliminated in the hour its curve first reaches the gate: not before the *)
(* curve has, unless the first tick already traded (the curve starts after *)
(* its costs, the portfolio's high-water mark before them), and never      *)
(* after it.                                                               *)
ReportsAgree ==
    LET navs == nav_history
        worst(n) == max_drawdown_pct(SubSeq(navs, 1, n))
        out == first_breach_hour
    IN  /\ hour = Len(navs) /\ Len(navs) <= Last(Bounds) =>
              Max(Range(per_regime_drawdown(navs))) = worst(Len(navs))
        /\ ~Champion =>
              /\ out = 0 => worst(Len(navs)) < Gate
              /\ out > 0 => worst(out - 1) < Gate
              /\ out > 0 /\ navs[1] = Cash0 => worst(out) >= Gate

-----------------------------------------------------------------------------
(* The inductive invariant behind TickServiced *)

(* The tick has a decision left for every exit that is due; from its first *)
(* decision on, the last rung has emptied the book; and what is held on    *)
(* the last two was bought before this hour.                               *)
ServiceInv ==
    Champion =>
        /\ Cardinality(Exits) <= left
        /\ \A a \in Held : pos[a].hour <= hour
        /\ Reaches(dd, Kill) /\ left < MaxTrades => Held = {}
        /\ Reaches(dd, NoRisk) => \A a \in Held : pos[a].hour < hour

(* ... and behind what ReportsAgree says of the challenger: its mark, and  *)
(* the peak of each drawdown, is the highest of the initial cash and the   *)
(* curve so far.                                                           *)
Highest(peak, n) ==
    /\ peak >= Cash0 /\ \A i \in 1 .. n : peak >= nav_history[i]
    /\ peak = Cash0 \/ \E i \in 1 .. n : peak = nav_history[i]

PeakInv ==
    ~Champion =>
        /\ Len(drawdown_history) = Len(nav_history) /\ Highest(hwm, Len(nav_history))
        /\ \A h \in 1 .. Len(nav_history) :
              /\ drawdown_history[h].loss = drawdown_history[h].of - nav_history[h]
              /\ Highest(drawdown_history[h].of, h)

-----------------------------------------------------------------------------
(* What the comments claim and the backtest does not do *)

(* portfolio.py: the rebaseline "only affects the internal drawdown the    *)
(* ladder sees", reported performance is honest: a NAV curve that falls    *)
(* through the elimination gate is reported as eliminated.                 *)
EliminationReported ==
    max_drawdown_pct(nav_history) >= Gate => first_breach_hour > 0

=============================================================================
