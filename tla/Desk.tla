-------------------------------- MODULE Desk --------------------------------
(***************************************************************************)
(* The trading desk over many ticks: the subaccount on chain, the books    *)
(* that are reconciled with it, the strategy, the policy engine and the    *)
(* sizing of the Injective order, against a market that moves and orders   *)
(* that may not fill.  A tick is one step here; LiveLoop has its inside.   *)
(*                                                                         *)
(* Quantities are in lots of the market's quantity tick, prices in cents   *)
(* per lot.  Of the books only what survives the next reconcile is kept:   *)
(* entry price and age of the position, the high-water mark and the time   *)
(* of the last trade.                                                      *)
(***************************************************************************)
EXTENDS Survival

CONSTANTS
    Dust,          \* run_live.DUST_USD, in cents
    MinNotional,   \* injective_market.MIN_NOTIONAL_USD, in cents
    Cash0,         \* cash the subaccount can be funded with
    Prices,        \* prices of a lot
    Moves,         \* changes of the price between two ticks
    Unquoted,      \* may the feed fail to quote the token?
    Spread,        \* distance of best ask and best bid from the feed price
    Signals,       \* readings of momentum and volatility
    Ages,          \* age of the market data when the engine sees it
    Gaps,          \* seconds between two ticks
    Outcomes,      \* what can become of an order
    MaxBuys        \* bound: buys that fill

ASSUME DeskAssumption ==
    /\ Dust \in Nat \ {0} /\ MinNotional \in Nat /\ Spread \in Nat
    /\ \A p \in Prices : p > Spread
    /\ Cash0 \subseteq Nat /\ Prices \subseteq Nat \ {0} /\ Moves \subseteq Int
    /\ Ages \subseteq Nat /\ Gaps \subseteq Nat /\ MaxBuys \in Nat
    /\ Unquoted \in BOOLEAN
    /\ Signals \subseteq [known : BOOLEAN, s1 : {-1, 0, 1}, s4 : {-1, 0, 1},
                          vol : Nat]
    /\ Outcomes \subseteq {"filled", "unfilled", "failed", "late"}

VARIABLES
    cash,    \* USDT in the subaccount, in cents
    lots,    \* INJ in the subaccount
    price,   \* the market's price
    pos,     \* positions on the books, a set of at most one [entry, age]
    hwm,     \* high_water_mark
    since,   \* seconds since last_trade_ts, up to MinInterval
    buys,    \* buys filled so far
    \* observers
    paid,    \* lowest price paid since the subaccount last held no INJ
    idle,    \* seconds since the chain last filled an order, up to MinInterval
    last     \* the tick: side proposed, rung seen, was there a quote, and
             \* the time from the previous fill to this one's

chain == <<cash, lots>>
vars == <<chain, price, pos, hwm, since, buys, paid, idle, last>>

Init ==
    /\ cash \in Cash0 /\ lots = 0
    /\ price \in Prices
    /\ pos = {} /\ hwm = 0 /\ since = MinInterval
    /\ buys = 0
    /\ paid = 0 /\ idle = MinInterval
    /\ last = [side |-> "hold", rung |-> "none", quote |-> TRUE, gap |-> MinInterval]

-----------------------------------------------------------------------------
(* The parts of a tick *)

(* get_token_views and the top of the book, p being the market's price.  A *)
(* token the feed does not quote has price 0 and no readings.              *)
NoReading == [known |-> FALSE, s1 |-> 0, s4 |-> 0, vol |-> 0]

View(p, px, sig, age, gap) ==
    [px |-> px, ask |-> p + Spread, bid |-> p - Spread,
     known |-> sig.known, s1 |-> sig.s1, s4 |-> sig.s4, vol |-> sig.vol,
     age |-> age, gap |-> gap]

Views ==
    LET next == {q \in Prices : q - price \in Moves} IN
    {View(p, p, sig, age, gap) :
        p \in next, sig \in Signals, age \in Ages, gap \in Gaps}
    \cup
    {View(p, 0, NoReading, age, gap) :
        p \in {q \in next : Unquoted}, age \in Ages, gap \in Gaps}

(* sync_state_from_injective: dust is not a position; one that was not on  *)
(* the books is adopted at the current price.                              *)
Reconciled(m) ==
    IF lots * m.px < Dust THEN {}
    ELSE IF pos = {} THEN {[entry |-> PRICE * m.px, age |-> 0]}
    ELSE {[entry |-> q.entry, age |-> Least(q.age + m.gap, MaxHold)] : q \in pos}

(* mark_nav and build_portfolio_state on the reconciled books.             *)
(* trades_last_hour keeps its default: nothing writes it.                  *)
Portfolio(m) ==
    LET risky == IF Reconciled(m) = {} THEN 0 ELSE lots * m.px
        nav   == cash + risky
    IN [nav |-> nav, risky |-> risky, hwm |-> Greatest(hwm, nav),
        since |-> Least(since + m.gap, MinInterval), trades_last_hour |-> 0]

(* What the tick knows when it comes to execution: the reconciled books,   *)
(* the decision and the verdict on it, and the price at which the order is *)
(* sized, best ask or best bid.                                            *)
Plan(m, port, d) ==
    [books |-> Reconciled(m), port |-> port, side |-> d.side,
     verdict |-> Check(d, port, m.age), trade |-> IsTrade(d),
     ref |-> IF d.side = "buy" THEN m.ask ELSE m.bid]

(* Fault: the quantity is rounded up to the tick. *)
Quantity_Up(t) == (t.verdict.amount + t.ref - 1) \div t.ref

(* _size: whole lots for the amount at the top of the book. *)
Quantity(t) == t.verdict.amount \div t.ref

(* An order goes out: the verdict lets the trade through, and it is worth  *)
(* the market's minimum notional.                                          *)
Ordered(t) ==
    /\ Allowed(t.verdict) /\ t.trade
    /\ Quantity(t) * t.ref >= MinNotional

(* The exchange takes an order the subaccount can cover. *)
Covered(t) ==
    IF t.side = "buy" THEN Quantity(t) * t.ref <= cash ELSE Quantity(t) <= lots

(* _apply_fill, as far as the next reconcile keeps it. *)
Filled(m, t) ==
    LET amt == t.verdict.amount
    IN IF t.side = "buy"
       THEN IF m.px = 0 \/ amt > cash THEN t.books
            ELSE IF t.books = {} THEN {[entry |-> PRICE * m.px, age |-> 0]}
            ELSE {[entry |-> ((q.entry * lots + PRICE * amt) * m.px)
                                \div (lots * m.px + amt),
                   age |-> q.age] : q \in t.books}
       ELSE IF amt >= lots * m.px THEN {} ELSE t.books

-----------------------------------------------------------------------------
(* The tick *)

Did(m, t, gap) ==
    [side |-> t.side, rung |-> LadderRung(t.port), quote |-> m.px # 0, gap |-> gap]

(* No order: nothing proposed, refused, or too small for the market. *)
Quiet(m, t) ==
    /\ ~Ordered(t)
    /\ pos' = t.books
    /\ since' = t.port.since
    /\ idle' = Least(idle + m.gap, MinInterval)
    /\ last' = Did(m, t, MinInterval)
    /\ UNCHANGED <<chain, buys, paid>>

(* The order of the tick fills, at the top of the book, before the next.   *)
(* reported: execute_swap said executed.                                   *)
FilledOrder(m, t, reported) ==
    /\ Ordered(t)
    /\ Covered(t)
    /\ pos' = IF reported THEN Filled(m, t) ELSE t.books
    /\ since' = IF reported THEN 0 ELSE t.port.since
    /\ idle' = 0
    /\ last' = Did(m, t, Least(idle + m.gap, MinInterval))
    /\ \/ /\ t.side = "buy"
          /\ buys < MaxBuys
          /\ buys' = buys + 1
          /\ lots' = lots + Quantity(t)
          /\ cash' = cash - Quantity(t) * t.ref
          /\ paid' = IF lots = 0 THEN t.ref ELSE Least(paid, t.ref)
       \/ /\ t.side = "sell"
          /\ buys' = buys
          /\ lots' = lots - Quantity(t)
          /\ cash' = cash + Quantity(t) * t.ref
          /\ paid' = IF lots' = 0 THEN 0 ELSE paid

(* It does not fill. *)
DeadOrder(m, t, reported) ==
    /\ Ordered(t)
    /\ pos' = IF reported THEN Filled(m, t) ELSE t.books
    /\ since' = IF reported THEN 0 ELSE t.port.since
    /\ idle' = Least(idle + m.gap, MinInterval)
    /\ last' = Did(m, t, MinInterval)
    /\ UNCHANGED <<chain, buys, paid>>

(* Placed and filled. *)
Fill(m, t) == "filled" \in Outcomes /\ FilledOrder(m, t, TRUE)

(* The wait for the receipt times out, yet the order is mined and filled. *)
Late(m, t) == "late" \in Outcomes /\ FilledOrder(m, t, FALSE)

(* Placed, but the book moved beyond the order's worst price. *)
Unfilled(m, t) == "unfilled" \in Outcomes /\ Covered(t) /\ DeadOrder(m, t, TRUE)

(* The transaction reverts, always if the subaccount does not cover it. *)
Fail(m, t) == ("failed" \in Outcomes \/ ~Covered(t)) /\ DeadOrder(m, t, FALSE)

(* run_live's loop body: every tick reconciles and marks the NAV first. *)
Tick ==
    \E m \in Views : \E port \in {Portfolio(m)} :
    \E d \in {Decide(m, port, Reconciled(m))} : \E t \in {Plan(m, port, d)} :
        /\ price' = m.bid + Spread
        /\ hwm' = port.hwm
        /\ \/ Quiet(m, t) \/ Fill(m, t) \/ Late(m, t)
           \/ Unfilled(m, t) \/ Fail(m, t)

Next == Tick

Spec == Init /\ [][Next]_vars

(* The loop ticks for ever. *)
FairSpec == Spec /\ WF_vars(Tick)

-----------------------------------------------------------------------------
(* What the desk guarantees *)

Holding == lots * price

(* The account valued in full, dust included. *)
Nav == cash + Holding

(* The shape of the state: at most one position, and neither cash nor lots *)
(* ever negative, which is what the backend's sizing has to ensure.        *)
TypeOK ==
    /\ cash \in Nat /\ lots \in Nat /\ price \in Prices
    /\ pos \subseteq [entry : Nat, age : 0 .. MaxHold]
    /\ \A q, r \in pos : q = r
    /\ hwm \in Nat /\ since \in 0 .. MinInterval /\ buys \in 0 .. MaxBuys
    /\ paid \in Nat /\ idle \in 0 .. MinInterval
    /\ last \in [side : {"buy", "sell", "hold"}, rung : Rungs, quote : BOOLEAN,
                 gap : 0 .. MinInterval]

(* The exposure cap binds what the subaccount really holds: after a buy    *)
(* the whole holding, at the price the tick saw, is within the cap plus    *)
(* the dust the books did not count plus half a cent of rounding.          *)
ExposureBounded ==
    [][lots' > lots /\ last'.quote =>
        100 * (lots' * price') <=
            MaxRiskyPct * (cash + lots * price') + 50
            + (IF lots * price' < Dust THEN 100 * (lots * price') ELSE 0)]_vars

(* No tick adds risk while the account, valued in full, is below its       *)
(* high-water mark by a rung that stops new risk: the books may understate *)
(* the account (dust, a missing quote) but never hide a drawdown.          *)
NoRiskInDrawdown ==
    [][lots' > lots =>
        \A r \in Ladder :
            DrawdownAtLeast([nav |-> cash + lots * price', hwm |-> hwm'], r.at)
                => r.action \notin NoRisk]_vars

(* With bounded moves and orders that fill, the drawdown stays below the   *)
(* elimination gate (max_drawdown_pct, 6).                                 *)
SurvivalGate == (hwm - Nav) * 100 < 6 * hwm \/ hwm = 0

(* The account, valued in full, is on the last rung. *)
Stablecoin ==
    \E r \in Ladder :
        /\ r.action = "stablecoin_mode"
        /\ hwm > 0 /\ (hwm - Nav) * 100 >= r.at * hwm

(* "flatten to stablecoins at 3%": the last rung ends with no position     *)
(* left, unless the market lifts the account off it first.                 *)
Flattens == Stablecoin ~> (Nav < cash + Dust \/ ~Stablecoin)

-----------------------------------------------------------------------------
(* What the documents claim and the desk does not do *)

(* README: the ladder "moves everything to stablecoins once losses reach   *)
(* 3%": a quoted tick sees the last rung only when the account, valued in  *)
(* full, has lost that much.                                               *)
LadderFollowsLosses ==
    last.rung = "stablecoin_mode" /\ last.quote => Stablecoin

(* INJECTIVE_DEMO: min_trade_interval "means a second on-chain order lands *)
(* ~15 minutes after the first": no two fills are closer than that.        *)
TradesSpaced == last.gap >= MinInterval

(* BUILD_SPEC: "per-position stop at stop_loss_pct (2%)": a tick that sees *)
(* every lot held that far below what was paid for it proposes to sell.    *)
StopHonoured ==
    /\ Holding >= Dust /\ last.quote
    /\ 100 * price <= (100 - StopLossPct) * paid
    => last.side = "sell"

=============================================================================
