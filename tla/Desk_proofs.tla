---------------------------- MODULE Desk_proofs ----------------------------
(***************************************************************************)
(* Proofs about the desk: the type invariant, the exposure bound and the   *)
(* drawdown ladder, for every config, every set of prices, moves and       *)
(* readings, every spread and every outcome of the orders.                 *)
(***************************************************************************)
EXTENDS Desk, TLAPS

(* The records the parts of a tick pass to each other. *)
MarketView ==
    [px : Nat, ask : Nat \ {0}, bid : Nat \ {0}, known : BOOLEAN,
     s1 : {-1, 0, 1}, s4 : {-1, 0, 1}, vol : Nat, age : Nat, gap : Nat]

PortfolioType ==
    [nav : Nat, risky : Nat, hwm : Nat, since : 0 .. MinInterval,
     trades_last_hour : {0}]

DecisionType ==
    [side : {"buy", "sell", "hold"}, from_token : {"USDT", "INJ"},
     to_token : {"USDT", "INJ"}, amount : Nat]

-----------------------------------------------------------------------------
(* Arithmetic *)

(* Products of amounts, prices and percentages are natural numbers. *)
LEMMA ProductNat == \A a, b \in Nat : a * b \in Nat
  OBVIOUS

(* A quantity costs no less at a higher price. *)
LEMMA ProductMonotone == \A q, a, b \in Nat : a <= b => q * a <= q * b
  OBVIOUS

(* Rounding down: the quotient is a natural number and gives at most the   *)
(* dividend back.                                                          *)
LEMMA QuotientBound ==
  \A a \in Nat, b \in Nat \ {0} : a \div b \in Nat /\ (a \div b) * b <= a
  OBVIOUS

(* round(amount, 2) is off by at most half a cent. *)
LEMMA RoundingBound ==
  \A f \in Nat : RoundCents(f) \in Nat /\ FINE * RoundCents(f) <= f + 100
  BY DEF RoundCents, FINE

-----------------------------------------------------------------------------
(* The policy engine *)

(* The rung is one of the ladder's actions or none; a reached rung that    *)
(* stops new risk keeps the engine on such a rung, however many higher     *)
(* ones are reached as well.                                               *)
LEMMA RungFacts ==
  ASSUME NEW p \in PortfolioType
  PROVE  /\ LadderRung(p) \in Rungs
         /\ \A r \in Ladder :
               DrawdownAtLeast(p, r.at) /\ r.action \in NoRisk
                  => LadderRung(p) \in NoRisk
<1> DEFINE reached == {r \in Ladder : DrawdownAtLeast(p, r.at)}
           top == CHOOSE r \in reached : \A s \in reached : s.at <= r.at
<1>1. CASE reached = {}
  BY <1>1 DEF LadderRung, Rungs
<1>2. CASE reached # {}
  <2>1. reached \in SUBSET Ladder
    OBVIOUS
  <2>2. \E r \in reached : \A s \in reached : s.at <= r.at
    <3> HIDE DEF reached
    <3> QED
      BY <2>1, <1>2, PolicyAssumption
  <2>3. top \in reached /\ \A s \in reached : s.at <= top.at
    <3> HIDE DEF reached
    <3> QED
      BY <2>2
  <2>4. LadderRung(p) = top.action
    BY <1>2 DEF LadderRung
  <2>5. top \in Ladder
    BY <2>3
  <2>6. \A r \in Ladder : r.at <= top.at /\ r.action \in NoRisk => top.action \in NoRisk
    BY <2>5, PolicyAssumption
  <2>7. top.action \in Rungs
    BY <2>5, PolicyAssumption
  <2> HIDE DEF top
  <2> QED
    BY <2>3, <2>4, <2>6, <2>7
<1> QED
  BY <1>1, <1>2

(* The engine's amounts are natural numbers; a buy of risk it lets through *)
(* is on no rung that stops risk, and fits what the exposure cap leaves,   *)
(* whichever branch it took: clamped to the room, or below it.             *)
LEMMA CheckFacts ==
  ASSUME NEW p \in PortfolioType, NEW d \in DecisionType, NEW age \in Nat
  PROVE  /\ Check(d, p, age).amount \in Nat
         /\ RiskIncreasing(d) /\ IsTrade(d) /\ Allowed(Check(d, p, age)) =>
               /\ LadderRung(p) \notin NoRisk
               /\ p.nav > 0 =>
                    /\ Room(p) > 0
                    /\ FINE * Check(d, p, age).amount <= Room(p) + 100
<1> DEFINE rung == LadderRung(p)
           cap == SizeCap(p, rung)
<1>1. cap \in Nat
  <2>1. 2 * MaxSinglePct * p.nav \in Nat
    BY ProductNat, PolicyAssumption DEF PortfolioType
  <2> QED
    BY <2>1, PolicyAssumption DEF SizeCap, Least, FINE
<1>2. Room(p) \in Nat
  <2>1. MaxRiskyPct * p.nav \in Nat
    BY ProductNat, PolicyAssumption DEF PortfolioType
  <2>2. 2 * MaxRiskyPct * p.nav \in Nat
    BY ProductNat, PolicyAssumption DEF PortfolioType
  <2> QED
    BY <2>1, <2>2 DEF Room, Greatest, FINE, PortfolioType
<1>3. \A f \in Nat, c \in BOOLEAN :
        /\ Finalise(p, f, rung, c).amount \in Nat
        /\ FINE * Finalise(p, f, rung, c).amount <= f + 100
  <2> SUFFICES ASSUME NEW f \in Nat, NEW c \in BOOLEAN
               PROVE  /\ Finalise(p, f, rung, c).amount \in Nat
                      /\ FINE * Finalise(p, f, rung, c).amount <= f + 100
    OBVIOUS
  <2>1. Least(f, cap) \in Nat /\ Least(f, cap) <= f
    BY <1>1 DEF Least
  <2>2. Finalise(p, f, rung, c).amount = RoundCents(Least(f, cap))
    BY DEF Finalise, Verdict
  <2> HIDE DEF cap, rung
  <2>3. /\ RoundCents(Least(f, cap)) \in Nat
        /\ FINE * RoundCents(Least(f, cap)) <= Least(f, cap) + 100
    BY <2>1, RoundingBound
  <2> QED
    BY <2>1, <2>2, <2>3 DEF FINE
<1> DEFINE capped == RiskIncreasing(d) /\ p.nav > 0
           room == Room(p)
           refused == \/ age > MaxDataAge
                      \/ <<d.from_token, d.to_token>> \notin AllowedPairs
                      \/ rung = "stablecoin_mode" /\ ~RiskReducing(d)
                      \/ rung = "no_new_risk" /\ RiskIncreasing(d)
                      \/ capped /\ room = 0
           clamp == capped /\ FINE * d.amount > room
<1>4. Check(d, p, age) =
        IF ~IsTrade(d) THEN Verdict("allow", 0, "none")
        ELSE IF refused THEN Reject(rung)
        ELSE IF clamp THEN Finalise(p, room, rung, TRUE)
        ELSE IF TooSoon(p) THEN Reject(rung)
        ELSE Finalise(p, FINE * d.amount, rung, FALSE)
  BY DEF Check, CheckInRoom
<1>5. FINE * d.amount \in Nat
  BY DEF FINE, DecisionType
<1>6. RiskIncreasing(d) /\ ~refused => rung \notin NoRisk
  BY DEF RiskIncreasing, RiskReducing, NoRisk
<1>7. Reject(rung).amount = 0 /\ ~Allowed(Reject(rung))
  BY DEF Reject, Verdict, Allowed
<1>8. Verdict("allow", 0, "none").amount = 0
  BY DEF Verdict
<1>9. /\ ~refused /\ capped => room > 0
      /\ ~clamp /\ capped => FINE * d.amount <= room
  BY <1>2, <1>5
<1> HIDE DEF rung, cap, refused, clamp, room
<1>10. CASE ~IsTrade(d)
  BY <1>10, <1>4, <1>8
<1>11. CASE IsTrade(d) /\ refused
  BY <1>11, <1>4, <1>7
<1>12. CASE IsTrade(d) /\ ~refused /\ clamp
  <2>1. Check(d, p, age) = Finalise(p, room, rung, TRUE)
    BY <1>12, <1>4
  <2> QED
    BY <2>1, <1>12, <1>2, <1>3, <1>6, <1>9 DEF room, rung
<1>13. CASE IsTrade(d) /\ ~refused /\ ~clamp /\ TooSoon(p)
  BY <1>13, <1>4, <1>7
<1>14. CASE IsTrade(d) /\ ~refused /\ ~clamp /\ ~TooSoon(p)
  <2>1. Check(d, p, age) = Finalise(p, FINE * d.amount, rung, FALSE)
    BY <1>14, <1>4
  <2>2. Check(d, p, age).amount \in Nat
        /\ FINE * Check(d, p, age).amount <= FINE * d.amount + 100
    BY <2>1, <1>3, <1>5
  <2> QED
    BY <2>2, <1>14, <1>2, <1>5, <1>6, <1>9 DEF room, rung, FINE
<1> QED
  BY <1>10, <1>11, <1>12, <1>13, <1>14

-----------------------------------------------------------------------------
(* The strategy *)

(* Sizes are natural numbers. *)
LEMMA SizeNat ==
  ASSUME NEW p \in PortfolioType, NEW m \in MarketView, NEW rung
  PROVE  EnterSize(m, p, rung) \in Nat
<1> DEFINE calm == Greatest(0, Least(VolMax, VolMax - m.vol))
           base == 2 * p.nav * MinSinglePct
           extra == 2 * p.nav * (MaxSinglePct - MinSinglePct) * calm
<1>1. calm \in Nat
  BY SurvivalAssumption DEF Greatest, Least, MarketView
<1>2. 2 * p.nav \in Nat /\ MinSinglePct \in Nat
      /\ MaxSinglePct - MinSinglePct \in Nat
  BY SurvivalAssumption, PolicyAssumption DEF PortfolioType
<1>3. base \in Nat
  BY <1>2, ProductNat
<1>4. extra \in Nat
  <2>1. 2 * p.nav * (MaxSinglePct - MinSinglePct) \in Nat
    BY <1>2, ProductNat
  <2> HIDE DEF calm
  <2> QED
    BY <2>1, <1>1, ProductNat
<1> HIDE DEF extra, base
<1>5. extra \div VolMax \in Nat
  BY <1>4, SurvivalAssumption, QuotientBound
<1>6. VolScaledSize(p.nav, m.vol, rung = "halve_size") =
        Least(IF rung = "halve_size" THEN (base + extra \div VolMax) \div 2
              ELSE base + extra \div VolMax,
              FINE * MaxSingle)
  BY DEF VolScaledSize, base, extra
<1>7. VolScaledSize(p.nav, m.vol, rung = "halve_size") \in Nat
  BY <1>3, <1>5, <1>6, PolicyAssumption DEF Least, FINE
<1>8. 2 * MaxRiskyPct * p.nav \in Nat
  BY ProductNat, PolicyAssumption DEF PortfolioType
<1>9. Room(p) \in Nat
  BY <1>8 DEF Room, Greatest, FINE, PortfolioType
<1> QED
  BY <1>7, <1>9 DEF EnterSize, Least

(* The strategy proposes a well-formed trade, and every buy of its is a    *)
(* purchase of the risky token.                                            *)
LEMMA DecideFacts ==
  ASSUME NEW p \in PortfolioType, NEW m \in MarketView, NEW books
  PROVE  /\ Decide(m, p, books) \in DecisionType
         /\ Decide(m, p, books).side = "buy" => RiskIncreasing(Decide(m, p, books))
<1>1. \A a \in Nat :
        /\ Buy(a) \in DecisionType /\ RiskIncreasing(Buy(a))
        /\ Sell(a) \in DecisionType /\ Sell(a).side = "sell"
  BY DEF Buy, Sell, DecisionType, RiskIncreasing, IsStable
<1>2. Hold \in DecisionType /\ Hold.side = "hold"
  BY DEF Hold, DecisionType
<1>3. RoundCents(EnterSize(m, p, LadderRung(p))) \in Nat
  BY SizeNat, RoundingBound
<1>4. p.risky \in Nat /\ Micro \in Nat
  BY SurvivalAssumption DEF PortfolioType
<1>5. Decide(m, p, books) \in
        {Sell(p.risky), Buy(RoundCents(EnterSize(m, p, LadderRung(p)))),
         Buy(Micro), Sell(Micro), Hold}
  BY DEF Decide
<1> QED
  BY <1>1, <1>2, <1>3, <1>4, <1>5

-----------------------------------------------------------------------------
(* The tick *)

(* What a tick sees: the market's price p is the next price, the feed      *)
(* shows it or nothing, and the order is sized no lower than p on a buy.   *)
LEMMA ViewFacts ==
  ASSUME NEW m \in Views
  PROVE  /\ m \in MarketView
         /\ m.bid + Spread \in Prices
         /\ m.px \in {0, m.bid + Spread}
         /\ m.ask = m.bid + Spread + Spread
<1> DEFINE Seen == \E p \in Prices, px \in Nat, sig \in Signals \cup {NoReading},
                       age \in Ages, gap \in Gaps :
                         px \in {0, p} /\ m = View(p, px, sig, age, gap)
<1>0. Seen
  <2> DEFINE next == {q \in Prices : q - price \in Moves}
  <2>1. \/ \E p \in next, sig \in Signals, age \in Ages, gap \in Gaps :
             m = View(p, p, sig, age, gap)
        \/ \E p \in {q \in next : Unquoted}, age \in Ages, gap \in Gaps :
             m = View(p, 0, NoReading, age, gap)
    BY SMT DEF Views
  <2>2. ASSUME NEW p \in next, NEW sig \in Signals, NEW age \in Ages,
               NEW gap \in Gaps, m = View(p, p, sig, age, gap)
        PROVE  Seen
    <3>1. p \in Prices /\ p \in Nat
      BY DeskAssumption
    <3> QED
      BY <2>2, <3>1, Zenon
  <2>3. ASSUME NEW p \in next, NEW age \in Ages,
               NEW gap \in Gaps, m = View(p, 0, NoReading, age, gap)
        PROVE  Seen
    <3>1. p \in Prices /\ 0 \in Nat
      OBVIOUS
    <3> QED
      BY <2>3, <3>1, Zenon
  <2> QED
    BY <2>1, <2>2, <2>3, Zenon
<1>1. PICK p \in Prices, px \in Nat, sig \in Signals \cup {NoReading},
           age \in Ages, gap \in Gaps :
             px \in {0, p} /\ m = View(p, px, sig, age, gap)
  BY <1>0
<1>2. sig \in [known : BOOLEAN, s1 : {-1, 0, 1}, s4 : {-1, 0, 1}, vol : Nat]
  <2>1. CASE sig = NoReading
    BY <2>1, -1 \in {-1, 0, 1} DEF NoReading
  <2>2. CASE sig \in Signals
    BY <2>2, DeskAssumption, Zenon
  <2> QED
    BY <2>1, <2>2
<1>3. p \in Nat /\ p > Spread /\ Spread \in Nat /\ age \in Nat /\ gap \in Nat
  BY DeskAssumption
<1>4. p + Spread \in Nat \ {0} /\ p - Spread \in Nat \ {0} /\ px \in Nat
  BY <1>3
<1>5. m \in MarketView
  BY <1>1, <1>2, <1>3, <1>4 DEF View, MarketView
<1>6. m.px = px /\ m.bid = p - Spread /\ m.ask = p + Spread
  BY <1>1 DEF View
<1>7. m.bid + Spread = p
  BY <1>6, <1>3
<1> QED
  BY <1>1, <1>3, <1>5, <1>6, <1>7

(* The reconciled books and the portfolio the tick works with; dust and    *)
(* an unquoted holding are worth nothing to it.                            *)
LEMMA PortfolioFacts ==
  ASSUME TypeOK, NEW m \in MarketView
  PROVE  /\ Portfolio(m) \in PortfolioType
         /\ lots * m.px \in Nat
         /\ Portfolio(m).risky = IF lots * m.px < Dust THEN 0 ELSE lots * m.px
         /\ Portfolio(m).nav = cash + Portfolio(m).risky
         /\ Reconciled(m) \subseteq [entry : Nat, age : 0 .. MaxHold]
         /\ \A q, r \in Reconciled(m) : q = r
         /\ Reconciled(m) # {} => lots * m.px >= Dust
<1>1. lots * m.px \in Nat /\ PRICE * m.px \in Nat /\ m.gap \in Nat /\ MaxHold \in Nat
  BY SurvivalAssumption DEF TypeOK, MarketView, PRICE
<1>2. \A a \in Nat : Least(a + m.gap, MaxHold) \in 0 .. MaxHold
  BY <1>1 DEF Least
<1>3. Reconciled(m) = {} <=> lots * m.px < Dust
  <2>1. ASSUME pos # {}
        PROVE  {[entry |-> q.entry, age |-> Least(q.age + m.gap, MaxHold)] : q \in pos} # {}
    BY <2>1, Zenon
  <2> QED
    BY <2>1, <1>1, DeskAssumption DEF Reconciled
<1>4. Reconciled(m) \subseteq [entry : Nat, age : 0 .. MaxHold]
  BY <1>1, <1>2 DEF Reconciled, TypeOK
<1>5. \A q, r \in Reconciled(m) : q = r
  BY DEF Reconciled, TypeOK
<1>6. Portfolio(m).risky = IF lots * m.px < Dust THEN 0 ELSE lots * m.px
  BY <1>3 DEF Portfolio
<1>7. Portfolio(m).nav = cash + Portfolio(m).risky
  BY DEF Portfolio
<1>8. Least(since + m.gap, MinInterval) \in 0 .. MinInterval
  BY <1>1, PolicyAssumption DEF Least, TypeOK
<1>9. \A n \in Nat : Greatest(hwm, n) \in Nat
  BY DEF Greatest, TypeOK
<1>10. Portfolio(m) \in PortfolioType
  BY <1>1, <1>8, <1>9 DEF Portfolio, PortfolioType, TypeOK
<1> QED
  BY <1>1, <1>3, <1>4, <1>5, <1>6, <1>7, <1>10, DeskAssumption

(* What the tick knows at execution time. *)
LEMMA PlanFacts ==
  ASSUME TypeOK, NEW m \in Views, NEW t,
         t = Plan(m, Portfolio(m), Decide(m, Portfolio(m), Reconciled(m)))
  PROVE  /\ t.books = Reconciled(m) /\ t.port = Portfolio(m)
         /\ t.side \in {"buy", "sell", "hold"}
         /\ t.verdict.amount \in Nat /\ t.ref \in Nat \ {0}
         /\ t.side = "buy" => t.ref = m.ask
         /\ Quantity(t) \in Nat /\ Quantity(t) * t.ref \in Nat
         /\ Quantity(t) * t.ref <= t.verdict.amount
         /\ t.side = "buy" /\ Ordered(t) =>
               /\ LadderRung(t.port) \notin NoRisk
               /\ t.port.nav > 0 =>
                    Room(t.port) > 0 /\ FINE * t.verdict.amount <= Room(t.port) + 100
<1> DEFINE port == Portfolio(m)
           d == Decide(m, port, Reconciled(m))
<1>1. m \in MarketView
  BY ViewFacts
<1>2. port \in PortfolioType
  BY <1>1, PortfolioFacts
<1>3. /\ d \in DecisionType
      /\ d.side = "buy" => RiskIncreasing(d)
  BY <1>1, <1>2, DecideFacts
<1> HIDE DEF port, d
<1>4. /\ t.books = Reconciled(m) /\ t.port = port /\ t.side = d.side
      /\ t.verdict = Check(d, port, m.age) /\ (t.trade <=> IsTrade(d))
      /\ t.ref = IF d.side = "buy" THEN m.ask ELSE m.bid
  BY DEF Plan, port, d
<1>5. m.ask \in Nat \ {0} /\ m.bid \in Nat \ {0} /\ m.age \in Nat
  BY <1>1 DEF MarketView
<1>6. d.side \in {"buy", "sell", "hold"}
  BY <1>3 DEF DecisionType
<1>7. t.verdict.amount \in Nat
  BY <1>2, <1>3, <1>4, <1>5, CheckFacts
<1>8. t.ref \in Nat \ {0}
  BY <1>4, <1>5
<1>9. /\ Quantity(t) \in Nat
      /\ Quantity(t) * t.ref <= t.verdict.amount
  BY <1>7, <1>8, QuotientBound DEF Quantity
<1>10. Quantity(t) * t.ref \in Nat
  BY <1>8, <1>9, ProductNat
<1>11. t.side = "buy" /\ Ordered(t) =>
               /\ LadderRung(port) \notin NoRisk
               /\ port.nav > 0 =>
                    Room(port) > 0 /\ FINE * t.verdict.amount <= Room(port) + 100
  BY <1>2, <1>3, <1>4, <1>5, CheckFacts DEF Ordered
<1> QED
  BY <1>4, <1>6, <1>7, <1>8, <1>9, <1>10, <1>11 DEF port

(* The books after a fill: still one position, its averaged entry price a  *)
(* natural number (the divisor is positive: a position is worth its dust   *)
(* at least).                                                              *)
LEMMA FilledFacts ==
  ASSUME TypeOK, NEW m \in Views, NEW t,
         t = Plan(m, Portfolio(m), Decide(m, Portfolio(m), Reconciled(m)))
  PROVE  /\ Filled(m, t) \subseteq [entry : Nat, age : 0 .. MaxHold]
         /\ \A q, r \in Filled(m, t) : q = r
<1>1. m \in MarketView
  BY ViewFacts
<1>2. /\ t.books \subseteq [entry : Nat, age : 0 .. MaxHold]
      /\ \A q, r \in t.books : q = r
      /\ t.books # {} => lots * m.px >= Dust
      /\ lots * m.px \in Nat
  BY <1>1, PlanFacts, PortfolioFacts
<1>3. /\ t.verdict.amount \in Nat /\ m.px \in Nat /\ lots \in Nat /\ MaxHold \in Nat
      /\ PRICE * m.px \in Nat /\ PRICE * t.verdict.amount \in Nat /\ Dust \in Nat \ {0}
  BY <1>1, PlanFacts, SurvivalAssumption, DeskAssumption DEF MarketView, TypeOK, PRICE
<1> DEFINE amt == t.verdict.amount
           averaged(q) == ((q.entry * lots + PRICE * amt) * m.px) \div (lots * m.px + amt)
<1>4. ASSUME NEW q \in t.books
      PROVE  averaged(q) \in Nat
  <2>1. q.entry \in Nat
    BY <1>2
  <2>2. q.entry * lots + PRICE * amt \in Nat
    BY <2>1, <1>3, ProductNat
  <2>3. (q.entry * lots + PRICE * amt) * m.px \in Nat
    BY <2>2, <1>3, ProductNat
  <2>4. lots * m.px + amt \in Nat \ {0}
    BY <1>2, <1>3
  <2> QED
    BY <2>3, <2>4, QuotientBound
<1> HIDE DEF averaged
<1>5. /\ {[entry |-> averaged(q), age |-> q.age] : q \in t.books}
            \subseteq [entry : Nat, age : 0 .. MaxHold]
      /\ \A q, r \in {[entry |-> averaged(x), age |-> x.age] : x \in t.books} : q = r
  BY <1>2, <1>4
<1>6. /\ {[entry |-> PRICE * m.px, age |-> 0]} \subseteq [entry : Nat, age : 0 .. MaxHold]
      /\ \A q, r \in {[entry |-> PRICE * m.px, age |-> 0]} : q = r
  BY <1>3
<1>7. \/ Filled(m, t) = t.books
      \/ Filled(m, t) = {}
      \/ Filled(m, t) = {[entry |-> PRICE * m.px, age |-> 0]}
      \/ Filled(m, t) = {[entry |-> averaged(q), age |-> q.age] : q \in t.books}
  BY DEF Filled, averaged
<1> QED
  BY <1>2, <1>5, <1>6, <1>7

-----------------------------------------------------------------------------
(* Theorems *)

(* A tick keeps the type invariant. *)
LEMMA TickTypeOK == TypeOK /\ Tick => TypeOK'
<1> SUFFICES ASSUME TypeOK, NEW m \in Views, NEW t,
                    t = Plan(m, Portfolio(m), Decide(m, Portfolio(m), Reconciled(m))),
                    price' = m.bid + Spread, hwm' = Portfolio(m).hwm,
                    Quiet(m, t) \/ Fill(m, t) \/ Late(m, t)
                      \/ Unfilled(m, t) \/ Fail(m, t)
             PROVE  TypeOK'
  BY DEF Tick
<1>1. m \in MarketView /\ price' \in Prices
  BY ViewFacts
<1>2. Portfolio(m) \in PortfolioType
  BY <1>1, PortfolioFacts
<1>3. hwm' \in Nat
  BY <1>2 DEF PortfolioType
<1>4. LadderRung(t.port) \in Rungs /\ t.port.since \in 0 .. MinInterval
  BY <1>2, PlanFacts, RungFacts DEF PortfolioType
<1>5. \A g \in {MinInterval, Least(idle + m.gap, MinInterval)} :
        g \in 0 .. MinInterval
  BY <1>1, PolicyAssumption DEF Least, MarketView, TypeOK
<1>6. ASSUME NEW g \in 0 .. MinInterval
      PROVE  Did(m, t, g) \in [side : {"buy", "sell", "hold"}, rung : Rungs,
                               quote : BOOLEAN, gap : 0 .. MinInterval]
  <2>1. t.side \in {"buy", "sell", "hold"}
    BY PlanFacts
  <2> QED
    BY <2>1, <1>4 DEF Did
<1>7. ASSUME NEW b \in {t.books, Filled(m, t)}
      PROVE  b \subseteq [entry : Nat, age : 0 .. MaxHold] /\ \A q, r \in b : q = r
  BY <1>1, PlanFacts, PortfolioFacts, FilledFacts
<1>8. 0 \in 0 .. MinInterval
  BY PolicyAssumption
<1>9. CASE Quiet(m, t) \/ Unfilled(m, t) \/ Fail(m, t)
  <2>1. /\ pos' \in {t.books, Filled(m, t)} /\ since' \in {0, t.port.since}
        /\ idle' = Least(idle + m.gap, MinInterval) /\ last' = Did(m, t, MinInterval)
        /\ cash' = cash /\ lots' = lots /\ buys' = buys /\ paid' = paid
    BY <1>9 DEF Quiet, Unfilled, Fail, DeadOrder, chain
  <2>2. last' \in [side : {"buy", "sell", "hold"}, rung : Rungs,
                   quote : BOOLEAN, gap : 0 .. MinInterval]
    BY <2>1, <1>5, <1>6
  <2>3. pos' \subseteq [entry : Nat, age : 0 .. MaxHold] /\ \A q, r \in pos' : q = r
    BY <2>1, <1>7
  <2> QED
    BY <2>1, <2>2, <2>3, <1>1, <1>3, <1>4, <1>5, <1>8 DEF TypeOK
<1>10. CASE Fill(m, t) \/ Late(m, t)
  <2>1. /\ pos' \in {t.books, Filled(m, t)} /\ since' \in {0, t.port.since} /\ idle' = 0
        /\ last' = Did(m, t, Least(idle + m.gap, MinInterval))
    BY <1>10 DEF Fill, Late, FilledOrder
  <2>2. last' \in [side : {"buy", "sell", "hold"}, rung : Rungs,
                   quote : BOOLEAN, gap : 0 .. MinInterval]
    BY <2>1, <1>5, <1>6
  <2>3. pos' \subseteq [entry : Nat, age : 0 .. MaxHold] /\ \A q, r \in pos' : q = r
    BY <2>1, <1>7
  <2>4. Quantity(t) \in Nat /\ Quantity(t) * t.ref \in Nat /\ t.ref \in Nat
    BY PlanFacts
  <2>5. \/ /\ t.side = "buy" /\ Quantity(t) * t.ref <= cash
           /\ buys < MaxBuys /\ buys' = buys + 1
           /\ lots' = lots + Quantity(t) /\ cash' = cash - Quantity(t) * t.ref
           /\ paid' = IF lots = 0 THEN t.ref ELSE Least(paid, t.ref)
        \/ /\ t.side = "sell" /\ Quantity(t) <= lots /\ buys' = buys
           /\ lots' = lots - Quantity(t) /\ cash' = cash + Quantity(t) * t.ref
           /\ paid' \in {0, paid}
    BY <1>10 DEF Fill, Late, FilledOrder, Covered
  <2>6. cash' \in Nat /\ lots' \in Nat /\ buys' \in 0 .. MaxBuys /\ paid' \in Nat
    BY <2>4, <2>5, DeskAssumption DEF TypeOK, Least
  <2> QED
    BY <2>1, <2>2, <2>3, <2>6, <1>1, <1>3, <1>4, <1>8 DEF TypeOK
<1> QED
  BY <1>9, <1>10

(* The state keeps its shape: neither balance goes negative, there is      *)
(* never more than one position on the books, and the counters stay within *)
(* their bounds.                                                           *)
THEOREM DeskTypeCorrect == Spec => []TypeOK
<1>1. Init => TypeOK
  BY PolicyAssumption, DeskAssumption DEF Init, TypeOK, Rungs
<1>2. TypeOK /\ [Next]_vars => TypeOK'
  BY TickTypeOK DEF Next, vars, chain, TypeOK
<1> QED
  BY <1>1, <1>2, PTL DEF Spec

(* A tick after which more lots are held filled a buy: it was let through  *)
(* on no rung that stops risk, within the room the exposure cap left, and  *)
(* at a price no lower than the market's.  The account was not empty.      *)
LEMMA BuyFacts ==
  ASSUME TypeOK, Tick, lots' > lots
  PROVE  \E m \in Views, q, amt \in Nat :
           LET port == Portfolio(m) IN
           /\ price' = m.bid + Spread /\ hwm' = port.hwm
           /\ last'.quote <=> m.px # 0
           /\ lots' = lots + q /\ q * price' <= amt
           /\ LadderRung(port) \notin NoRisk
           /\ Room(port) > 0 /\ FINE * amt <= Room(port) + 100
<1>0. PICK m \in Views :
        /\ price' = m.bid + Spread /\ hwm' = Portfolio(m).hwm
        /\ \E t \in {Plan(m, Portfolio(m), Decide(m, Portfolio(m), Reconciled(m)))} :
              Quiet(m, t) \/ Fill(m, t) \/ Late(m, t) \/ Unfilled(m, t) \/ Fail(m, t)
  BY DEF Tick
<1>1. PICK t :
        /\ t = Plan(m, Portfolio(m), Decide(m, Portfolio(m), Reconciled(m)))
        /\ price' = m.bid + Spread /\ hwm' = Portfolio(m).hwm
        /\ Quiet(m, t) \/ Fill(m, t) \/ Late(m, t) \/ Unfilled(m, t) \/ Fail(m, t)
  BY <1>0
<1>2. /\ t.port = Portfolio(m)
      /\ t.verdict.amount \in Nat /\ t.ref \in Nat \ {0}
      /\ t.side = "buy" => t.ref = m.ask
      /\ Quantity(t) \in Nat /\ Quantity(t) * t.ref \in Nat
      /\ Quantity(t) * t.ref <= t.verdict.amount
      /\ t.side = "buy" /\ Ordered(t) =>
            /\ LadderRung(t.port) \notin NoRisk
            /\ t.port.nav > 0 =>
                 Room(t.port) > 0 /\ FINE * t.verdict.amount <= Room(t.port) + 100
  BY <1>1, PlanFacts
<1>3. lots \in Nat /\ cash \in Nat
  BY DEF TypeOK
<1>4. ~(Quiet(m, t) \/ Unfilled(m, t) \/ Fail(m, t))
  BY <1>3 DEF Quiet, Unfilled, Fail, DeadOrder, chain
<1>5. /\ t.side = "buy" /\ Ordered(t) /\ Quantity(t) * t.ref <= cash
      /\ lots' = lots + Quantity(t)
      /\ last' = Did(m, t, Least(idle + m.gap, MinInterval))
  <2>1. FilledOrder(m, t, TRUE) \/ FilledOrder(m, t, FALSE)
    BY <1>1, <1>4 DEF Fill, Late
  <2>2. ~(t.side = "sell" /\ lots' = lots - Quantity(t))
    BY <1>2, <1>3
  <2> QED
    BY <2>1, <2>2 DEF FilledOrder, Covered
<1>6. Quantity(t) * t.ref > 0
  <2>1. Quantity(t) > 0
    BY <1>2, <1>3, <1>5
  <2> QED
    BY <2>1, <1>2
<1>7. t.port.nav > 0
  <2>1. m \in MarketView
    BY ViewFacts
  <2>2. Portfolio(m) \in PortfolioType /\ Portfolio(m).nav = cash + Portfolio(m).risky
    BY <2>1, PortfolioFacts
  <2>3. Portfolio(m).risky \in Nat
    BY <2>2 DEF PortfolioType
  <2> QED
    BY <2>2, <2>3, <1>2, <1>3, <1>5, <1>6
<1>8. Quantity(t) * price' <= t.verdict.amount
  <2>1. price' \in Nat /\ m.ask = price' + Spread /\ Spread \in Nat
    BY <1>1, ViewFacts, DeskAssumption
  <2>2. price' <= t.ref
    BY <2>1, <1>2, <1>5
  <2>3. Quantity(t) * price' <= Quantity(t) * t.ref
    BY <2>1, <2>2, <1>2, ProductMonotone
  <2>4. Quantity(t) * price' \in Nat
    BY <2>1, <1>2, ProductNat
  <2> QED
    BY <2>3, <2>4, <1>2
<1>9. last'.quote <=> m.px # 0
  BY <1>5 DEF Did
<1>10. /\ LadderRung(Portfolio(m)) \notin NoRisk
       /\ Room(Portfolio(m)) > 0
       /\ FINE * t.verdict.amount <= Room(Portfolio(m)) + 100
  BY <1>2, <1>5, <1>7
<1> QED
  BY <1>1, <1>2, <1>5, <1>8, <1>9, <1>10, Zenon

(* One step of the exposure bound. *)
LEMMA BuyWithinCap ==
  ASSUME TypeOK, Tick, lots' > lots, last'.quote
  PROVE  100 * (lots' * price') <=
            MaxRiskyPct * (cash + lots * price') + 50
            + (IF lots * price' < Dust THEN 100 * (lots * price') ELSE 0)
<1>1. PICK m \in Views, q \in Nat, amt \in Nat :
           /\ price' = m.bid + Spread
           /\ last'.quote <=> m.px # 0
           /\ lots' = lots + q /\ q * price' <= amt
           /\ Room(Portfolio(m)) > 0 /\ FINE * amt <= Room(Portfolio(m)) + 100
  BY BuyFacts
<1> DEFINE port == Portfolio(m)
           h == lots * price'
<1>2. m \in MarketView /\ m.px = price' /\ price' \in Nat
  BY <1>1, ViewFacts, DeskAssumption
<1>3. /\ port.risky = IF h < Dust THEN 0 ELSE h
      /\ port.nav = cash + port.risky /\ h \in Nat
  BY <1>2, PortfolioFacts
<1>4. lots \in Nat /\ cash \in Nat /\ MaxRiskyPct \in Nat
  BY PolicyAssumption DEF TypeOK
<1>5. lots' * price' = h + q * price' /\ q * price' \in Nat
  <2>1. q * price' \in Nat
    BY <1>2, ProductNat
  <2>2. (lots + q) * price' = lots * price' + q * price'
    BY <1>2, <1>4
  <2> QED
    BY <2>1, <2>2, <1>1
<1>6. Room(port) = 2 * MaxRiskyPct * port.nav - FINE * port.risky
  BY <1>1 DEF Room, Greatest
<1>7. 200 * amt <= 2 * MaxRiskyPct * port.nav - 200 * port.risky + 100
  BY <1>1, <1>6 DEF FINE
<1>8. 2 * MaxRiskyPct * port.nav = 2 * (MaxRiskyPct * port.nav)
      /\ MaxRiskyPct * port.nav \in Nat
  <2>1. port.nav \in Nat
    BY <1>3, <1>4
  <2> QED
    BY <2>1, <1>4
<1>9. 100 * amt <= MaxRiskyPct * port.nav - 100 * port.risky + 50
  <2>1. port.risky \in Nat
    BY <1>3
  <2> HIDE DEF port
  <2> QED
    BY <2>1, <1>7, <1>8
<1>10. MaxRiskyPct * (cash + h) = MaxRiskyPct * cash + MaxRiskyPct * h
       /\ MaxRiskyPct * cash \in Nat /\ MaxRiskyPct * h \in Nat
  <2> HIDE DEF h
  <2> QED
    BY <1>3, <1>4
<1> HIDE DEF port, h
<1>11. CASE h < Dust
  <2>1. port.risky = 0 /\ port.nav = cash
    BY <1>11, <1>3, <1>4
  <2>2. 100 * amt <= MaxRiskyPct * cash + 50
    BY <2>1, <1>9, <1>10
  <2>3. 100 * (lots' * price') <= MaxRiskyPct * (cash + h) + 50 + 100 * h
    BY <2>2, <1>1, <1>3, <1>5, <1>10
  <2> QED
    BY <2>3, <1>11 DEF h
<1>12. CASE ~(h < Dust)
  <2>1. port.risky = h /\ port.nav = cash + h
    BY <1>12, <1>3
  <2>2. 100 * amt <= MaxRiskyPct * (cash + h) - 100 * h + 50
    BY <2>1, <1>9
  <2>3. 100 * (lots' * price') <= MaxRiskyPct * (cash + h) + 50
    BY <2>2, <1>1, <1>3, <1>5, <1>10
  <2>4. MaxRiskyPct * (cash + h) + 50 \in Nat
    BY <1>10
  <2> QED
    BY <2>3, <2>4, <1>12 DEF h
<1> QED
  BY <1>11, <1>12

(* Whatever the market, the feed and the orders do, a buy leaves the whole *)
(* holding within max_risky_exposure_pct, half a cent and the dust that    *)
(* the reconcile had dropped: the cap holds for the account, not only for  *)
(* the books the engine saw.                                               *)
THEOREM ExposureTheorem == Spec => ExposureBounded
<1> DEFINE Bound == lots' > lots /\ last'.quote =>
                      100 * (lots' * price') <=
                        MaxRiskyPct * (cash + lots * price') + 50
                        + (IF lots * price' < Dust THEN 100 * (lots * price') ELSE 0)
<1>1. TypeOK /\ [Next]_vars => [Bound]_vars
  BY BuyWithinCap DEF Next
<1>2. ExposureBounded <=> [][Bound]_vars
  BY DEF ExposureBounded
<1> HIDE DEF Bound
<1> QED
  BY <1>1, <1>2, DeskTypeCorrect, PTL DEF Spec

(* One step of the ladder property: the books understate the account, so a *)
(* drawdown of the account is one of the books.                            *)
LEMMA BuyOffTheLadder ==
  ASSUME TypeOK, Tick, lots' > lots, NEW r \in Ladder,
         DrawdownAtLeast([nav |-> cash + lots * price', hwm |-> hwm'], r.at)
  PROVE  r.action \notin NoRisk
<1>1. PICK m \in Views :
           /\ price' = m.bid + Spread /\ hwm' = Portfolio(m).hwm
           /\ LadderRung(Portfolio(m)) \notin NoRisk
  BY BuyFacts
<1> DEFINE port == Portfolio(m)
           full == cash + lots * price'
<1>2. m \in MarketView /\ m.px \in {0, price'} /\ price' \in Nat
  BY <1>1, ViewFacts, DeskAssumption
<1>3. /\ port \in PortfolioType
      /\ port.risky = IF lots * m.px < Dust THEN 0 ELSE lots * m.px
      /\ port.nav = cash + port.risky
  BY <1>2, PortfolioFacts
<1>4. lots * price' \in Nat /\ lots * 0 = 0 /\ cash \in Nat
  <2>1. lots \in Nat /\ cash \in Nat
    BY DEF TypeOK
  <2>2. lots * price' \in Nat
    BY <2>1, <1>2, ProductNat
  <2>3. lots * 0 = 0
    BY <2>1
  <2> QED
    BY <2>1, <2>2, <2>3
<1>5. port.nav <= full /\ full \in Nat
  BY <1>2, <1>3, <1>4
<1>6. port.nav \in Nat /\ port.hwm \in Nat /\ r.at \in Nat
  BY <1>3, PolicyAssumption DEF PortfolioType
<1>7. r.at * port.hwm \in Nat
  BY <1>6, ProductNat
<1>8. port.hwm > 0 /\ port.hwm > full /\ (port.hwm - full) * 100 >= r.at * port.hwm
  BY <1>1 DEF DrawdownAtLeast
<1>9. DrawdownAtLeast(port, r.at)
  <2> HIDE DEF port, full
  <2>1. port.hwm > port.nav /\ (port.hwm - port.nav) * 100 >= r.at * port.hwm
    BY <1>5, <1>6, <1>7, <1>8
  <2> QED
    BY <2>1, <1>8 DEF DrawdownAtLeast
<1> QED
  BY <1>1, <1>3, <1>9, RungFacts

(* While the account, valued in full, is in a drawdown that the ladder     *)
(* answers with "no new risk" or more, no tick buys: neither dust that the *)
(* books drop nor a quote that is missing can hide the loss.               *)
THEOREM LadderTheorem == Spec => NoRiskInDrawdown
<1> DEFINE Stops == lots' > lots =>
                      \A r \in Ladder :
                        DrawdownAtLeast([nav |-> cash + lots * price', hwm |-> hwm'], r.at)
                          => r.action \notin NoRisk
<1>1. TypeOK /\ [Next]_vars => [Stops]_vars
  BY BuyOffTheLadder DEF Next
<1>2. NoRiskInDrawdown <=> [][Stops]_vars
  BY DEF NoRiskInDrawdown
<1> HIDE DEF Stops
<1> QED
  BY <1>1, <1>2, DeskTypeCorrect, PTL DEF Spec

=============================================================================
