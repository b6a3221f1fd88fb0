------------------------ MODULE SpotExecutor_proofs ------------------------
(***************************************************************************)
(* Proofs about the contract and its backend, for every tick size, unit    *)
(* and slippage, any prices and budgets and any number of orders: an order *)
(* of the agent trades within the amount the policy engine let through, no *)
(* balance goes negative, and the NAV that is read is off by no more than  *)
(* what was at stake meanwhile.                                            *)
(***************************************************************************)
EXTENDS SpotExecutor, Sums

-----------------------------------------------------------------------------
(* Arithmetic *)

LEMMA DivFacts ==
  ASSUME NEW a \in Nat, NEW b \in Nat \ {0}
  PROVE  /\ a \div b \in Nat /\ b * (a \div b) <= a /\ a < b * (a \div b) + b
BY Z3

LEMMA TimesNat == \A a, b \in Nat : a * b \in Nat
OBVIOUS

LEMMA TimesMono ==
  ASSUME NEW a \in Nat, NEW b \in Nat, NEW c \in Nat, a <= b
  PROVE  a * c <= b * c /\ c * a <= c * b
<1>1. PICK d \in Nat : b = a + d
  <2>1. b - a \in Nat /\ b = a + (b - a)
    OBVIOUS
  <2> QED
    BY <2>1
<1>2. b * c = a * c + d * c /\ d * c \in Nat /\ a * c \in Nat
  BY <1>1
<1>3. a * c = c * a /\ b * c = c * b
  OBVIOUS
<1> QED
  BY <1>2, <1>3

(* A factor cancels from an inequality. *)
LEMMA TimesCancel ==
  ASSUME NEW a \in Nat, NEW b \in Nat, NEW c \in Nat \ {0}
  PROVE  /\ a * c <= b * c => a <= b
         /\ a * c < b * c => a < b
<1>1. ASSUME b < a PROVE b * c < a * c
  <2>1. b + 1 <= a /\ b + 1 \in Nat
    BY <1>1
  <2>2. (b + 1) * c <= a * c
    BY <2>1, TimesMono
  <2>3. (b + 1) * c = b * c + c
    OBVIOUS
  <2>4. b * c \in Nat /\ a * c \in Nat
    OBVIOUS
  <2> QED
    BY <2>2, <2>3, <2>4
<1>2. a * c \in Nat /\ b * c \in Nat
  OBVIOUS
<1>3. a = b => a * c = b * c
  OBVIOUS
<1> QED
  BY <1>1, <1>2, <1>3


LEMMA TimesDiv ==
  ASSUME NEW k \in Nat, NEW s \in Nat \ {0}
  PROVE  (k * s) \div s = k
<1> DEFINE q == (k * s) \div s
<1>1. k * s \in Nat
  OBVIOUS
<1>2. q \in Nat /\ s * q <= k * s /\ k * s < s * q + s
  BY <1>1, DivFacts
<1>3. s * q = q * s /\ s * q + s = (q + 1) * s /\ q + 1 \in Nat
  BY <1>2
<1> HIDE DEF q
<1>4. q <= k /\ k < q + 1
  BY <1>2, <1>3, TimesCancel
<1> QED
  BY <1>2, <1>4 DEF q

(* Scaled up, divided and scaled down again is divided. *)
LEMMA ScaledDiv ==
  ASSUME NEW a \in Nat, NEW m \in Nat \ {0}, NEW s \in Nat \ {0}
  PROVE  LET q == ((a * s) \div m) \div s
         IN  q \in Nat /\ m * q <= a /\ a < m * q + m
<1> DEFINE r == (a * s) \div m
           q == r \div s
<1>1. a * s \in Nat
  OBVIOUS
<1>2. r \in Nat /\ m * r <= a * s /\ a * s < m * r + m
  BY <1>1, DivFacts
<1> HIDE DEF r
<1>3. q \in Nat /\ s * q <= r /\ r < s * q + s
  BY <1>2, DivFacts
<1> HIDE DEF q
<1>4. m * q <= a
  <2>1. s * q \in Nat /\ m * q \in Nat /\ m * r \in Nat
    BY <1>2, <1>3
  <2>2. m * (s * q) <= m * r
    BY <1>2, <1>3, <2>1, TimesMono
  <2>3. m * (s * q) = (m * q) * s
    BY <1>3
  <2>4. (m * q) * s <= a * s
    BY <1>1, <1>2, <2>1, <2>2, <2>3
  <2> QED
    BY <2>1, <2>4, TimesCancel
<1>5. a < m * q + m
  <2> DEFINE t == s * q + s
  <2>1. t \in Nat /\ m * q + m \in Nat /\ r + 1 \in Nat /\ r + 1 <= t
    BY <1>2, <1>3
  <2>2. m * (r + 1) <= m * t
    BY <2>1, TimesMono
  <2>3. m * (r + 1) = m * r + m /\ m * t = (m * q + m) * s
    BY <1>2, <1>3
  <2>4. m * r \in Nat /\ m * t \in Nat
    BY <1>2, <2>1
  <2> HIDE DEF t
  <2>5. a * s < (m * q + m) * s
    BY <1>1, <1>2, <2>2, <2>3, <2>4
  <2> QED
    BY <2>1, <2>5, TimesCancel
<1> QED
  BY <1>3, <1>4, <1>5 DEF q, r

-----------------------------------------------------------------------------
(* Sizing *)

(* The price a bound is snapped to is within one tick of it. *)
LEMMA SnapFacts ==
  ASSUME NEW n \in Nat, NEW of \in Nat \ {0}, NEW up
  PROVE  /\ SnapToTick(n, of, up) \in Nat
         /\ up => of * SnapToTick(n, of, up) <= n + of * PriceTick
         /\ ~up => n <= of * SnapToTick(n, of, up) + of * PriceTick
<1> DEFINE t == of * PriceTick
           m == n + (IF up THEN t - 1 ELSE 0)
           k == m \div t
<1>1. t \in Nat \ {0} /\ PriceTick \in Nat \ {0}
  BY ExecutorAssumption
<1> HIDE DEF t
<1>2. m \in Nat /\ m <= n + t /\ n <= m
  BY <1>1
<1> HIDE DEF m
<1>3. k \in Nat /\ t * k <= m /\ m < t * k + t /\ t * k \in Nat
  BY <1>1, <1>2, DivFacts
<1>4. SnapToTick(n, of, up) = PriceTick * k
  BY DEF SnapToTick, t, m
<1> HIDE DEF k
<1>5. of * (PriceTick * k) = t * k /\ PriceTick * k \in Nat
  BY <1>1, <1>3 DEF t
<1>6. of * SnapToTick(n, of, up) = t * k /\ SnapToTick(n, of, up) \in Nat
  BY <1>4, <1>5
<1>7. t * k <= n + t /\ n <= t * k + t
  BY <1>1, <1>2, <1>3
<1> QED
  BY <1>6, <1>7 DEF t

(* The order the backend makes of an amount keeps its terms, whether or    *)
(* not the tick sizes could be had.                                        *)
LEMMA SizedTerms ==
  ASSUME sends \in Nat, NEW side \in {"buy", "sell"}, NEW usd \in Nat, NEW ref \in Nat \ {0},
         NEW ticks \in BOOLEAN
  PROVE  LET o == Sized(side, usd, ref, ticks)
         IN  o \in Orders /\ ~o.limit /\ Terms(o)
<1> DEFINE o == Sized(side, usd, ref, ticks)
           f == IF side = "buy" THEN 100 + Slip ELSE 100 - Slip
           n == ref * f
           raw == (n * Scale) \div 100
           price == IF ticks THEN Worst(side, ref) ELSE raw
           qty == IF ticks THEN Quantity(usd, ref) ELSE (usd * Scale) \div ref
<1>0. Scale \in Nat \ {0} /\ PriceTick \in Nat \ {0} /\ Slip \in 0 .. 99
  BY ExecutorAssumption
<1>1. o = [limit |-> FALSE, cid |-> sends + 1, side |-> side, price |-> price, qty |-> qty,
           usd |-> usd, ref |-> ref]
  BY DEF Sized, ToUfixed
<1>2. f \in Nat /\ n \in Nat /\ n * Scale \in Nat /\ usd * Scale \in Nat
  BY <1>0
<1>3. /\ qty \in Nat /\ (qty \div Scale) \in Nat /\ (qty \div Scale) * ref <= usd
  <2>1. CASE ticks
    <3> DEFINE k == usd \div ref
    <3>1. k \in Nat /\ ref * k <= usd
      BY DivFacts
    <3>2. qty = k * Scale
      BY <2>1 DEF Quantity, ToUfixed
    <3> HIDE DEF k, qty
    <3>3. qty \in Nat /\ qty \div Scale = k
      BY <1>0, <3>1, <3>2, TimesDiv
    <3>4. k * ref = ref * k
      BY <3>1
    <3> QED
      BY <3>1, <3>3, <3>4
  <2>2. CASE ~ticks
    <3> DEFINE r == (usd * Scale) \div ref
    <3>1. qty = r /\ r \in Nat
      BY <1>2, <2>2, DivFacts
    <3>2. (r \div Scale) \in Nat /\ ref * (r \div Scale) <= usd
      BY <1>0, ScaledDiv
    <3> HIDE DEF r, qty
    <3>3. ref * (r \div Scale) = (r \div Scale) * ref
      BY <3>2
    <3> QED
      BY <3>1, <3>2, <3>3
  <2> QED
    BY <2>1, <2>2
<1>4. /\ price \in Nat
      /\ IF side = "buy" THEN 100 * (price \div Scale) <= n + 100 * PriceTick
         ELSE n <= 100 * (price \div Scale) + 100 * PriceTick
  <2>1. CASE ticks
    <3> DEFINE k == SnapToTick(n, 100, side = "buy")
    <3> HIDE DEF n
    <3>1. /\ k \in Nat
          /\ side = "buy" => 100 * k <= n + 100 * PriceTick
          /\ side # "buy" => n <= 100 * k + 100 * PriceTick
      BY <1>2, 100 \in Nat \ {0}, SnapFacts, Zenon
    <3>2. price = k * Scale
      BY <2>1 DEF Worst, ToUfixed, n
    <3> HIDE DEF k, price
    <3>3. price \in Nat /\ price \div Scale = k
      BY <1>0, <3>1, <3>2, TimesDiv
    <3> QED
      BY <3>1, <3>3
  <2>2. CASE ~ticks
    <3> HIDE DEF n
    <3> DEFINE k == raw \div Scale
    <3>1. raw \in Nat
      BY <1>2, DivFacts
    <3>2. k \in Nat /\ 100 * k <= n /\ n < 100 * k + 100
      BY <1>0, <1>2, ScaledDiv
    <3>3. price = raw
      BY <2>2
    <3> HIDE DEF raw, price
    <3>4. price \div Scale = k
      BY <3>3
    <3> HIDE DEF k
    <3>5. 100 * k <= n + 100 * PriceTick /\ n <= 100 * k + 100 * PriceTick
      BY <1>0, <1>2, <3>2
    <3> QED
      BY <3>1, <3>3, <3>4, <3>5
  <2> QED
    BY <2>1, <2>2
<1>5. n = IF side = "buy" THEN (100 + Slip) * ref ELSE (100 - Slip) * ref
  BY <1>0
<1> HIDE DEF price, qty, n
<1>6. o.limit = FALSE /\ o.side = side /\ o.usd = usd /\ o.ref = ref
      /\ o.price = price /\ o.qty = qty
  BY <1>1
<1>7. o \in Orders
  BY <1>1, <1>3, <1>4 DEF Orders
<1> HIDE DEF o
<1>8. Terms(o)
  BY <1>3, <1>4, <1>5, <1>6 DEF Terms, Lots, Price
<1> QED
  BY <1>6, <1>7, <1>8 DEF o

(* What the terms of an order and of its fills come to. *)
LEMMA BudgetOf ==
  ASSUME NEW o \in Orders, NEW b \in Fills, Terms(o), Within(o, b)
  PROVE  LET ticks == 100 * PriceTick * b.lots IN
         IF o.side = "buy"
         THEN 100 * b.cents <= (100 + Slip) * o.usd + ticks
         ELSE /\ b.lots * o.ref <= o.usd
              /\ 100 * b.cents + ticks >= (100 - Slip) * o.ref * b.lots
<1> DEFINE n == b.lots
           c == b.cents
           p == Price(o)
           t == 100 * PriceTick
           up == 100 + Slip
           dn == 100 - Slip
           r == o.ref
           u == o.usd
<1>0. /\ n \in Nat /\ c \in Nat /\ b.left \in Nat /\ r \in Nat /\ u \in Nat
      /\ o.price \in Nat /\ o.qty \in Nat
  BY DEF Orders, Fills
<1>1. p \in Nat /\ Lots(o) \in Nat /\ t \in Nat /\ up \in Nat /\ dn \in Nat
  BY <1>0, ExecutorAssumption, DivFacts DEF Price, Lots
<1>2. n <= Lots(o) /\ Lots(o) * r <= u
  BY <1>0, <1>1 DEF Within, Terms
<1>3. n * r <= u /\ n * r \in Nat
  <2>1. n * r <= Lots(o) * r
    BY <1>0, <1>1, <1>2, TimesMono
  <2>2. n * r \in Nat /\ Lots(o) * r \in Nat
    BY <1>0, <1>1
  <2> QED
    BY <1>0, <1>2, <2>1, <2>2
<1>4. CASE o.side = "buy"
  <2>1. c <= n * p /\ 100 * p <= up * r + t
    BY <1>4 DEF Within, Terms
  <2> HIDE DEF n, c, p, t, up, r, u
  <2>2. n * p \in Nat /\ up * r + t \in Nat /\ up * (n * r) \in Nat /\ n * t \in Nat
        /\ up * u \in Nat /\ 100 * p \in Nat
    BY <1>0, <1>1, <1>3
  <2>3. n * (100 * p) <= n * (up * r + t)
    BY <1>0, <2>1, <2>2, TimesMono
  <2>4. n * (100 * p) = 100 * (n * p) /\ n * (up * r + t) = up * (n * r) + n * t
    BY <1>0, <1>1
  <2>5. up * (n * r) <= up * u
    BY <1>0, <1>1, <1>3, TimesMono
  <2>6. 100 * c <= up * u + n * t
    BY <1>0, <2>1, <2>2, <2>3, <2>4, <2>5
  <2>7. n * t = t * n
    BY <1>0, <1>1
  <2> QED
    BY <1>4, <2>6, <2>7 DEF n, c, t, up, u
<1>5. CASE o.side # "buy"
  <2>1. n * p <= c /\ dn * r <= 100 * p + t
    BY <1>5 DEF Within, Terms
  <2> HIDE DEF n, c, p, t, dn, r, u
  <2>2. n * p \in Nat /\ dn * r \in Nat /\ 100 * p + t \in Nat /\ n * t \in Nat
    BY <1>0, <1>1
  <2>3. (dn * r) * n <= (100 * p + t) * n
    BY <1>0, <2>1, <2>2, TimesMono
  <2>4. (100 * p + t) * n = 100 * (n * p) + t * n /\ t * n \in Nat /\ (dn * r) * n \in Nat
    BY <1>0, <1>1, <2>2
  <2>5. (dn * r) * n <= 100 * c + t * n
    BY <1>0, <2>1, <2>2, <2>3, <2>4
  <2> QED
    BY <1>3, <1>5, <2>5 DEF n, c, t, dn, r, u
<1> QED
  BY <1>4, <1>5

LEMMA InvBudget == IInv => BudgetKept
<1> SUFFICES ASSUME IInv, NEW i \in DOMAIN log, ~log[i].limit
             PROVE  LET ticks == 100 * PriceTick * book[i].lots IN
                    IF log[i].side = "buy"
                    THEN 100 * book[i].cents <= (100 + Slip) * log[i].usd + ticks
                    ELSE /\ book[i].lots * log[i].ref <= log[i].usd
                         /\ 100 * book[i].cents + ticks
                              >= (100 - Slip) * log[i].ref * book[i].lots
  BY DEF BudgetKept
<1>1. log[i] \in Orders /\ Terms(log[i]) /\ Within(log[i], book[i])
  BY DEF IInv, OrdersInv, FillsInv
<1>2. book[i] \in Fills
  BY DEF IInv, OrdersInv, FillsInv
<1> QED
  BY <1>1, <1>2, BudgetOf

-----------------------------------------------------------------------------
(* The steps *)

LEMMA Frame == ASSUME IInv, UNCHANGED <<sends, log, book>>, tx' \in {tx, NoTx} PROVE IInv'
<1>1. tx' = tx \/ tx' = NoTx
  OBVIOUS
<1>2. OrdersInv'
  BY <1>1 DEF IInv, OrdersInv
<1>3. FillsInv' /\ sends' \in Nat
  BY DEF IInv, FillsInv
<1> QED
  BY <1>2, <1>3 DEF IInv

(* An order is placed, by the backend's transaction or by hand. *)
LEMMA PlaceStep ==
  ASSUME IInv, NEW a, NEW o \in Orders, ~o.limit => Terms(o), Place(a, o), sends' = sends,
         tx' \in {tx, NoTx}
  PROVE  IInv'
<1> DEFINE b == [left |-> Lots(o), lots |-> 0, cents |-> 0]
<1>0. /\ log \in Seq(Orders) /\ book \in Seq(Fills) /\ Len(book) = Len(log)
      /\ Len(log) \in Nat
  BY DEF IInv, OrdersInv, FillsInv
<1>1. log' = Append(log, o) /\ book' = Append(book, b)
  BY DEF Place
<1>2. o.qty \in Nat /\ o.price \in Nat
  BY DEF Orders
<1>3. Lots(o) \in Nat /\ Price(o) \in Nat
  BY <1>2, ExecutorAssumption, DivFacts DEF Lots, Price
<1>4. b \in Fills /\ Within(o, b)
  BY <1>3 DEF Fills, Within
<1> HIDE DEF b
<1>5. /\ log' \in Seq(Orders) /\ book' \in Seq(Fills) /\ Len(book') = Len(log')
      /\ DOMAIN log' = 1 .. Len(log) + 1 /\ DOMAIN log = 1 .. Len(log)
      /\ log'[Len(log) + 1] = o /\ book'[Len(log) + 1] = b
      /\ \A i \in 1 .. Len(log) : log'[i] = log[i] /\ book'[i] = book[i]
  BY <1>0, <1>1, <1>4
<1>6. ASSUME NEW i \in DOMAIN log'
      PROVE  (~log'[i].limit => Terms(log'[i])) /\ Within(log'[i], book'[i])
  <2>1. CASE i = Len(log) + 1
    BY <1>4, <1>5, <2>1
  <2>2. CASE i # Len(log) + 1
    <3>1. i \in DOMAIN log
      BY <1>0, <1>5, <2>2
    <3>2. (~log[i].limit => Terms(log[i])) /\ Within(log[i], book[i])
      BY <3>1 DEF IInv, OrdersInv, FillsInv
    <3> QED
      BY <1>5, <3>1, <3>2
  <2> QED
    BY <2>1, <2>2
<1>7. tx' # NoTx => tx' \in Orders /\ ~tx'.limit /\ Terms(tx')
  <2>1. tx' = NoTx \/ tx' = tx
    OBVIOUS
  <2> QED
    BY <2>1 DEF IInv, OrdersInv
<1>8. sends' \in Nat
  BY DEF IInv
<1>9. OrdersInv'
  BY <1>5, <1>6, <1>7 DEF OrdersInv, Terms, Lots, Price
<1>10. FillsInv'
  BY <1>5, <1>6 DEF FillsInv, Within, Lots, Price
<1> QED
  BY <1>8, <1>9, <1>10 DEF IInv

(* An order trades n of its lots at px, no worse than its price. *)
LEMMA TradeStep ==
  ASSUME IInv, NEW i \in Open, NEW n \in 0 .. book[i].left, NEW px \in Nat, Trade(i, n, px),
         n > 0 => IF log[i].side = "buy" THEN px <= Price(log[i]) ELSE px >= Price(log[i])
  PROVE  IInv'
<1> DEFINE o == log[i]
           b == book[i]
           rest == IF o.limit THEN b.left - n ELSE 0
           c == [left |-> rest, lots |-> b.lots + n, cents |-> b.cents + n * px]
<1>0. /\ log \in Seq(Orders) /\ book \in Seq(Fills) /\ Len(book) = Len(log)
      /\ i \in DOMAIN book /\ i \in DOMAIN log /\ DOMAIN book = DOMAIN log
  BY DEF IInv, OrdersInv, FillsInv, Open
<1>1. o \in Orders /\ b \in Fills /\ Within(o, b)
  BY <1>0 DEF IInv, FillsInv
<1>2. /\ b.left \in Nat /\ b.lots \in Nat /\ b.cents \in Nat /\ n \in Nat
      /\ o.qty \in Nat /\ o.price \in Nat /\ n <= b.left /\ o.limit \in BOOLEAN
  BY <1>1 DEF Orders, Fills
<1>3. Lots(o) \in Nat /\ Price(o) \in Nat
  BY <1>2, ExecutorAssumption, DivFacts DEF Lots, Price
<1>4. book' = [book EXCEPT ![i] = c] /\ log' = log /\ UNCHANGED <<sends, tx>>
  BY DEF Trade, backend
<1>5. rest \in Nat /\ rest <= b.left - n
  BY <1>2
<1>6. n * px \in Nat /\ (b.lots + n) * Price(o) = b.lots * Price(o) + n * Price(o)
  BY <1>2, <1>3
<1>7. IF o.side = "buy" THEN n * px <= n * Price(o) ELSE n * Price(o) <= n * px
  <2>1. CASE n = 0
    BY <1>3, <2>1
  <2>2. CASE n > 0
    BY <1>2, <1>3, <2>2, TimesMono
  <2> QED
    BY <1>2, <2>1, <2>2
<1> HIDE DEF rest
<1>8. c \in Fills
  BY <1>2, <1>5, <1>6 DEF Fills
<1>9. Within(o, c)
  <2>1. c.left = rest /\ c.lots = b.lots + n /\ c.cents = b.cents + n * px
    OBVIOUS
  <2> DEFINE l == b.lots * Price(o)
             m == n * Price(o)
             k == n * px
             e == b.cents
  <2>2. l \in Nat /\ m \in Nat /\ k \in Nat /\ e \in Nat
    BY <1>2, <1>3, <1>6
  <2>3. IF o.side = "buy" THEN e <= l ELSE l <= e
    BY <1>1 DEF Within
  <2>4. IF o.side = "buy" THEN k <= m ELSE m <= k
    BY <1>7
  <2> HIDE DEF l, m, k, e
  <2>5. IF o.side = "buy" THEN e + k <= l + m ELSE l + m <= e + k
    BY <2>2, <2>3, <2>4
  <2>6. c.cents = e + k /\ c.lots * Price(o) = l + m
    BY <1>6, <2>1 DEF l, m, k, e
  <2>7. c.left + c.lots <= Lots(o)
    <3>1. b.left + b.lots <= Lots(o)
      BY <1>1 DEF Within
    <3> QED
      BY <1>2, <1>3, <1>5, <2>1, <3>1
  <2> QED
    BY <2>5, <2>6, <2>7 DEF Within
<1> HIDE DEF c
<1>10. book' \in Seq(Fills) /\ Len(book') = Len(log)
  BY <1>0, <1>4, <1>8
<1>11. ASSUME NEW j \in DOMAIN log PROVE Within(log[j], book'[j])
  <2>1. CASE j = i
    BY <1>0, <1>4, <1>9, <2>1
  <2>2. CASE j # i
    <3>1. book'[j] = book[j]
      BY <1>0, <1>4, <2>2
    <3> QED
      BY <3>1 DEF IInv, FillsInv
  <2> QED
    BY <2>1, <2>2
<1>12. FillsInv'
  BY <1>4, <1>10, <1>11 DEF FillsInv, Within, Lots, Price
<1>13. OrdersInv' /\ sends' \in Nat
  BY <1>4 DEF IInv, OrdersInv
<1> QED
  BY <1>12, <1>13 DEF IInv

LEMMA StepInv == IInv /\ [Next]_vars => IInv'
<1> SUFFICES ASSUME IInv, [Next]_vars PROVE IInv'
  OBVIOUS
<1>1. CASE UNCHANGED vars
  BY <1>1, Frame DEF vars, contract, backend
<1>2. CASE ReadInj \/ ReadUsdt \/ Hold
  BY <1>2, Frame DEF ReadInj, ReadUsdt, Read, Hold, contract
<1>3. ASSUME NEW side \in {"buy", "sell"}, NEW usd \in Budgets, NEW ref \in Prices,
             NEW ticks \in BOOLEAN, ExecuteSwap(side, usd, ref, ticks)
      PROVE  IInv'
  <2> DEFINE o == Sized(side, usd, ref, ticks)
  <2>1. usd \in Nat /\ ref \in Nat \ {0} /\ sends \in Nat
    BY ExecutorAssumption DEF IInv
  <2>2. o \in Orders /\ ~o.limit /\ Terms(o)
    BY <2>1, SizedTerms
  <2>3. tx' = tx \/ tx' = o
    BY <1>3 DEF ExecuteSwap
  <2>4. sends' = sends + 1 /\ log' = log /\ book' = book
    BY <1>3 DEF ExecuteSwap, contract
  <2> HIDE DEF o
  <2>5. tx' # NoTx => tx' \in Orders /\ ~tx'.limit /\ Terms(tx')
    BY <2>2, <2>3 DEF IInv, OrdersInv
  <2>6. OrdersInv'
    BY <2>4, <2>5 DEF IInv, OrdersInv, Terms, Lots, Price
  <2>7. FillsInv' /\ sends' \in Nat
    BY <2>1, <2>4 DEF IInv, FillsInv
  <2> QED
    BY <2>6, <2>7 DEF IInv
<1>4. CASE PlaceSpotMarketOrder
  <2>1. tx # NoTx /\ Place(Agent, tx) /\ tx' = NoTx /\ sends' = sends
    BY <1>4 DEF PlaceSpotMarketOrder
  <2>2. tx \in Orders /\ Terms(tx)
    BY <2>1 DEF IInv, OrdersInv
  <2> QED
    BY <2>1, <2>2, PlaceStep
<1>5. CASE Revert
  BY <1>5, Frame DEF Revert, contract
<1>6. CASE Match
  <2>1. PICK i \in Open : \E n \in 1 .. book[i].left, px \in Prices :
               /\ IF log[i].side = "buy" THEN px <= Price(log[i]) ELSE px >= Price(log[i])
               /\ Trade(i, n, px)
    BY <1>6 DEF Match
  <2>2. PICK n \in 1 .. book[i].left, px \in Prices :
               /\ IF log[i].side = "buy" THEN px <= Price(log[i]) ELSE px >= Price(log[i])
               /\ Trade(i, n, px)
    BY <2>1
  <2>3. n \in 0 .. book[i].left /\ px \in Nat
    BY <2>2, ExecutorAssumption
  <2> QED
    BY <2>1, <2>2, <2>3, TradeStep
<1>7. CASE Expire
  <2>1. PICK i \in Open : Trade(i, 0, 0)
    BY <1>7 DEF Expire
  <2>2. 0 \in 0 .. book[i].left
    <3>1. book \in Seq(Fills) /\ i \in DOMAIN book
      BY DEF Open, IInv, FillsInv
    <3>2. book[i] \in Fills
      BY <3>1
    <3> QED
      BY <3>2 DEF Fills
  <2>3. 0 \in Nat /\ ~(0 > 0)
    OBVIOUS
  <2> QED
    BY <2>1, <2>2, <2>3, TradeStep
<1>8. ASSUME NEW m \in Amounts, Receive(m[2]) PROVE IInv'
  BY <1>8, Frame DEF Receive, backend
<1>9. ASSUME NEW a \in Accounts, PlaceSpotLimitOrder(a) PROVE IInv'
  <2>1. PICK side \in {"buy", "sell"}, px \in Prices, n \in Rests :
          /\ Place(a, [limit |-> TRUE, cid |-> 0, side |-> side,
                       price |-> ToUfixed(px), qty |-> ToUfixed(n), usd |-> 0, ref |-> 0])
          /\ UNCHANGED <<backend, hand>>
    BY <1>9 DEF PlaceSpotLimitOrder
  <2> DEFINE o == [limit |-> TRUE, cid |-> 0, side |-> side, price |-> ToUfixed(px),
                   qty |-> ToUfixed(n), usd |-> 0, ref |-> 0]
  <2>2. ToUfixed(px) \in Nat /\ ToUfixed(n) \in Nat
    BY ExecutorAssumption DEF ToUfixed
  <2>3. o \in Orders /\ o.limit
    BY <2>2 DEF Orders
  <2>4. Place(a, o) /\ sends' = sends /\ tx' = tx
    BY <2>1 DEF backend
  <2> HIDE DEF o
  <2> QED
    BY <2>3, <2>4, PlaceStep
<1>10. ASSUME NEW a \in Accounts, NEW m \in Amounts,
              Deposit(a, m[1], m[2]) \/ Withdraw(a, m[1], m[2])
       PROVE  IInv'
  BY <1>10, Frame DEF Deposit, Withdraw, ByHand, backend
<1>11. ASSUME NEW a \in Accounts, NEW new \in Accounts, TransferOwnership(a, new) PROVE IInv'
  BY <1>11, Frame DEF TransferOwnership, ByHand, backend
<1> QED
  BY <1>1, <1>2, <1>3, <1>4, <1>5, <1>6, <1>7, <1>8, <1>9, <1>10, <1>11 DEF Next

(* Whatever the prices, the tick sizes and the fills, and whether or not   *)
(* the backend knew the ticks, replaced a transaction that was not mined,  *)
(* or saw an order partly filled: no order of the agent costs more, or     *)
(* brings less, than the amount let through within slippage and one tick.  *)
THEOREM BudgetTheorem == Spec => []BudgetKept
<1>1. Init => IInv
  BY DEF Init, IInv, OrdersInv, FillsInv
<1> QED
  BY <1>1, StepInv, InvBudget, PTL DEF Spec

-----------------------------------------------------------------------------
(* Balances *)

(* A human amount and its chain format. *)
LEMMA Whole ==
  ASSUME NEW a \in Nat, NEW d \in Denoms
  PROVE  ToChain(a, d) \in Nat /\ FromChain(ToChain(a, d), d) = a
<1>1. Unit[d] \in Nat \ {0}
  BY ExecutorAssumption
<1>2. (a * Unit[d]) \div Unit[d] = a
  BY <1>1, TimesDiv
<1>3. a * Unit[d] \in Nat
  BY <1>1
<1> QED
  BY <1>2, <1>3 DEF ToChain, FromChain

(* Chain amounts add up and compare as the human ones do. *)
LEMMA ChainSums ==
  ASSUME NEW a \in Int, NEW b \in Int, NEW d \in Denoms
  PROVE  /\ ToChain(a, d) \in Int
         /\ ToChain(a + b, d) = ToChain(a, d) + ToChain(b, d)
         /\ ToChain(a - b, d) = ToChain(a, d) - ToChain(b, d)
<1>1. Unit[d] \in Int
  BY ExecutorAssumption
<1> QED
  BY <1>1 DEF ToChain

LEMMA ChainOrder ==
  ASSUME NEW a \in Nat, NEW b \in Nat, NEW d \in Denoms, ToChain(a, d) <= ToChain(b, d)
  PROVE  a <= b
<1>1. Unit[d] \in Nat \ {0}
  BY ExecutorAssumption
<1> QED
  BY <1>1, TimesCancel DEF ToChain

LEMMA ChainSign ==
  ASSUME NEW a \in Int, NEW d \in Denoms, ToChain(a, d) >= 0
  PROVE  a \in Nat
<1> SUFFICES ASSUME a < 0 PROVE FALSE
  OBVIOUS
<1> DEFINE U == Unit[d]
           z == -a
<1>1. U \in Nat \ {0}
  BY ExecutorAssumption
<1>2. z \in Nat /\ 1 <= z
  OBVIOUS
<1>3. ToChain(a, d) = a * U
  BY DEF ToChain
<1> HIDE DEF U
<1>4. z * U = -(a * U) /\ a * U \in Int
  BY <1>1
<1> HIDE DEF z
<1>5. 1 * U <= z * U
  BY <1>1, <1>2, TimesMono
<1>6. z * U <= 0
  BY <1>3, <1>4
<1> QED
  BY <1>1, <1>2, <1>5, <1>6

(* The human amount n lots of an order lock. *)
Needs(o, n) == IF o.side = "buy" THEN n * Price(o) ELSE n

LEMMA OrderFacts ==
  ASSUME NEW o \in Orders
  PROVE  /\ Lots(o) \in Nat /\ Price(o) \in Nat /\ o.side \in {"buy", "sell"}
         /\ Gives(o) \in Denoms /\ Gets(o) \in Denoms /\ Gives(o) # Gets(o)
         /\ Denoms = {Gives(o), Gets(o)}
         /\ \A n \in Nat : Needs(o, n) \in Nat /\ Margin(o, n) = ToChain(Needs(o, n), Gives(o))
<1>1. o.qty \in Nat /\ o.price \in Nat /\ o.side \in {"buy", "sell"}
  BY DEF Orders
<1>2. Lots(o) \in Nat /\ Price(o) \in Nat
  BY <1>1, ExecutorAssumption, DivFacts DEF Lots, Price
<1>3. /\ Gives(o) \in Denoms /\ Gets(o) \in Denoms /\ Gives(o) # Gets(o)
      /\ Denoms = {Gives(o), Gets(o)}
  BY <1>1 DEF Gives, Gets, Denoms
<1>4. \A n \in Nat : Needs(o, n) \in Nat
  BY <1>2 DEF Needs
<1>5. \A n \in Nat : Margin(o, n) = ToChain(Needs(o, n), Gives(o))
  BY DEF Margin, Needs
<1> QED
  BY <1>1, <1>2, <1>3, <1>4, <1>5

(* What the orders and their books are, of a state of the invariant. *)
LEMMA BookFacts ==
  ASSUME IInv
  PROVE  /\ log \in Seq(Orders) /\ book \in Seq(Fills) /\ Len(log) \in Nat
         /\ DOMAIN log = 1 .. Len(log) /\ DOMAIN book = 1 .. Len(log)
         /\ IsFiniteSet(DOMAIN log)
         /\ \A i \in DOMAIN log :
               /\ log[i] \in Orders /\ book[i].left \in Nat /\ book[i].lots \in Nat
               /\ book[i].left + book[i].lots <= Lots(log[i])
<1>1. /\ log \in Seq(Orders) /\ book \in Seq(Fills) /\ Len(book) = Len(log)
      /\ \A i \in DOMAIN log : Within(log[i], book[i])
  BY DEF IInv, OrdersInv, FillsInv
<1>2. Len(log) \in Nat /\ DOMAIN log = 1 .. Len(log) /\ DOMAIN book = 1 .. Len(log)
  BY <1>1
<1>3. IsFiniteSet(1 .. Len(log))
  BY <1>2, FS_Interval
<1>4. \A i \in DOMAIN log : log[i] \in Orders /\ book[i] \in Fills
  BY <1>1, <1>2
<1>5. ASSUME NEW i \in DOMAIN log
      PROVE  /\ book[i].left \in Nat /\ book[i].lots \in Nat
             /\ book[i].left + book[i].lots <= Lots(log[i])
  BY <1>1, <1>4 DEF Fills, Within
<1> QED
  BY <1>1, <1>2, <1>3, <1>4, <1>5

LEMMA LockFacts ==
  ASSUME IInv, NEW d \in Denoms
  PROVE  /\ \A i \in DOMAIN log :
               /\ Lock(i, d) \in Nat
               /\ Lock(i, d) = IF Gives(log[i]) = d THEN Needs(log[i], book[i].left) ELSE 0
               /\ i \notin Open => Lock(i, d) = 0
         /\ Locks(d) \in Nat
<1>1. ASSUME NEW i \in DOMAIN log
      PROVE  /\ Lock(i, d) \in Nat
             /\ Lock(i, d) = IF Gives(log[i]) = d THEN Needs(log[i], book[i].left) ELSE 0
             /\ i \notin Open => Lock(i, d) = 0
  <2>1. log[i] \in Orders /\ book[i].left \in Nat /\ i \in DOMAIN book
    BY BookFacts
  <2>2. Needs(log[i], book[i].left) \in Nat /\ Price(log[i]) \in Nat
    BY <2>1, OrderFacts
  <2>3. Lock(i, d) = IF Gives(log[i]) = d THEN Needs(log[i], book[i].left) ELSE 0
    BY DEF Lock, Needs
  <2>4. i \notin Open => book[i].left = 0
    BY <2>1 DEF Open
  <2>5. book[i].left = 0 => Needs(log[i], book[i].left) = 0
    BY <2>2 DEF Needs
  <2> QED
    BY <2>2, <2>3, <2>4, <2>5
<1> DEFINE f == [i \in DOMAIN log |-> Lock(i, d)]
<1>2. \A i \in DOMAIN log : f[i] \in Nat
  BY <1>1
<1>3. SumFunctionOnSet(f, DOMAIN log) \in Nat
  <2> HIDE DEF f
  <2> QED
    BY <1>2, BookFacts, SumNat
<1> QED
  BY <1>1, <1>3 DEF Locks

(* The human balances. *)
LEMMA FundsFacts ==
  ASSUME IInv, FundsInv, NEW d \in Denoms
  PROVE  /\ FromChain(avail[d], d) \in Nat
         /\ avail[d] = ToChain(FromChain(avail[d], d), d)
         /\ total[d] = ToChain(FromChain(avail[d], d) + Locks(d), d)
         /\ Held[d] = FromChain(avail[d], d) + Locks(d) /\ Held[d] \in Nat
         /\ avail[d] <= total[d]
<1> DEFINE a == FromChain(avail[d], d)
<1>1. avail[d] \in Nat /\ avail[d] = ToChain(a, d) /\ total[d] = ToChain(a + Locks(d), d)
  BY DEF FundsInv
<1>2. a \in Nat
  <2>1. Unit[d] \in Nat \ {0}
    BY ExecutorAssumption
  <2> QED
    BY <1>1, <2>1, DivFacts DEF FromChain
<1>3. Locks(d) \in Nat
  BY LockFacts
<1> HIDE DEF a
<1>4. a + Locks(d) \in Nat
  BY <1>2, <1>3
<1>5. FromChain(total[d], d) = a + Locks(d)
  BY <1>1, <1>4, Whole
<1>6. Held[d] = FromChain(total[d], d)
  BY DEF Held, FromChain
<1>7. ToChain(a + Locks(d), d) = ToChain(a, d) + ToChain(Locks(d), d) /\ ToChain(Locks(d), d) \in Nat
  BY <1>2, <1>3, ChainSums, Whole
<1>8. avail[d] <= total[d]
  BY <1>1, <1>7
<1> QED
  BY <1>1, <1>2, <1>4, <1>5, <1>6, <1>8 DEF a

(* To have such balances after a step is to have the invariant. *)
LEMMA FundsStep ==
  ASSUME avail' \in [Denoms -> Int], total' \in [Denoms -> Int],
         \A d \in Denoms : Locks(d)' \in Nat,
         \A d \in Denoms : \E a \in Nat :
            avail'[d] = ToChain(a, d) /\ total'[d] = ToChain(a + Locks(d)', d)
  PROVE  FundsInv'
<1>1. ASSUME NEW d \in Denoms
      PROVE  /\ avail'[d] \in Nat /\ total'[d] \in Nat
             /\ avail'[d] = ToChain(FromChain(avail'[d], d), d)
             /\ total'[d] = ToChain(FromChain(avail'[d], d) + Locks(d)', d)
  <2> DEFINE k == Locks(d)'
  <2>1. PICK a \in Nat : avail'[d] = ToChain(a, d) /\ total'[d] = ToChain(a + k, d)
    OBVIOUS
  <2>2. k \in Nat
    OBVIOUS
  <2> HIDE DEF k
  <2>3. a + k \in Nat
    BY <2>1, <2>2
  <2>4. FromChain(avail'[d], d) = a /\ avail'[d] \in Nat /\ total'[d] \in Nat
    BY <2>1, <2>3, Whole
  <2>5. total'[d] = ToChain(FromChain(avail'[d], d) + k, d)
    BY <2>1, <2>4
  <2> QED
    BY <2>1, <2>4, <2>5 DEF k
<1> QED
  BY <1>1 DEF FundsInv, ToChain, FromChain

(* An order that is placed locks what it gives. *)
LEMMA LocksPlace ==
  ASSUME IInv, NEW o \in Orders, NEW d \in Denoms, log' = Append(log, o),
         book' = Append(book, [left |-> Lots(o), lots |-> 0, cents |-> 0])
  PROVE  Locks(d)' = Locks(d) + (IF Gives(o) = d THEN Needs(o, Lots(o)) ELSE 0)
<1> DEFINE D == DOMAIN log
           y == Len(log) + 1
           f == [i \in D |-> Lock(i, d)]
           g == [i \in D \cup {y} |-> Lock(i, d)']
           n == IF Gives(o) = d THEN Needs(o, Lots(o)) ELSE 0
<1>1. /\ log \in Seq(Orders) /\ book \in Seq(Fills) /\ Len(log) \in Nat /\ D = 1 .. Len(log)
      /\ DOMAIN book = 1 .. Len(log) /\ IsFiniteSet(D)
  BY BookFacts
<1>2. Len(book) = Len(log)
  BY DEF IInv, FillsInv
<1>3. /\ DOMAIN log' = D \cup {y} /\ y \notin D /\ log'[y] = o /\ book'[y].left = Lots(o)
      /\ \A i \in D : log'[i] = log[i] /\ book'[i] = book[i]
  <2>1. Len(log') = y /\ DOMAIN log' = 1 .. y
    BY <1>1
  <2>2. 1 .. y = D \cup {y} /\ y \notin D
    BY <1>1
  <2>3. \A i \in D : log'[i] = log[i] /\ book'[i] = book[i]
    BY <1>1, <1>2
  <2>4. log'[y] = o /\ book'[y] = [left |-> Lots(o), lots |-> 0, cents |-> 0]
    BY <1>1, <1>2
  <2>5. book'[y].left = Lots(o)
    <3> DEFINE b == [left |-> Lots(o), lots |-> 0, cents |-> 0]
    <3>1. book'[y] = b
      BY <2>4
    <3>2. b.left = Lots(o)
      OBVIOUS
    <3> HIDE DEF b, y
    <3> QED
      BY <3>1, <3>2
  <2> HIDE DEF D, y
  <2> QED
    BY <2>1, <2>2, <2>3, <2>4, <2>5
<1>4. \A i \in D : f[i] \in Int
  BY LockFacts
<1>5. \A i \in D : g[i] = f[i]
  BY <1>3 DEF Lock, Gives, Price
<1>6. g[y] = n
  BY <1>3 DEF Lock, Gives, Price, Needs
<1>7. n \in Int
  BY OrderFacts
<1>8. Locks(d) = SumFunctionOnSet(f, D)
  BY DEF Locks
<1>9. Locks(d)' = SumFunctionOnSet(g, D \cup {y})
  BY <1>3 DEF Locks
<1> HIDE DEF f, g, n, y, D
<1>10. SumFunctionOnSet(g, D \cup {y}) = SumFunctionOnSet(f, D) + g[y]
  <2>1. g[y] \in Int
    BY <1>6, <1>7
  <2>2. /\ IsFiniteSet(D) /\ y \notin D
        /\ \A i \in D : f[i] \in Int /\ g[i] = f[i]
    BY <1>1, <1>3, <1>4, <1>5
  <2> QED
    BY <2>1, <2>2, SumGrow
<1> QED
  BY <1>6, <1>8, <1>9, <1>10 DEF n

(* One that trades or ends unlocks what it no longer needs. *)
LEMMA LocksTrade ==
  ASSUME IInv, NEW i \in DOMAIN log, NEW c, book' = [book EXCEPT ![i] = c], log' = log,
         c.left \in Nat, NEW d \in Denoms
  PROVE  Locks(d)' = Locks(d) + (IF Gives(log[i]) = d
                                 THEN Needs(log[i], c.left) - Needs(log[i], book[i].left)
                                 ELSE 0)
<1> DEFINE D == DOMAIN log
           o == log[i]
           f == [j \in D |-> Lock(j, d)]
           g == [j \in D |-> Lock(j, d)']
           n == IF Gives(o) = d THEN Needs(o, c.left) ELSE 0
           m == IF Gives(o) = d THEN Needs(o, book[i].left) ELSE 0
<1>1. /\ IsFiniteSet(D) /\ i \in D /\ DOMAIN book = D /\ o \in Orders /\ book[i].left \in Nat
  BY BookFacts
<1>2. book'[i] = c /\ \A j \in D : j # i => book'[j] = book[j]
  BY <1>1
<1>3. \A j \in D : f[j] \in Int
  BY LockFacts
<1>4. \A j \in D \ {i} : g[j] = f[j]
  BY <1>2 DEF Lock, Gives, Price
<1>5. g[i] = n
  BY <1>1, <1>2 DEF Lock, Gives, Price, Needs
<1>6. f[i] = m
  BY <1>1, LockFacts
<1>7. n \in Int /\ m \in Int
  BY <1>1, OrderFacts
<1>8. Locks(d) = SumFunctionOnSet(f, D) /\ Locks(d)' = SumFunctionOnSet(g, D)
  BY DEF Locks
<1>9. n - m = IF Gives(o) = d THEN Needs(o, c.left) - Needs(o, book[i].left) ELSE 0
  OBVIOUS
<1> HIDE DEF f, g, n, m, D
<1>10. SumFunctionOnSet(g, D) = SumFunctionOnSet(f, D) + (g[i] - f[i])
  BY <1>1, <1>3, <1>4, <1>5, <1>7, SumChange
<1> QED
  BY <1>5, <1>6, <1>8, <1>9, <1>10

(* The locks stay where the orders do. *)
LEMMA LocksSame ==
  ASSUME UNCHANGED <<log, book>>, NEW d PROVE Locks(d)' = Locks(d)
BY DEF Locks, Lock, Gives, Price

(* Placing an order moves funds from available to locked. *)
LEMMA FundsPlace ==
  ASSUME IInv, FundsInv, NEW a, NEW o \in Orders, Place(a, o)
  PROVE  FundsInv'
<1> DEFINE g == Gives(o)
           k == Needs(o, Lots(o))
<1>1. /\ Lots(o) \in Nat /\ g \in Denoms /\ k \in Nat
      /\ Margin(o, Lots(o)) = ToChain(k, g)
  BY OrderFacts
<1>2. /\ avail' = [avail EXCEPT ![g] = @ - ToChain(k, g)] /\ total' = total
      /\ ToChain(k, g) <= avail[g]
      /\ log' = Append(log, o)
      /\ book' = Append(book, [left |-> Lots(o), lots |-> 0, cents |-> 0])
  BY <1>1 DEF Place, Accepts
<1>3. avail \in [Denoms -> Nat] /\ total \in [Denoms -> Nat]
  BY DEF FundsInv
<1>4. ASSUME NEW d \in Denoms
      PROVE  /\ Locks(d)' \in Nat
             /\ \E x \in Nat : /\ avail'[d] = ToChain(x, d)
                               /\ total'[d] = ToChain(x + Locks(d)', d)
  <2> DEFINE x == FromChain(avail[d], d)
             l == Locks(d)
             m == Locks(d)'
  <2>1. /\ x \in Nat /\ avail[d] = ToChain(x, d) /\ total[d] = ToChain(x + l, d) /\ l \in Nat
    BY FundsFacts, LockFacts
  <2>2. m = l + IF g = d THEN k ELSE 0
    BY <1>2, LocksPlace
  <2> HIDE DEF x, l, m, k
  <2>3. CASE g = d
    <3>1. k <= x
      BY <1>1, <1>2, <2>1, <2>3, ChainOrder
    <3>2. x - k \in Nat /\ ToChain(x - k, d) = ToChain(x, d) - ToChain(k, d)
      BY <1>1, <2>1, <3>1, ChainSums
    <3>3. avail'[d] = ToChain(x - k, d)
      BY <1>2, <1>3, <2>1, <2>3, <3>2
    <3>4. (x - k) + m = x + l /\ m \in Nat
      BY <1>1, <2>1, <2>2, <2>3
    <3>5. total'[d] = ToChain((x - k) + m, d)
      BY <1>2, <2>1, <3>4
    <3> QED
      BY <3>2, <3>3, <3>4, <3>5 DEF m
  <2>4. CASE g # d
    <3>1. avail'[d] = ToChain(x, d) /\ m = l
      BY <1>2, <1>3, <2>1, <2>2, <2>4
    <3>2. total'[d] = ToChain(x + m, d)
      BY <1>2, <2>1, <3>1
    <3> QED
      BY <2>1, <3>1, <3>2 DEF m
  <2> QED
    BY <2>3, <2>4
<1>5. avail' \in [Denoms -> Int] /\ total' \in [Denoms -> Int]
  <2>1. avail[g] - ToChain(k, g) \in Int
    BY <1>1, <1>3, ChainSums
  <2>2. avail \in [Denoms -> Int] /\ total \in [Denoms -> Int]
    BY <1>3
  <2> HIDE DEF g, k
  <2> QED
    BY <1>2, <2>1, <2>2
<1> QED
  BY <1>4, <1>5, FundsStep

(* What is locked for n lots and for the rest is locked for both. *)
LEMMA NeedsAdd ==
  ASSUME NEW o \in Orders, NEW n \in Nat, NEW r \in Nat, NEW left \in Nat, n + r <= left
  PROVE  Needs(o, n) + Needs(o, r) <= Needs(o, left)
<1>1. Price(o) \in Nat
  BY OrderFacts
<1>2. CASE o.side = "buy"
  <2>1. (n + r) * Price(o) <= left * Price(o) /\ (n + r) * Price(o) = n * Price(o) + r * Price(o)
    BY <1>1, TimesMono
  <2> QED
    BY <1>2, <2>1 DEF Needs
<1>3. CASE o.side # "buy"
  BY <1>3 DEF Needs
<1> QED
  BY <1>2, <1>3

(* The human cost and yield of n lots at px. *)
Pays(o, n, px) == IF o.side = "buy" THEN n * px ELSE n
Brings(o, n, px) == IF o.side = "buy" THEN n ELSE n * px

(* A trade moves funds from locked to spent and gained, and unlocks the    *)
(* rest of a market order.                                                 *)
LEMMA FundsTrade ==
  ASSUME IInv, FundsInv, NEW i \in Open, NEW n \in 0 .. book[i].left, NEW px \in Nat,
         Trade(i, n, px),
         n > 0 => IF log[i].side = "buy" THEN px <= Price(log[i]) ELSE px >= Price(log[i])
  PROVE  FundsInv'
<1> DEFINE o == log[i]
           b == book[i]
           rest == IF o.limit THEN b.left - n ELSE 0
           c == [left |-> rest, lots |-> b.lots + n, cents |-> b.cents + n * px]
           g == Gives(o)
           t == Gets(o)
           nl == Needs(o, b.left)
           nr == Needs(o, rest)
           pay == Pays(o, n, px)
           gain == Brings(o, n, px)
<1>1. i \in DOMAIN log /\ o \in Orders /\ b.left \in Nat /\ n \in Nat /\ n <= b.left
  BY BookFacts DEF Open
<1>2. /\ Price(o) \in Nat /\ g \in Denoms /\ t \in Denoms /\ g # t /\ Denoms = {g, t}
      /\ o.side \in {"buy", "sell"}
  BY <1>1, OrderFacts
<1>3. rest \in Nat /\ n + rest <= b.left
  BY <1>1
<1> HIDE DEF rest
<1>4. nl \in Nat /\ nr \in Nat /\ Needs(o, n) \in Nat /\ Needs(o, n) + nr <= nl
  BY <1>1, <1>3, OrderFacts, NeedsAdd
<1>5. pay \in Nat /\ gain \in Nat
  BY <1>1 DEF Pays, Brings
<1>6. pay <= Needs(o, n)
  <2>1. CASE o.side = "buy"
    <3>1. CASE n = 0
      BY <1>2, <2>1, <3>1 DEF Pays, Needs
    <3>2. CASE n > 0
      <4>1. px <= Price(o)
        BY <2>1, <3>2
      <4>2. n * px <= n * Price(o)
        BY <1>1, <1>2, <4>1, TimesMono
      <4> QED
        BY <2>1, <4>2 DEF Pays, Needs
    <3> QED
      BY <1>1, <3>1, <3>2
  <2>2. CASE o.side # "buy"
    BY <1>1, <2>2 DEF Pays, Needs
  <2> QED
    BY <2>1, <2>2
<1>7. /\ Margin(o, b.left) = ToChain(nl, g) /\ Margin(o, rest) = ToChain(nr, g)
      /\ Cost(o, n, px) = ToChain(pay, g) /\ Yield(o, n, px) = ToChain(gain, t)
  BY <1>1, <1>3, OrderFacts DEF Cost, Yield, Pays, Brings
<1>8. /\ book' = [book EXCEPT ![i] = c] /\ log' = log
      /\ avail' = [avail EXCEPT
                ![g] = @ + Margin(o, b.left) - Margin(o, rest) - Cost(o, n, px),
                ![t] = @ + Yield(o, n, px)]
      /\ total' = [total EXCEPT ![g] = @ - Cost(o, n, px), ![t] = @ + Yield(o, n, px)]
  BY DEF Trade, rest
<1>9. c.left = rest
  OBVIOUS
<1>10. avail \in [Denoms -> Nat] /\ total \in [Denoms -> Nat]
  BY DEF FundsInv
<1> HIDE DEF o, b, c, g, t, nl, nr, pay, gain
<1>11. /\ avail'[g] = avail[g] + ToChain(nl, g) - ToChain(nr, g) - ToChain(pay, g)
       /\ avail'[t] = avail[t] + ToChain(gain, t)
       /\ total'[g] = total[g] - ToChain(pay, g) /\ total'[t] = total[t] + ToChain(gain, t)
       /\ DOMAIN avail' = Denoms /\ DOMAIN total' = Denoms
       /\ avail' = [d \in Denoms |-> avail'[d]] /\ total' = [d \in Denoms |-> total'[d]]
  BY <1>2, <1>7, <1>8, <1>10
<1>12. ASSUME NEW d \in Denoms
       PROVE  Locks(d)' = Locks(d) + (IF g = d THEN nr - nl ELSE 0) /\ Locks(d) \in Nat
  <2>1. Locks(d)' = Locks(d) + (IF Gives(log[i]) = d
                                THEN Needs(log[i], c.left) - Needs(log[i], book[i].left)
                                ELSE 0)
    BY <1>1, <1>3, <1>8, <1>9, LocksTrade
  <2> QED
    BY <1>9, <2>1, LockFacts DEF g, nr, nl, o, b
<1>13. ASSUME NEW d \in Denoms, d = g
       PROVE  /\ Locks(d)' \in Nat
              /\ \E x \in Nat : /\ avail'[d] = ToChain(x, d)
                                /\ total'[d] = ToChain(x + Locks(d)', d)
  <2> DEFINE a == FromChain(avail[d], d)
             l == Locks(d)
             m == Locks(d)'
             x == ((a + nl) - nr) - pay
  <2>1. a \in Nat /\ avail[d] = ToChain(a, d) /\ total[d] = ToChain(a + l, d)
    BY FundsFacts
  <2>2. l \in Nat /\ m = l + (nr - nl) /\ nl <= l
    <3>1. nl <= l
      <4>1. Lock(i, d) = nl
        BY <1>1, <1>13, LockFacts DEF nl, o, b, g
      <4> DEFINE D == DOMAIN log
                 f == [j \in D |-> Lock(j, d)]
      <4>2. IsFiniteSet(D) /\ i \in D /\ \A j \in D : f[j] \in Nat
        BY <1>1, <1>2, BookFacts, LockFacts
      <4>3. f[i] = nl /\ l = SumFunctionOnSet(f, D)
        BY <1>1, <4>1 DEF Locks
      <4> HIDE DEF f, D, l
      <4>4. SumFunctionOnSet(f, D) = f[i] + SumFunctionOnSet(f, D \ {i})
        BY <4>2, SumTake
      <4>5. SumFunctionOnSet(f, D \ {i}) \in Nat
        <5>1. IsFiniteSet(D \ {i})
          BY <4>2, FS_Subset
        <5> QED
          BY <4>2, <5>1, SumNat
      <4> QED
        BY <1>4, <4>3, <4>4, <4>5
    <3> QED
      BY <1>12, <1>13, <3>1
  <2> HIDE DEF a, l, m
  <2>3. x \in Nat /\ x + m = (a + l) - pay /\ m \in Nat
    BY <1>4, <1>5, <1>6, <2>1, <2>2
  <2>4. ToChain(x, d) = ToChain(a, d) + ToChain(nl, d) - ToChain(nr, d) - ToChain(pay, d)
    <3> DEFINE y == a + nl
               z == y - nr
    <3>1. a \in Int /\ nl \in Int /\ nr \in Int /\ pay \in Int /\ y \in Int /\ z \in Int
      BY <1>4, <1>5, <2>1
    <3>2. x = z - pay
      OBVIOUS
    <3> HIDE DEF x
    <3>3. ToChain(y, d) = ToChain(a, d) + ToChain(nl, d) /\ ToChain(a, d) \in Int
      BY <3>1, ChainSums
    <3> HIDE DEF y
    <3>4. ToChain(z, d) = ToChain(y, d) - ToChain(nr, d)
      BY <3>1, ChainSums
    <3> HIDE DEF z
    <3>5. ToChain(z - pay, d) = ToChain(z, d) - ToChain(pay, d)
      BY <3>1, ChainSums
    <3>6. ToChain(nl, d) \in Int /\ ToChain(nr, d) \in Int /\ ToChain(pay, d) \in Int
      BY <3>1, ChainSums
    <3>7. ToChain(x, d) = ToChain(z - pay, d)
      BY <3>2
    <3> QED
      BY <3>3, <3>4, <3>5, <3>6, <3>7
  <2>5. ToChain(x + m, d) = ToChain(a + l, d) - ToChain(pay, d)
    <3>1. a + l \in Int /\ pay \in Int
      BY <1>5, <2>1, <2>2
    <3>2. ToChain((a + l) - pay, d) = ToChain(a + l, d) - ToChain(pay, d)
      BY <1>2, <3>1, ChainSums
    <3>3. x + m = (a + l) - pay
      BY <2>3
    <3> HIDE DEF x
    <3> QED
      BY <3>2, <3>3
  <2> HIDE DEF x
  <2>6. avail'[d] = ToChain(x, d) /\ total'[d] = ToChain(x + m, d)
    BY <1>11, <1>13, <2>1, <2>4, <2>5
  <2> QED
    BY <2>3, <2>6 DEF m
<1>14. ASSUME NEW d \in Denoms, d = t
       PROVE  /\ Locks(d)' \in Nat
              /\ \E x \in Nat : /\ avail'[d] = ToChain(x, d)
                                /\ total'[d] = ToChain(x + Locks(d)', d)
  <2> DEFINE a == FromChain(avail[d], d)
             l == Locks(d)
             m == Locks(d)'
             x == a + gain
  <2>1. a \in Nat /\ avail[d] = ToChain(a, d) /\ total[d] = ToChain(a + l, d)
    BY FundsFacts
  <2>2. l \in Nat /\ m = l
    <3>1. m = l + 0 /\ l \in Nat
      BY <1>2, <1>12, <1>14
    <3> HIDE DEF m, l
    <3> QED
      BY <3>1
  <2> HIDE DEF a, l, m
  <2>3. x \in Nat /\ x + m = (a + l) + gain /\ a + l \in Int /\ gain \in Int
    BY <1>5, <2>1, <2>2
  <2>4. ToChain(x, d) = ToChain(a, d) + ToChain(gain, d)
    <3>1. a \in Int /\ gain \in Int
      BY <2>1, <2>3
    <3> QED
      BY <3>1, ChainSums
  <2>5. ToChain((a + l) + gain, d) = ToChain(a + l, d) + ToChain(gain, d)
    <3> DEFINE y == a + l
    <3>1. y \in Int /\ gain \in Int
      BY <2>3
    <3> HIDE DEF y
    <3>2. ToChain(y + gain, d) = ToChain(y, d) + ToChain(gain, d)
      BY <3>1, ChainSums
    <3> QED
      BY <3>2 DEF y
  <2> HIDE DEF x
  <2>6. avail'[d] = ToChain(x, d) /\ total'[d] = ToChain(x + m, d)
    BY <1>11, <1>14, <2>1, <2>3, <2>4, <2>5
  <2> QED
    BY <2>2, <2>3, <2>6 DEF m
<1>15. avail' \in [Denoms -> Int] /\ total' \in [Denoms -> Int]
  <2>1. /\ ToChain(nl, g) \in Int /\ ToChain(nr, g) \in Int /\ ToChain(pay, g) \in Int
        /\ ToChain(gain, t) \in Int
    <3>1. nl \in Int /\ nr \in Int /\ pay \in Int /\ gain \in Int
      BY <1>4, <1>5
    <3> QED
      BY <1>2, <3>1, ChainSums
  <2>2. avail[g] \in Int /\ avail[t] \in Int /\ total[g] \in Int /\ total[t] \in Int
    BY <1>2, <1>10
  <2>3. /\ avail'[g] \in Int /\ avail'[t] \in Int /\ total'[g] \in Int /\ total'[t] \in Int
    BY <1>11, <2>1, <2>2
  <2>4. \A d \in Denoms : avail'[d] \in Int /\ total'[d] \in Int
    BY <1>2, <2>3
  <2> QED
    BY <1>11, <2>4
<1>16. \A d \in Denoms : /\ Locks(d)' \in Nat
                         /\ \E x \in Nat : /\ avail'[d] = ToChain(x, d)
                                           /\ total'[d] = ToChain(x + Locks(d)', d)
  BY <1>2, <1>13, <1>14
<1> QED
  BY <1>15, <1>16, FundsStep

(* A deposit or a withdrawal moves both balances. *)
LEMMA FundsMove ==
  ASSUME IInv, FundsInv, UNCHANGED <<log, book>>, NEW d \in Denoms, NEW v \in Int,
         -ToChain(v, d) <= avail[d],
         avail' = [avail EXCEPT ![d] = @ + ToChain(v, d)],
         total' = [total EXCEPT ![d] = @ + ToChain(v, d)]
  PROVE  FundsInv'
<1>1. avail \in [Denoms -> Nat] /\ total \in [Denoms -> Nat]
  BY DEF FundsInv
<1>2. ASSUME NEW e \in Denoms
      PROVE  /\ Locks(e)' \in Nat
             /\ \E x \in Nat : /\ avail'[e] = ToChain(x, e)
                               /\ total'[e] = ToChain(x + Locks(e)', e)
  <2> DEFINE a == FromChain(avail[e], e)
             l == Locks(e)
  <2>1. a \in Nat /\ avail[e] = ToChain(a, e) /\ total[e] = ToChain(a + l, e) /\ l \in Nat
    BY FundsFacts, LockFacts
  <2>2. Locks(e)' = l
    BY LocksSame
  <2> HIDE DEF a, l
  <2>3. CASE e = d
    <3>1. a + v \in Int /\ ToChain(a + v, e) = ToChain(a, e) + ToChain(v, e)
      BY <2>1, ChainSums
    <3>2. avail'[e] = ToChain(a + v, e)
      BY <1>1, <2>1, <2>3, <3>1
    <3>3. a + v \in Nat
      <4>1. avail[d] \in Int /\ ToChain(v, d) \in Int
        BY <1>1, ChainSums
      <4>2. ToChain(a + v, e) >= 0
        BY <2>1, <2>3, <3>1, <4>1
      <4> QED
        BY <3>1, <4>2, ChainSign
    <3>4. (a + v) + l = (a + l) + v /\ a + l \in Int
      BY <2>1
    <3>5. ToChain((a + l) + v, e) = ToChain(a + l, e) + ToChain(v, e)
      BY <3>4, ChainSums
    <3>6. total'[e] = ToChain((a + v) + l, e)
      BY <1>1, <2>1, <2>3, <3>4, <3>5
    <3> QED
      BY <2>1, <2>2, <3>2, <3>3, <3>6
  <2>4. CASE e # d
    <3>1. avail'[e] = ToChain(a, e) /\ total'[e] = ToChain(a + l, e)
      BY <1>1, <2>1, <2>4
    <3> QED
      BY <2>1, <2>2, <3>1
  <2> QED
    BY <2>3, <2>4
<1>3. avail' \in [Denoms -> Int] /\ total' \in [Denoms -> Int]
  <2>1. ToChain(v, d) \in Int
    BY ChainSums
  <2>2. avail \in [Denoms -> Int] /\ total \in [Denoms -> Int]
    BY <1>1
  <2>3. avail[d] + ToChain(v, d) \in Int /\ total[d] + ToChain(v, d) \in Int
    BY <2>1, <2>2
  <2> QED
    BY <2>2, <2>3
<1> QED
  BY <1>2, <1>3, FundsStep

-----------------------------------------------------------------------------
(* Prices *)

(* Snapped up is not below. *)
LEMMA SnapUp ==
  ASSUME NEW n \in Nat, NEW of \in Nat \ {0}
  PROVE  n <= of * SnapToTick(n, of, TRUE)
<1> DEFINE t == of * PriceTick
           m == n + (t - 1)
           k == m \div t
<1>1. t \in Nat \ {0} /\ PriceTick \in Nat \ {0}
  BY ExecutorAssumption
<1>2. SnapToTick(n, of, TRUE) = PriceTick * k
  BY DEF SnapToTick
<1> HIDE DEF t
<1>3. m \in Nat
  BY <1>1
<1>4. k \in Nat /\ m < t * k + t /\ t * k \in Nat
  BY <1>1, <1>3, DivFacts
<1>5. n <= t * k
  BY <1>1, <1>4
<1> HIDE DEF k
<1>6. of * (PriceTick * k) = t * k
  BY <1>1, <1>4 DEF t
<1> QED
  BY <1>2, <1>5, <1>6

(* The worst price of a buy at reference price px, human. *)
LEMMA WorstBuy ==
  ASSUME NEW px \in Prices
  PROVE  LET w == Worst("buy", px) \div Scale
         IN  w \in Nat /\ px <= w /\ px * (100 + Slip) <= 100 * w
<1> DEFINE n == px * (100 + Slip)
           w == SnapToTick(n, 100, TRUE)
<1>1. px \in Nat /\ Scale \in Nat \ {0} /\ Slip \in Nat
  BY ExecutorAssumption
<1>2. n \in Nat /\ 100 * px <= n
  <2>1. n = px * 100 + px * Slip /\ px * Slip \in Nat
    BY <1>1
  <2> QED
    BY <1>1, <2>1
<1>3. Worst("buy", px) = w * Scale
  BY DEF Worst, ToUfixed
<1> HIDE DEF n
<1>4. w \in Nat
  BY <1>2, 100 \in Nat \ {0}, SnapFacts, Zenon
<1>5. n <= 100 * w
  BY <1>2, 100 \in Nat \ {0}, SnapUp, Zenon
<1> HIDE DEF w
<1>6. Worst("buy", px) \div Scale = w
  BY <1>1, <1>3, <1>4, TimesDiv
<1>7. px <= w
  BY <1>1, <1>2, <1>4, <1>5
<1> QED
  BY <1>4, <1>5, <1>6, <1>7 DEF n

LEMMA TopFacts ==
  ASSUME NEW px \in Prices
  PROVE  Top \in Nat /\ px <= Top /\ Worst("buy", px) \div Scale <= Top
<1> DEFINE w(q) == Worst("buy", q) \div Scale
           S == {w(q) : q \in Prices}
<1>1. \A q \in Prices : w(q) \in Nat /\ q <= w(q) /\ q \in Nat
  BY WorstBuy, ExecutorAssumption
<1>2. IsFiniteSet(S)
  <2>1. IsFiniteSet(Prices)
    BY ExecutorAssumption
  <2> DEFINE f == [q \in Prices |-> w(q)]
  <2>2. f \in Surjection(Prices, S)
    BY DEF Surjection
  <2> HIDE DEF S, f
  <2> QED
    BY <2>1, <2>2, FS_Surjection
<1>3. S \subseteq Int /\ S \subseteq Nat /\ w(px) \in S
  BY <1>1
<1>4. Top = Max(S)
  BY DEF Top
<1> HIDE DEF S
<1>5. \E x \in S : \A y \in S : x >= y
  BY <1>2, <1>3, LargestOf
<1>6. Max(S) \in S /\ \A y \in S : Max(S) >= y
  BY <1>5 DEF Max
<1>7. Max(S) \in Nat /\ Max(S) >= w(px)
  BY <1>3, <1>6
<1>8. w(px) \in Nat /\ px <= w(px) /\ px \in Nat
  BY <1>1
<1> DEFINE top == Max(S)
           wp == w(px)
<1>9. top \in Nat /\ top >= wp /\ wp \in Nat /\ px <= wp /\ px \in Nat
  BY <1>7, <1>8
<1> HIDE DEF top, wp
<1>10. px <= top /\ wp <= top
  BY <1>9
<1> QED
  BY <1>4, <1>9, <1>10 DEF top, wp

(* No order the backend sizes, nor one placed by hand, is above the top. *)
LEMMA SizedCapped ==
  ASSUME NEW side \in {"buy", "sell"}, NEW usd \in Nat, NEW ref \in Prices, NEW ticks \in BOOLEAN
  PROVE  Capped(Sized(side, usd, ref, ticks))
<1> DEFINE o == Sized(side, usd, ref, ticks)
           n == ref * (100 + Slip)
           raw == (n * Scale) \div 100
<1> SUFFICES ASSUME side = "buy" PROVE Price(o) <= Top
  BY DEF Capped, Sized
<1>1. ref \in Nat /\ Scale \in Nat \ {0} /\ Slip \in Nat
  BY ExecutorAssumption
<1>2. Price(o) = (IF ticks THEN Worst("buy", ref) ELSE raw) \div Scale
  BY DEF Sized, Price, ToUfixed
<1>3. Top \in Nat /\ Worst("buy", ref) \div Scale <= Top
  BY TopFacts
<1>4. CASE ticks
  BY <1>2, <1>3, <1>4
<1>5. CASE ~ticks
  <2> DEFINE k == raw \div Scale
             w == Worst("buy", ref) \div Scale
  <2>1. n \in Nat
    BY <1>1
  <2>2. w \in Nat /\ n <= 100 * w
    BY WorstBuy
  <2>3. Price(o) = k
    BY <1>2, <1>5
  <2> HIDE DEF n
  <2>4. k \in Nat /\ 100 * k <= n
    BY <1>1, <2>1, 100 \in Nat \ {0}, ScaledDiv
  <2>5. w <= Top
    BY <1>3
  <2> HIDE DEF k, w
  <2>6. k <= Top
    BY <1>3, <2>1, <2>2, <2>4, <2>5
  <2> QED
    BY <2>3, <2>6
<1> QED
  BY <1>4, <1>5

LEMMA CapStep == ASSUME IInv, CapInv, [Next]_vars PROVE CapInv'
<1>0. /\ tx # NoTx => Capped(tx)
      /\ \A i \in DOMAIN log : Capped(log[i])
  BY DEF CapInv
<1>1. ASSUME log' = log, tx' = tx \/ tx' = NoTx PROVE CapInv'
  BY <1>0, <1>1 DEF CapInv, Capped, Price, Top, Worst, ToUfixed
<1>2. ASSUME NEW a, NEW o, Place(a, o), Capped(o), tx' = tx \/ tx' = NoTx PROVE CapInv'
  <2>1. log' = Append(log, o) /\ log \in Seq(Orders)
    BY <1>2, BookFacts DEF Place
  <2>2. Len(log) \in Nat /\ DOMAIN log = 1 .. Len(log)
    BY BookFacts
  <2>3. /\ DOMAIN log' = 1 .. Len(log) + 1 /\ log'[Len(log) + 1] = o
        /\ \A i \in DOMAIN log : log'[i] = log[i]
    BY <2>1, <2>2
  <2>4. ASSUME NEW i \in DOMAIN log' PROVE Capped(log'[i])
    <3>1. i = Len(log) + 1 \/ i \in DOMAIN log
      BY <2>2, <2>3
    <3> QED
      BY <1>0, <1>2, <2>3, <3>1
  <2>5. tx' # NoTx => Capped(tx')
    BY <1>0, <1>2
  <2> QED
    BY <2>4, <2>5 DEF CapInv, Capped, Price, Top, Worst, ToUfixed
<1>3. CASE UNCHANGED vars
  BY <1>1, <1>3 DEF vars, contract, backend
<1>4. CASE ReadInj \/ ReadUsdt \/ Hold
  BY <1>1, <1>4 DEF ReadInj, ReadUsdt, Read, Hold, contract
<1>5. ASSUME NEW side \in {"buy", "sell"}, NEW usd \in Budgets, NEW ref \in Prices,
             NEW ticks \in BOOLEAN, ExecuteSwap(side, usd, ref, ticks)
      PROVE  CapInv'
  <2> DEFINE o == Sized(side, usd, ref, ticks)
  <2>1. usd \in Nat
    BY ExecutorAssumption
  <2>2. Capped(o)
    BY <2>1, SizedCapped
  <2>3. (tx' = tx \/ tx' = o) /\ log' = log
    BY <1>5 DEF ExecuteSwap, contract
  <2> HIDE DEF o
  <2>4. tx' # NoTx => Capped(tx')
    BY <1>0, <2>2, <2>3
  <2> QED
    BY <1>0, <2>3, <2>4 DEF CapInv, Capped, Price, Top, Worst, ToUfixed
<1>6. CASE PlaceSpotMarketOrder
  BY <1>0, <1>2, <1>6 DEF PlaceSpotMarketOrder
<1>7. CASE Revert
  BY <1>1, <1>7 DEF Revert, contract
<1>8. CASE Match \/ Expire
  BY <1>1, <1>8 DEF Match, Expire, Trade, backend
<1>9. ASSUME NEW m \in Amounts, Receive(m[2]) PROVE CapInv'
  BY <1>1, <1>9 DEF Receive, backend
<1>10. ASSUME NEW a \in Accounts, PlaceSpotLimitOrder(a) PROVE CapInv'
  <2>1. PICK side \in {"buy", "sell"}, px \in Prices, n \in Rests :
          /\ Place(a, [limit |-> TRUE, cid |-> 0, side |-> side,
                       price |-> ToUfixed(px), qty |-> ToUfixed(n), usd |-> 0, ref |-> 0])
          /\ UNCHANGED <<backend, hand>>
    BY <1>10 DEF PlaceSpotLimitOrder
  <2> DEFINE o == [limit |-> TRUE, cid |-> 0, side |-> side, price |-> ToUfixed(px),
                   qty |-> ToUfixed(n), usd |-> 0, ref |-> 0]
  <2>2. px \in Nat /\ Scale \in Nat \ {0}
    BY ExecutorAssumption
  <2>3. Price(o) = px
    BY <2>2, TimesDiv DEF Price, ToUfixed
  <2>4. Capped(o)
    BY <2>3, TopFacts DEF Capped
  <2>5. Place(a, o) /\ tx' = tx
    BY <2>1 DEF backend
  <2> HIDE DEF o
  <2> QED
    BY <1>2, <2>4, <2>5
<1>11. ASSUME NEW a \in Accounts, NEW m \in Amounts,
              Deposit(a, m[1], m[2]) \/ Withdraw(a, m[1], m[2])
       PROVE  CapInv'
  BY <1>1, <1>11 DEF Deposit, Withdraw, ByHand, backend
<1>12. ASSUME NEW a \in Accounts, NEW new \in Accounts, TransferOwnership(a, new)
       PROVE  CapInv'
  BY <1>1, <1>12 DEF TransferOwnership, ByHand, backend
<1> QED
  BY <1>3, <1>4, <1>5, <1>6, <1>7, <1>8, <1>9, <1>10, <1>11, <1>12 DEF Next

-----------------------------------------------------------------------------
(* The balances through a step *)

(* What the subaccount holds changes with its total. *)
LEMMA HeldChange ==
  ASSUME IInv, FundsInv, FundsInv', NEW d \in Denoms, NEW x \in Int,
         total'[d] = total[d] + ToChain(x, d)
  PROVE  Held'[d] = Held[d] + x
<1> DEFINE h == Held[d]
<1>1. h \in Nat /\ total[d] = ToChain(h, d)
  BY FundsFacts
<1> HIDE DEF h
<1>2. total'[d] = ToChain(h + x, d) /\ h + x \in Int
  <2>1. h \in Int /\ x \in Int
    BY <1>1
  <2>2. ToChain(h + x, d) = ToChain(h, d) + ToChain(x, d)
    BY <2>1, ChainSums
  <2> QED
    BY <1>1, <2>1, <2>2
<1>3. total'[d] >= 0
  BY DEF FundsInv
<1>4. h + x \in Nat
  BY <1>2, <1>3, ChainSign
<1>5. FromChain(total'[d], d) = h + x
  BY <1>2, <1>4, Whole
<1> QED
  BY <1>5 DEF h, Held, FromChain

LEMMA FundsNext == ASSUME IInv, FundsInv, [Next]_vars PROVE FundsInv'
<1>1. ASSUME UNCHANGED <<avail, total, log, book>> PROVE FundsInv'
  BY <1>1 DEF FundsInv, Locks, Lock, Gives, Price
<1>2. CASE UNCHANGED vars
  BY <1>1, <1>2 DEF vars, contract
<1>3. CASE ReadInj \/ ReadUsdt \/ Hold
  BY <1>1, <1>3 DEF ReadInj, ReadUsdt, Read, Hold, contract
<1>4. ASSUME NEW side \in {"buy", "sell"}, NEW usd \in Budgets, NEW ref \in Prices,
             NEW ticks \in BOOLEAN, ExecuteSwap(side, usd, ref, ticks)
      PROVE  FundsInv'
  BY <1>1, <1>4 DEF ExecuteSwap, contract
<1>5. CASE PlaceSpotMarketOrder
  <2>1. tx # NoTx /\ Place(Agent, tx)
    BY <1>5 DEF PlaceSpotMarketOrder
  <2>2. tx \in Orders
    BY <2>1 DEF IInv, OrdersInv
  <2> QED
    BY <2>1, <2>2, FundsPlace
<1>6. CASE Revert
  BY <1>1, <1>6 DEF Revert, contract
<1>7. CASE Match
  <2>1. PICK i \in Open : \E n \in 1 .. book[i].left, px \in Prices :
               /\ IF log[i].side = "buy" THEN px <= Price(log[i]) ELSE px >= Price(log[i])
               /\ Trade(i, n, px)
    BY <1>7 DEF Match
  <2>2. PICK n \in 1 .. book[i].left, px \in Prices :
               /\ IF log[i].side = "buy" THEN px <= Price(log[i]) ELSE px >= Price(log[i])
               /\ Trade(i, n, px)
    BY <2>1
  <2>3. n \in 0 .. book[i].left /\ px \in Nat
    BY <2>2, ExecutorAssumption
  <2> QED
    BY <2>1, <2>2, <2>3, FundsTrade
<1>8. CASE Expire
  <2>1. PICK i \in Open : Trade(i, 0, 0)
    BY <1>8 DEF Expire
  <2>2. 0 \in 0 .. book[i].left /\ 0 \in Nat /\ ~(0 > 0)
    BY BookFacts DEF Open
  <2> QED
    BY <2>1, <2>2, FundsTrade
<1>9. ASSUME NEW m \in Amounts, Receive(m[2]) PROVE FundsInv'
  BY <1>1, <1>9 DEF Receive
<1>10. ASSUME NEW a \in Accounts, PlaceSpotLimitOrder(a) PROVE FundsInv'
  <2>1. PICK side \in {"buy", "sell"}, px \in Prices, n \in Rests :
          Place(a, [limit |-> TRUE, cid |-> 0, side |-> side,
                    price |-> ToUfixed(px), qty |-> ToUfixed(n), usd |-> 0, ref |-> 0])
    BY <1>10 DEF PlaceSpotLimitOrder
  <2> DEFINE o == [limit |-> TRUE, cid |-> 0, side |-> side, price |-> ToUfixed(px),
                   qty |-> ToUfixed(n), usd |-> 0, ref |-> 0]
  <2>2. ToUfixed(px) \in Nat /\ ToUfixed(n) \in Nat
    BY ExecutorAssumption DEF ToUfixed
  <2>3. o \in Orders
    BY <2>2 DEF Orders
  <2>4. Place(a, o)
    BY <2>1
  <2> HIDE DEF o
  <2> QED
    BY <2>3, <2>4, FundsPlace
<1>11. ASSUME NEW a \in Accounts, NEW m \in Amounts, Deposit(a, m[1], m[2]) PROVE FundsInv'
  <2>1. m[1] \in Denoms /\ m[2] \in Nat
    BY ExecutorAssumption
  <2>2. PICK d, v : d = m[1] /\ v = m[2]
    OBVIOUS
  <2>3. d \in Denoms /\ v \in Nat /\ v \in Int /\ UNCHANGED <<log, book>>
    BY <1>11, <2>1, <2>2 DEF Deposit, ByHand
  <2>4. /\ avail' = [avail EXCEPT ![d] = @ + ToChain(v, d)]
        /\ total' = [total EXCEPT ![d] = @ + ToChain(v, d)]
    BY <1>11, <2>2 DEF Deposit
  <2>5. -ToChain(v, d) <= avail[d]
    <3>1. ToChain(v, d) \in Nat /\ avail[d] \in Nat
      BY <2>3, Whole DEF FundsInv
    <3> QED
      BY <3>1
  <2> QED
    BY <2>3, <2>4, <2>5, FundsMove
<1>12. ASSUME NEW a \in Accounts, NEW m \in Amounts, Withdraw(a, m[1], m[2]) PROVE FundsInv'
  <2>1. m[1] \in Denoms /\ m[2] \in Nat
    BY ExecutorAssumption
  <2>2. PICK d, v : d = m[1] /\ v = -m[2]
    OBVIOUS
  <2>3. d \in Denoms /\ v \in Int /\ UNCHANGED <<log, book>>
    BY <1>12, <2>1, <2>2 DEF Withdraw, ByHand
  <2>4. ToChain(v, d) = -ToChain(m[2], d) /\ ToChain(m[2], d) \in Nat
    <3>1. ToChain(0 - m[2], d) = ToChain(0, d) - ToChain(m[2], d) /\ ToChain(0, d) = 0
      <4>1. 0 \in Int /\ m[2] \in Int /\ Unit[d] \in Int
        BY <2>1, <2>3, ExecutorAssumption
      <4>2. ToChain(0, d) = 0
        BY <4>1 DEF ToChain
      <4> QED
        BY <2>3, <4>1, <4>2, ChainSums
    <3>2. v = 0 - m[2]
      BY <2>1, <2>2
    <3>3. ToChain(m[2], d) \in Nat
      BY <2>1, <2>3, Whole
    <3> QED
      BY <3>1, <3>2, <3>3
  <2>5. ToChain(m[2], d) <= avail[d] /\ avail[d] \in Nat /\ total[d] \in Nat
    BY <1>12, <2>2, <2>3 DEF Withdraw, FundsInv
  <2>6. /\ avail' = [avail EXCEPT ![d] = @ - ToChain(m[2], d)]
        /\ total' = [total EXCEPT ![d] = @ - ToChain(m[2], d)]
    BY <1>12, <2>2 DEF Withdraw
  <2>7. /\ avail' = [avail EXCEPT ![d] = @ + ToChain(v, d)]
        /\ total' = [total EXCEPT ![d] = @ + ToChain(v, d)]
    <3>1. /\ avail[d] - ToChain(m[2], d) = avail[d] + ToChain(v, d)
          /\ total[d] - ToChain(m[2], d) = total[d] + ToChain(v, d)
      BY <2>4, <2>5
    <3> QED
      BY <2>6, <3>1
  <2>8. -ToChain(v, d) <= avail[d]
    BY <2>4, <2>5
  <2> QED
    BY <2>3, <2>7, <2>8, FundsMove
<1>13. ASSUME NEW a \in Accounts, NEW new \in Accounts, TransferOwnership(a, new)
       PROVE  FundsInv'
  BY <1>1, <1>13 DEF TransferOwnership, ByHand
<1> QED
  BY <1>2, <1>3, <1>4, <1>5, <1>6, <1>7, <1>8, <1>9, <1>10, <1>11, <1>12, <1>13 DEF Next

(* The rest of the type invariant. *)
ShapeInv ==
  /\ owner \in Accounts /\ bank \in [Denoms -> Nat]
  /\ pc \in {"read", "half", "send"} /\ bals \in [Denoms -> Nat]
  /\ stake \subseteq DOMAIN log /\ moved \in [Denoms -> Nat]
  /\ sends \in 0 .. MaxSends /\ hand \in 0 .. MaxHand

LEMMA ShapeNext == ASSUME IInv, FundsInv, ShapeInv, [Next]_vars PROVE ShapeInv'
<1>0. /\ owner \in Accounts /\ bank \in [Denoms -> Nat]
      /\ pc \in {"read", "half", "send"} /\ bals \in [Denoms -> Nat]
      /\ stake \subseteq DOMAIN log /\ moved \in [Denoms -> Nat]
      /\ sends \in 0 .. MaxSends /\ hand \in 0 .. MaxHand
  BY DEF ShapeInv
<1>a. Nothing \in [Denoms -> Nat] /\ MaxSends \in Nat /\ MaxHand \in Nat
  BY ExecutorAssumption DEF Nothing
<1>1. CASE UNCHANGED vars
  BY <1>0, <1>1 DEF ShapeInv, vars, contract, backend, observers
<1>2. CASE ReadInj \/ ReadUsdt
  <2>1. \A d \in Denoms : FromChain(avail[d], d) \in Nat
    BY FundsFacts
  <2>2. "INJ" \in Denoms /\ "USDT" \in Denoms
    BY DEF Denoms
  <2>3. PICK d \in Denoms : bals' = [bals EXCEPT ![d] = FromChain(avail[d], d)]
    BY <1>2, <2>2 DEF ReadInj, ReadUsdt, Read, SubaccountBalance
  <2>4. bals' \in [Denoms -> Nat]
    BY <1>0, <2>1, <2>3
  <2>5. Open \subseteq DOMAIN log
    BY BookFacts DEF Open
  <2>6. /\ pc' \in {"read", "half", "send"} /\ (stake' = Open \/ stake' = {})
        /\ moved' = Nothing /\ UNCHANGED <<owner, bank, log, sends, hand>>
    BY <1>2 DEF ReadInj, ReadUsdt, Read, contract
  <2>7. stake' \subseteq DOMAIN log'
    BY <2>5, <2>6
  <2> QED
    BY <1>0, <1>a, <2>4, <2>6, <2>7 DEF ShapeInv
<1>3. CASE Hold
  BY <1>0, <1>3, <1>a DEF ShapeInv, Hold, Forget, contract
<1>4. ASSUME NEW side \in {"buy", "sell"}, NEW usd \in Budgets, NEW ref \in Prices,
             NEW ticks \in BOOLEAN, ExecuteSwap(side, usd, ref, ticks)
      PROVE  ShapeInv'
  <2>1. /\ pc' = "read" /\ sends' = sends + 1 /\ sends < MaxSends
        /\ bals' = Nothing /\ stake' = {} /\ moved' = Nothing
        /\ UNCHANGED <<owner, bank, log, hand>>
    BY <1>4 DEF ExecuteSwap, Forget, contract
  <2>2. sends' \in 0 .. MaxSends
    BY <1>0, <1>a, <2>1
  <2> QED
    BY <1>0, <1>a, <2>1, <2>2 DEF ShapeInv
<1>5. ASSUME NEW a, NEW o, Place(a, o), UNCHANGED <<pc, bals, sends, hand>> PROVE ShapeInv'
  <2>1. /\ log' = Append(log, o) /\ UNCHANGED <<owner, bank, moved>>
        /\ stake' = IF pc = "half" THEN stake \cup {Len(log')} ELSE {}
    BY <1>5 DEF Place
  <2>2. log \in Seq(Orders) /\ Len(log) \in Nat /\ DOMAIN log = 1 .. Len(log)
    BY BookFacts
  <2>3. Len(log') = Len(log) + 1 /\ DOMAIN log' = 1 .. Len(log) + 1
    BY <2>1, <2>2
  <2>4. stake \cup {Len(log')} \subseteq DOMAIN log'
    BY <1>0, <2>2, <2>3
  <2>5. stake' \subseteq DOMAIN log'
    BY <2>1, <2>4
  <2> QED
    BY <1>0, <1>5, <2>1, <2>5 DEF ShapeInv
<1>6. CASE PlaceSpotMarketOrder
  BY <1>5, <1>6 DEF PlaceSpotMarketOrder
<1>7. CASE Revert
  BY <1>0, <1>7 DEF ShapeInv, Revert, contract, observers
<1>8. CASE Match \/ Expire
  <2>1. PICK i, n, px : Trade(i, n, px)
    BY <1>8 DEF Match, Expire
  <2> QED
    BY <1>0, <2>1 DEF ShapeInv, Trade, backend, observers
<1>9. ASSUME NEW m \in Amounts, m[1] = "INJ", Receive(m[2]) PROVE ShapeInv'
  <2>1. m[2] \in Nat /\ "INJ" \in Denoms
    BY ExecutorAssumption DEF Denoms
  <2>2. ToChain(m[2], "INJ") \in Nat
    BY <2>1, Whole
  <2>3. bank["INJ"] + ToChain(m[2], "INJ") \in Nat
    BY <1>0, <2>1, <2>2
  <2>4. /\ bank' = [bank EXCEPT !["INJ"] = bank["INJ"] + ToChain(m[2], "INJ")]
        /\ hand' = hand + 1 /\ hand < MaxHand
        /\ UNCHANGED <<owner, log, pc, bals, sends, stake, moved>>
    BY <1>9 DEF Receive, backend, observers
  <2>5. bank' \in [Denoms -> Nat]
    BY <1>0, <2>3, <2>4
  <2>6. hand' \in 0 .. MaxHand
    BY <1>0, <1>a, <2>4
  <2> QED
    BY <1>0, <2>4, <2>5, <2>6 DEF ShapeInv
<1>10. ASSUME NEW a \in Accounts, PlaceSpotLimitOrder(a) PROVE ShapeInv'
  <2>1. PICK o : Place(a, o) /\ UNCHANGED <<backend, hand>>
    BY <1>10 DEF PlaceSpotLimitOrder
  <2>2. UNCHANGED <<pc, bals, sends, hand>>
    BY <2>1 DEF backend
  <2> QED
    BY <1>5, <2>1, <2>2
<1>11. ASSUME NEW a \in Accounts, NEW m \in Amounts,
              Deposit(a, m[1], m[2]) \/ Withdraw(a, m[1], m[2])
       PROVE  ShapeInv'
  <2>1. PICK d \in Denoms, v \in Nat : d = m[1] /\ v = m[2]
    BY ExecutorAssumption
  <2>2. ToChain(v, d) \in Nat
    BY Whole
  <2>3. /\ \/ bank' = [bank EXCEPT ![d] = bank[d] - ToChain(v, d)] /\ ToChain(v, d) <= bank[d]
           \/ bank' = [bank EXCEPT ![d] = bank[d] + ToChain(v, d)]
        /\ moved' = [moved EXCEPT ![d] = moved[d] + v] \/ moved' = Nothing
        /\ hand' = hand + 1 /\ hand < MaxHand
        /\ UNCHANGED <<owner, log, pc, bals, sends, stake>>
    BY <1>11, <2>1 DEF Deposit, Withdraw, ByHand, backend
  <2>4. bank' \in [Denoms -> Nat]
    <3>1. bank[d] \in Nat /\ bank[d] + ToChain(v, d) \in Nat
      BY <1>0, <2>2
    <3>2. ToChain(v, d) <= bank[d] => bank[d] - ToChain(v, d) \in Nat
      BY <2>2, <3>1
    <3> QED
      BY <1>0, <2>3, <3>1, <3>2
  <2>5. moved' \in [Denoms -> Nat]
    <3>1. moved[d] + v \in Nat
      BY <1>0
    <3> QED
      BY <1>0, <1>a, <2>3, <3>1
  <2>6. hand' \in 0 .. MaxHand
    BY <1>0, <1>a, <2>3
  <2> QED
    BY <1>0, <2>3, <2>4, <2>5, <2>6 DEF ShapeInv
<1>12. ASSUME NEW a \in Accounts, NEW new \in Accounts, TransferOwnership(a, new)
       PROVE  ShapeInv'
  <2>1. /\ owner' = new /\ hand' = hand + 1 /\ hand < MaxHand
        /\ UNCHANGED <<bank, log, pc, bals, sends, stake, moved>>
    BY <1>12 DEF TransferOwnership, ByHand, backend
  <2>2. hand' \in 0 .. MaxHand
    BY <1>0, <1>a, <2>1
  <2> QED
    BY <1>0, <2>1, <2>2 DEF ShapeInv
<1> QED
  BY <1>1, <1>2, <1>3, <1>4, <1>6, <1>7, <1>8, <1>9, <1>10, <1>11, <1>12 DEF Next

LEMMA TypeFrom == IInv /\ FundsInv /\ ShapeInv => TypeOK
<1> SUFFICES ASSUME IInv, FundsInv, ShapeInv PROVE TypeOK
  OBVIOUS
<1>1. \A d \in Denoms : avail[d] <= total[d]
  BY FundsFacts
<1>2. Len(book) = Len(log) /\ avail \in [Denoms -> Nat] /\ total \in [Denoms -> Nat]
  BY DEF IInv, FillsInv, FundsInv
<1> QED
  BY <1>1, <1>2 DEF TypeOK, ShapeInv

-----------------------------------------------------------------------------
(* The read *)

(* In the middle of a read. *)
LEMMA HalfFacts ==
  ASSUME IInv, FundsInv, ShapeInv
  PROVE  /\ IsFiniteSet(stake) /\ stake \subseteq DOMAIN log /\ "INJ" \in Denoms
         /\ moved["INJ"] \in Nat /\ bals["INJ"] \in Nat /\ Held["INJ"] \in Nat
<1>1. stake \subseteq DOMAIN log /\ moved \in [Denoms -> Nat] /\ bals \in [Denoms -> Nat]
  BY DEF ShapeInv
<1>2. IsFiniteSet(DOMAIN log)
  BY BookFacts
<1>3. IsFiniteSet(stake)
  BY <1>1, <1>2, FS_Subset
<1>4. "INJ" \in Denoms
  BY DEF Denoms
<1>5. Held["INJ"] \in Nat
  BY <1>4, FundsFacts
<1> QED
  BY <1>1, <1>3, <1>4, <1>5

(* Funds moved by hand are counted, whichever way they go. *)
LEMMA ReadMove ==
  ASSUME IInv, FundsInv, FundsInv', ShapeInv, ReadInv, UNCHANGED <<pc, bals, log, book, stake>>,
         NEW x \in Int, total'["INJ"] = total["INJ"] + ToChain(x, "INJ"),
         pc = "half" => /\ moved'["INJ"] \in Nat
                        /\ moved["INJ"] + x <= moved'["INJ"]
                        /\ moved["INJ"] - x <= moved'["INJ"]
  PROVE  ReadInv'
<1> SUFFICES ASSUME pc = "half" PROVE ReadInv'
  BY DEF ReadInv
<1>1. PICK s \in [stake -> Int], net \in -moved["INJ"] .. moved["INJ"] :
         /\ Open \subseteq stake /\ Drift(s)
         /\ Held["INJ"] = bals["INJ"] + SumFunctionOnSet(s, stake) + net
  BY DEF ReadInv
<1>2. Held'["INJ"] = Held["INJ"] + x
  BY HalfFacts, HeldChange
<1>3. net + x \in -moved'["INJ"] .. moved'["INJ"] /\ net + x \in Int /\ net \in Int
  BY HalfFacts
<1>4. SumFunctionOnSet(s, stake) \in Int
  BY HalfFacts, SumType
<1>5. Held'["INJ"] = bals["INJ"] + SumFunctionOnSet(s, stake) + (net + x)
  BY <1>1, <1>2, <1>3, <1>4, HalfFacts
<1>6. Drift(s)' /\ Open' = Open
  BY <1>1 DEF Drift, Lots, Open
<1> QED
  BY <1>1, <1>3, <1>5, <1>6 DEF ReadInv

(* An order placed meanwhile is at stake and has changed nothing yet. *)
LEMMA ReadPlace ==
  ASSUME IInv, FundsInv, FundsInv', ShapeInv, ReadInv, UNCHANGED <<pc, bals>>,
         NEW a, NEW o \in Orders, Place(a, o)
  PROVE  ReadInv'
<1> SUFFICES ASSUME pc = "half" PROVE ReadInv'
  BY DEF ReadInv
<1>1. PICK s \in [stake -> Int], net \in -moved["INJ"] .. moved["INJ"] :
         /\ Open \subseteq stake /\ Drift(s)
         /\ Held["INJ"] = bals["INJ"] + SumFunctionOnSet(s, stake) + net
  BY DEF ReadInv
<1>2. PICK y : y = Len(log) + 1
  OBVIOUS
<1>3. /\ log' = Append(log, o) /\ UNCHANGED <<total, moved>>
      /\ book' = Append(book, [left |-> Lots(o), lots |-> 0, cents |-> 0])
      /\ stake' = stake \cup {Len(log')}
  BY DEF Place
<1>4. /\ log \in Seq(Orders) /\ book \in Seq(Fills) /\ Len(log) \in Nat
      /\ DOMAIN log = 1 .. Len(log) /\ DOMAIN book = 1 .. Len(log)
  BY BookFacts
<1>5. Len(book) = Len(log)
  BY DEF IInv, FillsInv
<1>6. Len(log') = y /\ log'[y] = o /\ y \notin DOMAIN log /\ DOMAIN book' = 1 .. y
  BY <1>2, <1>3, <1>4, <1>5
<1>7. book'[y].left = Lots(o)
  <2> DEFINE b == [left |-> Lots(o), lots |-> 0, cents |-> 0]
  <2>1. b.left = Lots(o)
    OBVIOUS
  <2>2. book' = Append(book, b)
    BY <1>3
  <2> HIDE DEF b
  <2>3. book'[y] = b
    BY <1>2, <1>4, <1>5, <2>2
  <2> QED
    BY <2>1, <2>3
<1>8. \A i \in DOMAIN log : log'[i] = log[i] /\ book'[i] = book[i]
  BY <1>3, <1>4, <1>5
<1>9. stake' = stake \cup {y} /\ y \notin stake
  BY <1>3, <1>6, HalfFacts
<1>10. Open' \subseteq stake'
  <2>1. \A i \in Open' : i \in 1 .. y /\ book'[i].left > 0
    BY <1>6 DEF Open
  <2>2. \A i \in Open' : i = y \/ i \in DOMAIN log
    BY <1>2, <1>4, <2>1
  <2>3. \A i \in Open' : i \in DOMAIN log => i \in Open
    BY <1>4, <1>8, <2>1 DEF Open
  <2> QED
    BY <1>1, <1>9, <2>2, <2>3
<1>11. PICK r : r = [i \in stake \cup {y} |-> IF i = y THEN 0 ELSE s[i]]
  OBVIOUS
<1>12. r \in [stake' -> Int] /\ r[y] = 0 /\ \A i \in stake : r[i] = s[i]
  BY <1>9, <1>11
<1>13. SumFunctionOnSet(r, stake') = SumFunctionOnSet(s, stake)
  <2>1. /\ IsFiniteSet(stake) /\ y \notin stake /\ \A i \in stake : s[i] \in Int
        /\ r[y] \in Int /\ \A i \in stake : r[i] = s[i]
    BY <1>9, <1>12, HalfFacts
  <2>2. SumFunctionOnSet(r, stake \cup {y}) = SumFunctionOnSet(s, stake) + r[y]
    BY <2>1, SumGrow
  <2>3. SumFunctionOnSet(s, stake) \in Int
    BY <2>1, SumType
  <2> QED
    BY <1>9, <1>12, <2>2, <2>3
<1>14. Drift(r)'
  <2>1. ASSUME NEW i \in stake
        PROVE  log'[i] = log[i] /\ book'[i] = book[i] /\ r[i] = s[i]
    BY <1>8, <1>12, HalfFacts
  <2>2. \A i \in stake : LET lots == Lots(log'[i])
                             left == book'[i].left
                         IN  IF log'[i].side = "buy" THEN r[i] \in 0 .. lots - left
                             ELSE r[i] \in left - lots .. lots
    BY <1>1, <2>1 DEF Drift
  <2>3. LET lots == Lots(log'[y])
            left == book'[y].left
        IN  IF log'[y].side = "buy" THEN r[y] \in 0 .. lots - left
            ELSE r[y] \in left - lots .. lots
    <3>1. PICK k : k = Lots(o)
      OBVIOUS
    <3>2. k \in Nat
      BY <3>1, OrderFacts
    <3>3. 0 \in 0 .. k - k /\ 0 \in k - k .. k
      BY <3>2
    <3>4. Lots(log'[y]) = k /\ book'[y].left = k /\ r[y] = 0
      BY <1>6, <1>7, <1>12, <3>1
    <3> QED
      BY <3>3, <3>4
  <2> QED
    BY <1>9, <2>2, <2>3 DEF Drift, Lots
<1>15. Held' = Held
  BY <1>3 DEF Held
<1>16. Held'["INJ"] = bals'["INJ"] + SumFunctionOnSet(r, stake') + net
  BY <1>1, <1>13, <1>15
<1>17. net \in -moved'["INJ"] .. moved'["INJ"]
  BY <1>3
<1> QED
  BY <1>10, <1>12, <1>14, <1>16, <1>17 DEF ReadInv

(* A trade of an order at stake changes the lots it may yet change. *)
LEMMA ReadTrade ==
  ASSUME IInv, FundsInv, FundsInv', ShapeInv, ReadInv,
         NEW i \in Open, NEW n \in 0 .. book[i].left, NEW px \in Nat, Trade(i, n, px)
  PROVE  ReadInv'
<1>0. UNCHANGED <<pc, bals, log, stake, moved>>
  BY DEF Trade, backend, observers
<1> SUFFICES ASSUME pc = "half" PROVE ReadInv'
  BY <1>0 DEF ReadInv
<1>1. PICK s \in [stake -> Int], net \in -moved["INJ"] .. moved["INJ"] :
         /\ Open \subseteq stake /\ Drift(s)
         /\ Held["INJ"] = bals["INJ"] + SumFunctionOnSet(s, stake) + net
  BY DEF ReadInv
<1>2. PICK o, left, rest, x :
         /\ o = log[i] /\ left = book[i].left
         /\ rest = IF o.limit THEN left - n ELSE 0
         /\ x = IF o.side = "buy" THEN n ELSE -n
  OBVIOUS
<1>3. /\ i \in DOMAIN log /\ i \in stake /\ o \in Orders /\ left \in Nat /\ n \in Nat /\ n <= left
      /\ left <= Lots(o) /\ Lots(o) \in Nat /\ o.side \in {"buy", "sell"}
  <2>1. i \in DOMAIN log /\ i \in stake /\ n \in 0 .. left
    BY <1>1, <1>2, BookFacts DEF Open
  <2>2. o \in Orders /\ left \in Nat /\ book[i].lots \in Nat /\ left + book[i].lots <= Lots(o)
    BY <1>2, <2>1, BookFacts
  <2>3. Lots(o) \in Nat /\ o.side \in {"buy", "sell"}
    BY <2>2, OrderFacts
  <2> QED
    BY <2>1, <2>2, <2>3
<1>4. rest \in Nat /\ n + rest <= left /\ x \in Int
  BY <1>2, <1>3
<1>5. book'[i].left = rest /\ \A j \in DOMAIN book : j # i => book'[j] = book[j]
  <2> DEFINE c == [left |-> rest, lots |-> book[i].lots + n, cents |-> book[i].cents + n * px]
  <2>1. book' = [book EXCEPT ![i] = c]
    BY <1>2 DEF Trade
  <2>2. c.left = rest
    OBVIOUS
  <2>3. i \in DOMAIN book
    BY DEF Open
  <2> HIDE DEF c
  <2> QED
    BY <2>1, <2>2, <2>3
<1>6. DOMAIN book' = DOMAIN book
  BY DEF Trade
<1>7. Open' \subseteq Open
  BY <1>5, <1>6 DEF Open
<1>8. total'["INJ"] = total["INJ"] + ToChain(x, "INJ")
  <2>1. total \in [Denoms -> Nat] /\ "INJ" \in Denoms /\ "USDT" \in Denoms
    BY DEF FundsInv, Denoms
  <2>2. total' = [total EXCEPT ![Gives(o)] = total[Gives(o)] - Cost(o, n, px),
                               ![Gets(o)] = @ + Yield(o, n, px)]
    BY <1>2 DEF Trade
  <2>3. CASE o.side = "buy"
    <3>1. Gives(o) = "USDT" /\ Gets(o) = "INJ" /\ Yield(o, n, px) = ToChain(n, "INJ") /\ x = n
      BY <1>2, <2>3 DEF Gives, Gets, Yield
    <3> QED
      BY <2>1, <2>2, <3>1
  <2>4. CASE o.side = "sell"
    <3>1. Gives(o) = "INJ" /\ Gets(o) = "USDT" /\ Cost(o, n, px) = ToChain(n, "INJ") /\ x = -n
      BY <1>2, <2>4 DEF Gives, Gets, Cost
    <3>2. total'["INJ"] = total["INJ"] - ToChain(n, "INJ")
      BY <2>1, <2>2, <3>1
    <3>3. Unit["INJ"] \in Nat /\ total["INJ"] \in Nat
      BY <2>1, ExecutorAssumption
    <3>4. ToChain(x, "INJ") = -ToChain(n, "INJ") /\ ToChain(n, "INJ") \in Int
      BY <1>3, <3>1, <3>3 DEF ToChain
    <3> QED
      BY <3>2, <3>3, <3>4
  <2> QED
    BY <1>3, <2>3, <2>4
<1>9. Held'["INJ"] = Held["INJ"] + x
  BY <1>4, <1>8, HalfFacts, HeldChange
<1>10. PICK r : r = [s EXCEPT ![i] = s[i] + x]
  OBVIOUS
<1>11. /\ r \in [stake -> Int] /\ r[i] = s[i] + x /\ s[i] \in Int
       /\ \A j \in stake \ {i} : r[j] = s[j]
  BY <1>3, <1>4, <1>10
<1>12. SumFunctionOnSet(r, stake) = SumFunctionOnSet(s, stake) + x /\ SumFunctionOnSet(s, stake) \in Int
  <2>1. /\ IsFiniteSet(stake) /\ i \in stake /\ \A j \in stake : s[j] \in Int
        /\ r[i] \in Int /\ \A j \in stake \ {i} : r[j] = s[j]
    BY <1>3, <1>11, HalfFacts
  <2>2. SumFunctionOnSet(r, stake) = SumFunctionOnSet(s, stake) + (r[i] - s[i])
    BY <2>1, SumChange
  <2>3. SumFunctionOnSet(s, stake) \in Int
    BY <2>1, SumType
  <2> QED
    BY <1>4, <1>11, <2>2, <2>3
<1>13. Held'["INJ"] = bals'["INJ"] + SumFunctionOnSet(r, stake') + net
  <2>1. net \in Int /\ bals["INJ"] \in Int /\ bals' = bals /\ stake' = stake
    BY <1>0, HalfFacts
  <2> QED
    BY <1>1, <1>4, <1>9, <1>12, <2>1
<1>14. Drift(r)'
  <2>1. ASSUME NEW j \in stake, j # i
        PROVE  book'[j] = book[j] /\ r[j] = s[j]
    BY <1>5, <1>11, <2>1, HalfFacts, BookFacts
  <2>2. \A j \in stake : j # i =>
            LET lots == Lots(log[j])
                lft == book'[j].left
            IN  IF log[j].side = "buy" THEN r[j] \in 0 .. lots - lft
                ELSE r[j] \in lft - lots .. lots
    BY <1>1, <2>1 DEF Drift
  <2>3. IF o.side = "buy" THEN r[i] \in 0 .. Lots(o) - rest
        ELSE r[i] \in rest - Lots(o) .. Lots(o)
    <3>1. IF o.side = "buy" THEN s[i] \in 0 .. Lots(o) - left
          ELSE s[i] \in left - Lots(o) .. Lots(o)
      BY <1>1, <1>2, <1>3 DEF Drift
    <3> QED
      BY <1>2, <1>3, <1>4, <1>11, <3>1
  <2> QED
    BY <1>0, <1>2, <1>5, <2>2, <2>3 DEF Drift, Lots
<1> QED
  BY <1>0, <1>1, <1>7, <1>11, <1>13, <1>14 DEF ReadInv

(* The read begins: the orders that are open are what it is off by. *)
LEMMA ReadStart ==
  ASSUME IInv, FundsInv, ShapeInv, ReadInj
  PROVE  ReadInv'
<1> DEFINE D == DOMAIN log
           f == [i \in D |-> Lock(i, "INJ")]
           q == FromChain(avail["INJ"], "INJ")
<1>1. /\ bals' = [bals EXCEPT !["INJ"] = q] /\ stake' = Open /\ moved' = Nothing
      /\ UNCHANGED <<total, log, book>>
  BY DEF ReadInj, Read, SubaccountBalance, contract
<1>2. "INJ" \in Denoms /\ bals \in [Denoms -> Nat]
  BY DEF Denoms, ShapeInv
<1>3. Held["INJ"] = q + Locks("INJ") /\ q \in Nat
  BY <1>2, FundsFacts
<1>4. /\ IsFiniteSet(D) /\ Open \subseteq D
      /\ \A i \in D : log[i] \in Orders /\ book[i].left \in Nat /\ book[i].left <= Lots(log[i])
  <2>1. /\ IsFiniteSet(D) /\ DOMAIN book = D
        /\ \A i \in D : /\ log[i] \in Orders /\ book[i].left \in Nat /\ book[i].lots \in Nat
                        /\ book[i].left + book[i].lots <= Lots(log[i])
    BY BookFacts
  <2>2. \A i \in D : Lots(log[i]) \in Nat
    BY <2>1, OrderFacts
  <2> QED
    BY <2>1, <2>2 DEF Open
<1>5. \A i \in D : f[i] \in Int /\ (i \notin Open => f[i] = 0)
  BY <1>2, LockFacts
<1>6. PICK s : s = [i \in Open |-> f[i]]
  OBVIOUS
<1>7. s \in [Open -> Int] /\ \A i \in Open : s[i] = f[i]
  BY <1>4, <1>5, <1>6
<1>8. SumFunctionOnSet(s, Open) = Locks("INJ")
  <2>1. Locks("INJ") = SumFunctionOnSet(f, D)
    BY DEF Locks
  <2> HIDE DEF f, D
  <2>2. SumFunctionOnSet(f, D) = SumFunctionOnSet(f, Open)
    BY <1>4, <1>5, SumOnPart
  <2>3. IsFiniteSet(Open)
    BY <1>4, FS_Subset
  <2>4. SumFunctionOnSet(s, Open) = SumFunctionOnSet(f, Open)
    BY <1>7, <2>3, SumSame
  <2> QED
    BY <2>1, <2>2, <2>4
<1>9. Held'["INJ"] = bals'["INJ"] + SumFunctionOnSet(s, stake') + 0
  <2>1. Locks("INJ") \in Nat /\ bals'["INJ"] = q /\ Held' = Held
    BY <1>1, <1>2, LockFacts DEF Held
  <2> HIDE DEF q
  <2> QED
    BY <1>1, <1>3, <1>8, <2>1
<1>10. ASSUME NEW i \in Open
       PROVE  LET lots == Lots(log[i])
                  left == book[i].left
              IN  IF log[i].side = "buy" THEN s[i] \in 0 .. lots - left
                  ELSE s[i] \in left - lots .. lots
  <2>1. s[i] = IF log[i].side = "buy" THEN 0 ELSE book[i].left
    BY <1>4, <1>7 DEF Lock, Gives
  <2>2. PICK lots, left : lots = Lots(log[i]) /\ left = book[i].left
    OBVIOUS
  <2>3. lots \in Nat /\ left \in Nat /\ left <= lots
    BY <1>4, <2>2, OrderFacts
  <2>4. 0 \in 0 .. lots - left /\ left \in left - lots .. lots
    BY <2>3
  <2> QED
    BY <2>1, <2>2, <2>4
<1>11. Drift(s)' /\ Open' = Open
  BY <1>1, <1>10 DEF Drift, Lots, Open
<1>12. 0 \in -moved'["INJ"] .. moved'["INJ"]
  BY <1>1, <1>2 DEF Nothing
<1> QED
  BY <1>1, <1>7, <1>9, <1>11, <1>12 DEF ReadInv

LEMMA ReadNext ==
  ASSUME IInv, FundsInv, ShapeInv, ReadInv, [Next]_vars
  PROVE  ReadInv'
<1>0. FundsInv'
  BY FundsNext
<1>1. ASSUME UNCHANGED <<pc, bals, log, book, total, stake, moved>> PROVE ReadInv'
  BY <1>1 DEF ReadInv, Open, Drift, Lots, Held
<1>2. CASE UNCHANGED vars
  BY <1>1, <1>2 DEF vars, contract, backend, observers
<1>3. CASE ReadInj
  BY <1>3, ReadStart
<1>4. CASE ReadUsdt \/ Hold
  BY <1>4 DEF ReadInv, ReadUsdt, Hold
<1>5. ASSUME NEW side \in {"buy", "sell"}, NEW usd \in Budgets, NEW ref \in Prices,
             NEW ticks \in BOOLEAN, ExecuteSwap(side, usd, ref, ticks)
      PROVE  ReadInv'
  BY <1>5 DEF ReadInv, ExecuteSwap
<1>6. CASE PlaceSpotMarketOrder
  <2>1. tx # NoTx /\ Place(Agent, tx) /\ UNCHANGED <<pc, bals>>
    BY <1>6 DEF PlaceSpotMarketOrder
  <2>2. tx \in Orders
    BY <2>1 DEF IInv, OrdersInv
  <2> QED
    BY <1>0, <2>1, <2>2, ReadPlace
<1>7. CASE Revert
  BY <1>1, <1>7 DEF Revert, contract, observers
<1>8. CASE Match
  <2>1. PICK i \in Open : \E n \in 1 .. book[i].left, px \in Prices : Trade(i, n, px)
    BY <1>8 DEF Match
  <2>2. PICK n \in 1 .. book[i].left, px \in Prices : Trade(i, n, px)
    BY <2>1
  <2>3. n \in 0 .. book[i].left /\ px \in Nat
    BY <2>2, ExecutorAssumption
  <2> QED
    BY <1>0, <2>1, <2>2, <2>3, ReadTrade
<1>9. CASE Expire
  <2>1. PICK i \in Open : Trade(i, 0, 0)
    BY <1>9 DEF Expire
  <2>2. 0 \in 0 .. book[i].left /\ 0 \in Nat
    BY BookFacts DEF Open
  <2> QED
    BY <1>0, <2>1, <2>2, ReadTrade
<1>10. ASSUME NEW m \in Amounts, Receive(m[2]) PROVE ReadInv'
  BY <1>1, <1>10 DEF Receive, backend, observers
<1>11. ASSUME NEW a \in Accounts, PlaceSpotLimitOrder(a) PROVE ReadInv'
  <2>1. PICK side \in {"buy", "sell"}, px \in Prices, n \in Rests :
          /\ Place(a, [limit |-> TRUE, cid |-> 0, side |-> side,
                       price |-> ToUfixed(px), qty |-> ToUfixed(n), usd |-> 0, ref |-> 0])
          /\ UNCHANGED <<backend, hand>>
    BY <1>11 DEF PlaceSpotLimitOrder
  <2> DEFINE o == [limit |-> TRUE, cid |-> 0, side |-> side, price |-> ToUfixed(px),
                   qty |-> ToUfixed(n), usd |-> 0, ref |-> 0]
  <2>2. ToUfixed(px) \in Nat /\ ToUfixed(n) \in Nat
    BY ExecutorAssumption DEF ToUfixed
  <2>3. o \in Orders
    BY <2>2 DEF Orders
  <2>4. Place(a, o) /\ UNCHANGED <<pc, bals>>
    BY <2>1 DEF backend
  <2> HIDE DEF o
  <2> QED
    BY <1>0, <2>3, <2>4, ReadPlace
<1>12. ASSUME NEW a \in Accounts, NEW m \in Amounts,
              Deposit(a, m[1], m[2]) \/ Withdraw(a, m[1], m[2])
       PROVE  ReadInv'
  <2>1. PICK d \in Denoms, v \in Nat : d = m[1] /\ v = m[2]
    BY ExecutorAssumption
  <2>2. /\ \/ total' = [total EXCEPT ![d] = total[d] + ToChain(v, d)]
           \/ total' = [total EXCEPT ![d] = total[d] - ToChain(v, d)]
        /\ moved' = IF pc = "half" THEN [moved EXCEPT ![d] = moved[d] + v] ELSE Nothing
        /\ UNCHANGED <<pc, bals, log, book, stake>>
    BY <1>12, <2>1 DEF Deposit, Withdraw, ByHand, backend
  <2>3. total \in [Denoms -> Nat] /\ moved \in [Denoms -> Nat] /\ "INJ" \in Denoms
    BY DEF FundsInv, ShapeInv, Denoms
  <2>4. Unit["INJ"] \in Nat
    BY <2>3, ExecutorAssumption
  <2>5. PICK x \in Int : /\ total'["INJ"] = total["INJ"] + ToChain(x, "INJ")
                         /\ x # 0 => d = "INJ" /\ (x = v \/ x = -v)
    <3>1. CASE d # "INJ"
      <4>1. total'["INJ"] = total["INJ"] /\ total["INJ"] \in Nat
        BY <2>2, <2>3, <3>1
      <4>2. ToChain(0, "INJ") = 0
        BY <2>4 DEF ToChain
      <4>3. total'["INJ"] = total["INJ"] + ToChain(0, "INJ") /\ 0 \in Int
        BY <4>1, <4>2
      <4> QED
        BY <4>3
    <3>2. CASE d = "INJ" /\ total' = [total EXCEPT ![d] = total[d] + ToChain(v, d)]
      BY <2>3, <3>2
    <3>3. CASE d = "INJ" /\ total' = [total EXCEPT ![d] = total[d] - ToChain(v, d)]
      <4>1. total'["INJ"] = total["INJ"] - ToChain(v, "INJ") /\ total["INJ"] \in Nat
        BY <2>3, <3>3
      <4>2. ToChain(-v, "INJ") = -ToChain(v, "INJ") /\ ToChain(v, "INJ") \in Int
        BY <2>4 DEF ToChain
      <4>3. total'["INJ"] = total["INJ"] + ToChain(-v, "INJ") /\ -v \in Int
        BY <4>1, <4>2
      <4> QED
        BY <3>3, <4>3
    <3> QED
      BY <2>2, <3>1, <3>2, <3>3
  <2>6. pc = "half" => /\ moved'["INJ"] \in Nat
                       /\ moved["INJ"] + x <= moved'["INJ"]
                       /\ moved["INJ"] - x <= moved'["INJ"]
    BY <2>2, <2>3, <2>5
  <2> QED
    BY <1>0, <2>2, <2>5, <2>6, ReadMove
<1>13. ASSUME NEW a \in Accounts, NEW new \in Accounts, TransferOwnership(a, new)
       PROVE  ReadInv'
  BY <1>1, <1>13 DEF TransferOwnership, ByHand, backend
<1> QED
  BY <1>2, <1>3, <1>4, <1>5, <1>6, <1>7, <1>8, <1>9, <1>10, <1>11, <1>12, <1>13 DEF Next

-----------------------------------------------------------------------------
(* What the read is off by *)

(* What one order makes the NAV off by, at most all its lots at the        *)
(* highest price.                                                          *)
LEMMA OrderOff ==
  ASSUME IInv, CapInv, NEW px \in Prices, NEW s, NEW i \in stake, Drift(s), i \in DOMAIN log
  PROVE  /\ s[i] \in Int /\ Lock(i, "USDT") \in Int /\ Lots(log[i]) * Top \in Int
         /\ -(Lots(log[i]) * Top) <= px * s[i] + Lock(i, "USDT")
         /\ px * s[i] + Lock(i, "USDT") <= Lots(log[i]) * Top
<1>1. PICK o, n, left, z, p : /\ o = log[i] /\ n = Lots(o) /\ left = book[i].left
                              /\ z = s[i] /\ p = Price(o)
  OBVIOUS
<1>2. PICK top, l : top = Top /\ l = Lock(i, "USDT")
  OBVIOUS
<1>3. o \in Orders /\ n \in Nat /\ left \in Nat /\ left <= n /\ p \in Nat
  <2>1. o \in Orders /\ left \in Nat /\ book[i].lots \in Nat /\ left + book[i].lots <= n
    BY <1>1, BookFacts
  <2>2. n \in Nat /\ p \in Nat
    BY <1>1, <2>1, OrderFacts
  <2> QED
    BY <2>1, <2>2
<1>4. top \in Nat /\ px \in Nat /\ px <= top
  BY <1>2, TopFacts, ExecutorAssumption
<1>5. IF o.side = "buy" THEN z \in 0 .. n - left ELSE z \in left - n .. n
  BY <1>1 DEF Drift
<1>6. l = IF o.side = "buy" THEN left * p ELSE 0
  BY <1>1, <1>2 DEF Lock, Gives
<1>7. o.side = "buy" => p <= top
  BY <1>1, <1>2 DEF CapInv, Capped
<1>8. /\ z \in Int /\ l \in Int /\ n * top \in Int
      /\ -(n * top) <= px * z + l /\ px * z + l <= n * top
  <2>1. n * top \in Nat
    BY <1>3, <1>4
  <2>2. CASE o.side = "buy"
    <3>1. z \in Nat /\ z + left <= n
      BY <1>3, <1>5, <2>2
    <3>2. px * z <= top * z /\ px * z \in Nat /\ top * z \in Nat
      BY <1>4, <3>1, TimesMono
    <3>3. left * p <= left * top /\ left * p \in Nat /\ left * top \in Nat
      BY <1>3, <1>4, <1>7, <2>2, TimesMono
    <3>4. (z + left) * top <= n * top
      BY <1>3, <1>4, <3>1, TimesMono
    <3>5. (z + left) * top = top * z + left * top
      BY <1>3, <1>4, <3>1
    <3> QED
      BY <1>6, <2>1, <2>2, <3>1, <3>2, <3>3, <3>4, <3>5
  <2>3. CASE o.side # "buy"
    <3>1. z \in Int /\ -n <= z /\ z <= n /\ l = 0
      BY <1>3, <1>5, <1>6, <2>3
    <3>2. PICK w \in Nat : (w = z \/ w = -z) /\ w <= n
      <4>1. CASE z >= 0
        BY <3>1, <4>1
      <4>2. CASE z < 0
        <5>1. -z \in Nat /\ -z <= n
          BY <1>3, <3>1, <4>2
        <5> QED
          BY <5>1
      <4> QED
        BY <3>1, <4>1, <4>2
    <3>3. px * w <= top * w /\ px * w \in Nat /\ top * w \in Nat
      BY <1>4, TimesMono
    <3>4. top * w <= top * n
      BY <1>3, <1>4, <3>2, TimesMono
    <3>5. top * n = n * top
      BY <1>3, <1>4
    <3>6. px * z = px * w \/ px * z = -(px * w)
      BY <1>4, <3>1, <3>2
    <3> QED
      BY <2>1, <3>1, <3>3, <3>4, <3>5, <3>6
  <2> QED
    BY <2>2, <2>3
<1> QED
  BY <1>1, <1>2, <1>8

(* All together. *)
LEMMA ReadEnds ==
  ASSUME IInv, FundsInv, ShapeInv, CapInv, ReadInv, pc = "half", ReadUsdt, NEW px \in Prices
  PROVE  LET off == Nav(bals', px) - Nav(Held, px)
         IN  off <= AtStake /\ -off <= AtStake
<1> DEFINE D == DOMAIN log
           u == [i \in D |-> Lock(i, "USDT")]
           h == [i \in stake |-> Lots(log[i]) * Top]
<1>1. PICK s \in [stake -> Int], net \in -moved["INJ"] .. moved["INJ"] :
         /\ Open \subseteq stake /\ Drift(s)
         /\ Held["INJ"] = bals["INJ"] + SumFunctionOnSet(s, stake) + net
  BY DEF ReadInv
<1>2. PICK b, q, S, U, H, mi, mu, top :
         /\ b = bals["INJ"] /\ q = FromChain(avail["USDT"], "USDT")
         /\ S = SumFunctionOnSet(s, stake) /\ U = SumFunctionOnSet(u, stake)
         /\ H = SumFunctionOnSet(h, stake)
         /\ mi = moved["INJ"] /\ mu = moved["USDT"] /\ top = Top
  OBVIOUS
<1>3. "INJ" \in Denoms /\ "USDT" \in Denoms /\ bals \in [Denoms -> Nat] /\ moved \in [Denoms -> Nat]
  BY DEF Denoms, ShapeInv
<1>4. b \in Nat /\ mi \in Nat /\ mu \in Nat /\ net \in -mi .. mi
  BY <1>2, <1>3
<1>5. top \in Nat /\ px \in Nat /\ px <= top
  BY <1>2, TopFacts, ExecutorAssumption
<1>6. IsFiniteSet(stake) /\ stake \subseteq D /\ IsFiniteSet(D)
  BY HalfFacts, BookFacts
<1>7. \A i \in D : u[i] \in Int /\ (i \notin Open => u[i] = 0)
  BY <1>3, LockFacts
<1>8. SumFunctionOnSet(u, D) = U
  <2>1. \A i \in D \ stake : u[i] = 0
    BY <1>1, <1>7
  <2> HIDE DEF D, u
  <2>2. SumFunctionOnSet(u, D) = SumFunctionOnSet(u, stake)
    BY <1>6, <1>7, <2>1, SumOnPart
  <2> QED
    BY <1>2, <2>2
<1>9. Held["USDT"] = q + U /\ q \in Nat
  <2>1. Held["USDT"] = q + Locks("USDT") /\ q \in Nat
    BY <1>2, <1>3, FundsFacts
  <2>2. Locks("USDT") = U
    BY <1>8 DEF Locks
  <2> QED
    BY <2>1, <2>2
<1>10. \A i \in stake : /\ s[i] \in Int /\ u[i] \in Int /\ h[i] \in Int
                        /\ -h[i] <= px * s[i] + u[i] /\ px * s[i] + u[i] <= h[i]
  BY <1>1, <1>6, OrderOff
<1>11. /\ -H <= px * S + U /\ px * S + U <= H
       /\ S \in Int /\ U \in Int /\ H \in Int
  <2> HIDE DEF u, h
  <2>1. px \in Int
    BY <1>5
  <2>2. /\ -SumFunctionOnSet(h, stake) <= px * SumFunctionOnSet(s, stake) + SumFunctionOnSet(u, stake)
        /\ px * SumFunctionOnSet(s, stake) + SumFunctionOnSet(u, stake) <= SumFunctionOnSet(h, stake)
    BY <1>6, <1>10, <2>1, SumsWithin
  <2>3. /\ SumFunctionOnSet(s, stake) \in Int /\ SumFunctionOnSet(u, stake) \in Int
        /\ SumFunctionOnSet(h, stake) \in Int
    BY <1>6, <1>10, SumType
  <2> QED
    BY <1>2, <2>2, <2>3
<1>12. AtStake = H + (mi * top + mu)
  BY <1>2 DEF AtStake, Nav
<1>13. bals'["INJ"] = b /\ bals'["USDT"] = q
  BY <1>2, <1>3 DEF ReadUsdt, Read, SubaccountBalance
<1>14. Nav(bals', px) = b * px + q /\ Nav(Held, px) = (b + S + net) * px + (q + U)
  BY <1>1, <1>2, <1>9, <1>13 DEF Nav
<1> HIDE DEF D, u, h
<1>15. net \in Int /\ -mi <= net /\ net <= mi
  BY <1>4
<1>16. /\ px * net \in Int /\ -(mi * top) <= px * net /\ px * net <= mi * top
       /\ mi * top \in Nat
  <2>1. px * mi <= top * mi /\ px * mi \in Nat /\ top * mi \in Nat /\ top * mi = mi * top
    BY <1>4, <1>5, TimesMono
  <2>2. CASE net >= 0
    <3>1. net \in Nat
      BY <1>15, <2>2
    <3>2. px * net <= px * mi /\ px * net \in Nat
      BY <1>4, <1>5, <1>15, <3>1, TimesMono
    <3> QED
      BY <2>1, <3>2
  <2>3. CASE net < 0
    <3>1. PICK w \in Nat : w = -net
      BY <1>15, <2>3
    <3>2. w <= mi
      BY <1>4, <1>15, <3>1
    <3>3. px * w <= px * mi /\ px * w \in Nat
      BY <1>4, <1>5, <3>2, TimesMono
    <3>4. px * net = -(px * w)
      BY <1>5, <1>15, <3>1
    <3> QED
      BY <2>1, <3>3, <3>4
  <2> QED
    BY <1>15, <2>2, <2>3
<1>17. (b + S + net) * px = b * px + px * S + px * net /\ b * px \in Int /\ px * S \in Int
  BY <1>4, <1>5, <1>11, <1>15
<1> QED
  BY <1>4, <1>9, <1>11, <1>12, <1>14, <1>16, <1>17

-----------------------------------------------------------------------------
(* The theorems *)

LEMMA FundsInit == Init => IInv /\ FundsInv /\ ShapeInv /\ CapInv /\ ReadInv
<1> SUFFICES ASSUME Init PROVE IInv /\ FundsInv /\ ShapeInv /\ CapInv /\ ReadInv
  OBVIOUS
<1>1. IInv
  BY DEF Init, IInv, OrdersInv, FillsInv
<1>2. ASSUME NEW d \in Denoms
      PROVE  /\ avail[d] \in Nat /\ total[d] \in Nat
             /\ avail[d] = ToChain(FromChain(avail[d], d), d)
             /\ total[d] = ToChain(FromChain(avail[d], d) + Locks(d), d)
  <2>1. Seed[d] \in Nat
    BY ExecutorAssumption
  <2>2. avail[d] = ToChain(Seed[d], d) /\ total[d] = avail[d]
    BY DEF Init, ToChain
  <2>3. avail[d] \in Nat /\ FromChain(avail[d], d) = Seed[d]
    BY <2>1, <2>2, Whole
  <2>4. Locks(d) = 0
    <3>1. DOMAIN log = {}
      BY DEF Init
    <3>2. Locks(d) = SumFunctionOnSet([i \in DOMAIN log |-> Lock(i, d)], {})
      BY <3>1 DEF Locks
    <3> QED
      BY <3>2, SumEmpty
  <2>5. Seed[d] + Locks(d) = Seed[d]
    BY <2>1, <2>4
  <2> QED
    BY <2>2, <2>3, <2>5
<1>3. FundsInv
  <2>1. avail \in [Denoms -> Nat] /\ total \in [Denoms -> Nat]
    <3>1. avail = [d \in Denoms |-> avail[d]] /\ total = [d \in Denoms |-> total[d]]
      BY DEF Init
    <3> QED
      BY <1>2, <3>1
  <2> QED
    BY <1>2, <2>1 DEF FundsInv
<1>4. ShapeInv
  <2>1. bank \in [Denoms -> Nat] /\ Nothing \in [Denoms -> Nat]
    BY ExecutorAssumption DEF Init, Nothing
  <2> QED
    BY <2>1, ExecutorAssumption DEF Init, ShapeInv
<1>5. CapInv /\ ReadInv
  BY DEF Init, CapInv, ReadInv
<1> QED
  BY <1>1, <1>3, <1>4, <1>5

LEMMA BooksStep ==
  IInv /\ FundsInv /\ ShapeInv /\ CapInv /\ ReadInv /\ [Next]_vars
     => (FundsInv /\ ShapeInv /\ CapInv /\ ReadInv)'
BY FundsNext, ShapeNext, CapStep, ReadNext

(* Whatever is ordered, traded, withdrawn and in whichever order: no       *)
(* balance goes negative and what is available is there.                   *)
THEOREM FundsTheorem == Spec => []TypeOK
BY FundsInit, StepInv, BooksStep, TypeFrom, PTL DEF Spec

LEMMA ReadStep ==
  IInv /\ FundsInv /\ ShapeInv /\ CapInv /\ ReadInv /\ [Next]_vars
     => (pc = "half" /\ pc' = "send" =>
            \A px \in Prices :
                LET off == Nav(bals', px) - Nav(Held, px)
                IN  off <= AtStake /\ -off <= AtStake)
<1> SUFFICES ASSUME IInv, FundsInv, ShapeInv, CapInv, ReadInv, [Next]_vars,
                    pc = "half", pc' = "send", NEW px \in Prices
             PROVE  LET off == Nav(bals', px) - Nav(Held, px)
                    IN  off <= AtStake /\ -off <= AtStake
  OBVIOUS
<1>1. ReadUsdt
  <2>1. pc' # pc
    OBVIOUS
  <2>2. \A i, n, p : ~Trade(i, n, p)
    BY <2>1 DEF Trade, backend
  <2>3. \A a, d, v : ~Deposit(a, d, v) /\ ~Withdraw(a, d, v) /\ ~TransferOwnership(a, v)
    BY <2>1 DEF Deposit, Withdraw, TransferOwnership, ByHand, backend
  <2>4. ~PlaceSpotMarketOrder /\ ~Revert /\ \A v : ~Receive(v)
    BY <2>1 DEF PlaceSpotMarketOrder, Revert, Receive, backend
  <2>5. \A a : ~PlaceSpotLimitOrder(a)
    BY <2>1 DEF PlaceSpotLimitOrder, backend
  <2>6. ~ReadInj /\ ~Hold /\ \A side, usd, ref, ticks : ~ExecuteSwap(side, usd, ref, ticks)
    BY DEF ReadInj, Hold, ExecuteSwap
  <2>7. ~Match /\ ~Expire
    BY <2>2 DEF Match, Expire
  <2>8. ~UNCHANGED vars
    BY <2>1 DEF vars, backend
  <2> QED
    BY <2>3, <2>4, <2>5, <2>6, <2>7, <2>8 DEF Next
<1> QED
  BY <1>1, ReadEnds

(* However many orders, trades and hand-made moves come between the two    *)
(* calls of a read: the NAV it gives is off by no more than those orders   *)
(* and moves at the highest price.                                         *)
THEOREM ReadTheorem == Spec => ReadWithinStake
<1>1. IInv /\ FundsInv /\ ShapeInv /\ CapInv /\ ReadInv /\ [Next]_vars
         => [pc = "half" /\ pc' = "send" =>
                \A px \in Prices :
                    LET off == Nav(bals', px) - Nav(Held, px)
                    IN  off <= AtStake /\ -off <= AtStake]_vars
  BY ReadStep
<1> QED
  BY <1>1, FundsInit, StepInv, BooksStep, PTL DEF Spec, ReadWithinStake

=============================================================================
