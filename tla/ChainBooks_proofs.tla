------------------------- MODULE ChainBooks_proofs -------------------------
(***************************************************************************)
(* Proofs about the two users of the endpoint pool, for any number of      *)
(* endpoints and any cooldown: ChainBooks for any universe of tokens, any  *)
(* prices and any number of swaps, and NonceManager for any length of the  *)
(* account's history.                                                      *)
(***************************************************************************)
EXTENDS ChainBooks, NonceManager, TLAPS

-----------------------------------------------------------------------------
(* The operators *)

LEMMA SymbolFacts ==
    /\ symbols \in Seq(ToSet(symbols))
    /\ ToSet(symbols) = Tokens \cup {Quote}
    /\ Len(symbols) \in Nat \ {0} /\ DOMAIN symbols = 1 .. Len(symbols)
    /\ \A i \in 1 .. Len(symbols) : symbols[i] \in ToSet(symbols)
    /\ \A s \in ToSet(symbols) : \E i \in 1 .. Len(symbols) : symbols[i] = s
    /\ Quote \notin Tokens
  <1> DEFINE n == Len(Universe)
  <1>1. /\ Universe \in Seq(Tokens) /\ n \in Nat /\ DOMAIN Universe = 1 .. n
        /\ Quote \notin Tokens
    BY BooksAssumption DEF Tokens
  <1>2. /\ symbols \in Seq(Tokens \cup {Quote}) /\ Len(symbols) = n + 1
        /\ symbols[n + 1] = Quote
        /\ \A i \in 1 .. n : symbols[i] = Universe[i]
    BY <1>1 DEF symbols
  <1>3. DOMAIN symbols = 1 .. n + 1
    BY <1>2
  <1>4. Tokens = {Universe[i] : i \in 1 .. n}
    BY <1>1 DEF Tokens, ToSet
  <1>5. ToSet(symbols) = {symbols[i] : i \in 1 .. n + 1}
    BY <1>3 DEF ToSet
  <1> HIDE DEF n
  <1>6. ToSet(symbols) = Tokens \cup {Quote}
    <2>1. ASSUME NEW s \in ToSet(symbols) PROVE s \in Tokens \cup {Quote}
      BY <1>2, <1>3, <1>5, <2>1
    <2>2. ASSUME NEW s \in Tokens PROVE s \in ToSet(symbols)
      <3>1. PICK i \in 1 .. n : s = Universe[i]
        BY <1>4
      <3>2. i \in 1 .. n + 1 /\ symbols[i] = s
        BY <1>1, <1>2, <3>1
      <3> QED
        BY <1>5, <3>2
    <2>3. Quote \in ToSet(symbols)
      <3>1. n + 1 \in 1 .. n + 1
        BY <1>1
      <3> QED
        BY <1>2, <1>5, <3>1
    <2> QED
      BY <2>1, <2>2, <2>3
  <1>7. \A s \in ToSet(symbols) : \E i \in 1 .. n + 1 : symbols[i] = s
    BY <1>5
  <1>8. \A i \in 1 .. n + 1 : symbols[i] \in ToSet(symbols)
    BY <1>5
  <1> QED
    BY <1>1, <1>2, <1>3, <1>6, <1>7, <1>8

(* A call of the pool keeps the pool's variables in their types. *)
LEMMA CallType ==
    ASSUME PoolTypeOK, up' = up, AllDown \/ \E e \in Endpoints : Answered(e)
    PROVE  PoolTypeOK'
  <1>1. ASSUME NEW F, NEW S, MarkEndpoints(F, S) PROVE PoolTypeOK'
    <2>1. /\ healthy' \in [Endpoints -> BOOLEAN]
          /\ up' \subseteq Endpoints
      BY <1>1 DEF PoolTypeOK, MarkEndpoints
    <2>2. Cooldown \in 0 .. Cooldown /\ 0 \in 0 .. Cooldown
      BY PoolAssumption
    <2>3. \A e \in Endpoints : cooling[e] \in 0 .. Cooldown
      BY DEF PoolTypeOK
    <2>4. cooling' \in [Endpoints -> 0 .. Cooldown]
      BY <1>1, <2>2, <2>3 DEF MarkEndpoints
    <2> QED
      BY <2>1, <2>4 DEF PoolTypeOK
  <1> QED
    BY <1>1 DEF AllDown, Answered

LEMMA PoolStep == ASSUME PoolTypeOK, Elapse \/ Flap PROVE PoolTypeOK'
  <1>1. CASE Flap
    BY <1>1 DEF PoolTypeOK, Flap, poolVars
  <1>2. CASE Elapse
    <2>1. \A e \in Endpoints : cooling[e] \in 0 .. Cooldown
      BY DEF PoolTypeOK
    <2>2. \A e \in Endpoints :
            (IF cooling[e] > 0 THEN cooling[e] - 1 ELSE 0) \in 0 .. Cooldown
      BY <2>1, PoolAssumption
    <2>3. cooling' \in [Endpoints -> 0 .. Cooldown]
      BY <1>2, <2>2 DEF Elapse
    <2> QED
      BY <1>2, <2>3 DEF PoolTypeOK, Elapse
  <1> QED
    BY <1>1, <1>2

(* The balances of a complete read are the ones the sync looks up. *)
LEMMA BalanceFacts ==
    ASSUME bals \in Seq(Nat), Len(bals) = Len(symbols), NEW s \in ToSet(symbols)
    PROVE  \E i \in DOMAIN bals : symbols[i] = s /\ Balance(s) = bals[i] /\ bals[i] \in Nat
  <1> DEFINE i == CHOOSE j \in DOMAIN symbols : symbols[j] = s
  <1>1. i \in DOMAIN symbols /\ symbols[i] = s
    BY SymbolFacts
  <1>2. i \in DOMAIN bals /\ bals[i] \in Nat
    BY <1>1, SymbolFacts
  <1> QED
    BY <1>1, <1>2 DEF Balance

(* What the sync makes of a holding. *)
LEMMA SyncedFacts ==
    ASSUME TypeOK, Len(bals) = Len(symbols), NEW t \in Tokens
    PROVE  /\ Balance(t) \in Nat /\ Balance(Quote) \in Nat
           /\ Synced(t) \in Position
           /\ Synced(t).qty = IF Balance(t) * price[t] < DUST_USD THEN 0 ELSE Balance(t)
           /\ Balance(t) = 0 => Synced(t) = None
           /\ mem.positions[t] # None /\ Synced(t) # None =>
                 Synced(t).entry = mem.positions[t].entry
  <1>1. Balance(t) \in Nat /\ Balance(Quote) \in Nat
    BY BalanceFacts, SymbolFacts DEF TypeOK
  <1>2. price[t] \in Nat /\ DUST_USD \in Nat \ {0}
    BY BooksAssumption DEF TypeOK
  <1>3. mem.positions[t] \in Position
    BY DEF TypeOK, State
  <1> DEFINE b == Balance(t)
             p == price[t]
  <1>4. b = 0 => b * p < DUST_USD
    BY <1>1, <1>2
  <1>5. CASE b * p < DUST_USD
    BY <1>1, <1>5 DEF Synced, None, Position
  <1>6. CASE ~(b * p < DUST_USD)
    <2>1. Synced(t) = [qty |-> b, entry |-> IF mem.positions[t] # None
                                            THEN mem.positions[t].entry ELSE "adopted"]
      BY <1>6 DEF Synced
    <2> HIDE DEF b, p
    <2> QED
      BY <1>1, <1>3, <1>4, <1>6, <2>1 DEF Position, b, p
  <1> QED
    BY <1>5, <1>6

LEMMA OfferFacts ==
    ASSUME TypeOK, NEW swap \in Offers
    PROVE  swap \in Swap /\ swap.qty > 0 /\ swap.token \in Tokens
  <1>1. PICK t \in Tokens, d \in {"buy", "sell"}, q \in 1 .. Worth :
           swap = [token |-> t, side |-> d, qty |-> q, usd |-> q * price[t]]
    BY DEF Offers
  <1>2. q \in Nat /\ q > 0 /\ price[t] \in Nat
    <2>1. price[t] \in Prices
      BY DEF TypeOK
    <2>2. q \in Nat /\ q > 0
      BY BooksAssumption
    <2> QED
      BY <2>1, <2>2, BooksAssumption
  <1>3. q * price[t] \in Nat
    BY <1>2
  <1> QED
    BY <1>1, <1>2, <1>3 DEF Swap

(* What a booked fill does to the books: one position and the cash. *)
LEMMA FillFacts ==
    ASSUME mem \in State, NEW swap \in Swap, swap.qty > 0, Affordable(swap)
    PROVE  LET f == ApplyFill(mem, swap)
               old == mem.positions[swap.token]
               new == f.positions[swap.token] IN
             /\ f \in State /\ f.pending = mem.pending
             /\ \A t \in Tokens \ {swap.token} : f.positions[t] = mem.positions[t]
             /\ swap.side = "sell" => old # None
             /\ swap.side = "buy" \/ old.qty # swap.qty => new # None
             /\ old # None /\ new # None => new.entry = old.entry
  <1> DEFINE tk == swap.token
             old == mem.positions[tk]
             qty == IF swap.side = "buy" THEN old.qty + swap.qty ELSE old.qty - swap.qty
             new == IF qty = 0 THEN None
                    ELSE [qty |-> qty,
                          entry |-> IF old = None THEN "filled" ELSE old.entry]
             cash == IF swap.side = "buy" THEN mem.stable - swap.usd
                                          ELSE mem.stable + swap.usd
             f == ApplyFill(mem, swap)
  <1>1. /\ tk \in Tokens /\ swap.qty \in Nat /\ swap.usd \in Nat
        /\ swap.side \in {"buy", "sell"}
    BY DEF Swap
  <1>2. /\ mem.positions \in [Tokens -> Position] /\ mem.stable \in Nat
        /\ mem.pending \in BOOLEAN
        /\ mem = [positions |-> mem.positions, stable |-> mem.stable,
                  pending |-> mem.pending]
    BY DEF State
  <1>3. old \in Position /\ old.qty \in Nat /\ old.entry \in {"none", "filled", "adopted"}
    BY <1>1, <1>2 DEF Position
  <1>4. qty \in Nat /\ cash \in Nat
    BY <1>1, <1>2, <1>3 DEF Affordable
  <1>5. f = [mem EXCEPT !.positions[tk] = new, !.stable = cash]
    BY <1>2 DEF ApplyFill
  <1>6. f = [positions |-> [mem.positions EXCEPT ![tk] = new], stable |-> cash,
             pending |-> mem.pending]
    BY <1>2, <1>5
  <1>7. swap.side = "sell" => old # None
    BY <1>1, <1>3 DEF Affordable, None
  <1>8. swap.side = "buy" \/ old.qty # swap.qty => qty # 0
    BY <1>1, <1>3
  <1> HIDE DEF qty, cash
  <1>9. new \in Position
    BY <1>3, <1>4 DEF Position, None
  <1>10. /\ qty # 0 => new # None
         /\ old # None /\ new # None => new.entry = old.entry
    BY DEF None
  <1> HIDE DEF new, old
  <1>11. f.positions[tk] = new /\ f.pending = mem.pending
    BY <1>1, <1>2, <1>6
  <1>12. \A t \in Tokens \ {tk} : f.positions[t] = mem.positions[t]
    BY <1>2, <1>6
  <1>13. f \in State
    <2> DEFINE ps == [mem.positions EXCEPT ![tk] = new]
    <2>1. ps \in [Tokens -> Position]
      BY <1>2, <1>9
    <2> HIDE DEF ps
    <2>2. [positions |-> ps, stable |-> cash, pending |-> mem.pending] \in State
      BY <1>2, <1>4, <2>1 DEF State
    <2> QED
      BY <1>6, <2>2 DEF ps
  <1> HIDE DEF f
  <1> QED
    BY <1>7, <1>8, <1>10, <1>11, <1>12, <1>13 DEF f, old, tk

(* What a mined swap does to the wallet. *)
LEMMA MovedFacts ==
    ASSUME TypeOK, NEW swap \in Swap, Moved(swap)[Sold(swap)] >= 0
    PROVE  /\ Moved(swap) \in [ToSet(symbols) -> Nat]
           /\ \A t \in Tokens \ {swap.token} : Moved(swap)[t] = wallet[t]
           /\ swap.side = "sell" /\ wallet[swap.token] = 0 => Moved(swap)[swap.token] = 0
  <1> DEFINE tok == IF swap.side = "buy" THEN swap.qty ELSE -swap.qty
             usd == IF swap.side = "buy" THEN -swap.usd ELSE swap.usd
             w == Moved(swap)
  <1>1. /\ swap.token \in Tokens /\ swap.qty \in Nat /\ swap.usd \in Nat
        /\ swap.side \in {"buy", "sell"}
    BY DEF Swap
  <1>2. /\ swap.token # Quote /\ swap.token \in ToSet(symbols)
        /\ Quote \in ToSet(symbols) /\ Tokens \subseteq ToSet(symbols)
        /\ \A t \in Tokens : t # Quote
    BY <1>1, SymbolFacts
  <1>3. wallet \in [ToSet(symbols) -> Nat]
    BY DEF TypeOK
  <1>4. w = [wallet EXCEPT ![swap.token] = @ + tok, ![Quote] = @ + usd]
    BY DEF Moved
  <1>5. /\ w[swap.token] = wallet[swap.token] + tok
        /\ w[Quote] = wallet[Quote] + usd
        /\ DOMAIN w = ToSet(symbols)
        /\ \A s \in ToSet(symbols) \ {swap.token, Quote} : w[s] = wallet[s]
    BY <1>2, <1>3, <1>4
  <1>6. w[swap.token] \in Nat /\ w[Quote] \in Nat
    BY <1>1, <1>2, <1>3, <1>5 DEF Sold
  <1>7. w \in [ToSet(symbols) -> Nat]
    <2>1. \A s \in ToSet(symbols) : w[s] \in Nat
      BY <1>3, <1>5, <1>6
    <2>2. w = [s \in DOMAIN w |-> w[s]]
      BY <1>4
    <2> QED
      BY <1>5, <2>1, <2>2
  <1>8. swap.side = "sell" /\ wallet[swap.token] = 0 => w[swap.token] = 0
    BY <1>1, <1>5, <1>6
  <1> QED
    BY <1>2, <1>5, <1>7, <1>8

(* The oldest swap and those behind it; a new one goes to the end. *)
LEMMA QueueFacts ==
    ASSUME flight \in Seq(Swap)
    PROVE  /\ flight # <<>> =>
                 /\ Head(flight) \in Swap /\ Tail(flight) \in Seq(Swap)
                 /\ \E j \in DOMAIN flight : Head(flight) = flight[j]
                 /\ \A i \in DOMAIN Tail(flight) :
                       \E j \in DOMAIN flight : Tail(flight)[i] = flight[j]
           /\ \A swap \in Swap :
                 /\ Append(flight, swap) \in Seq(Swap)
                 /\ \A i \in DOMAIN Append(flight, swap) :
                       \/ Append(flight, swap)[i] = swap
                       \/ \E j \in DOMAIN flight : Append(flight, swap)[i] = flight[j]
  <1> DEFINE n == Len(flight)
  <1>1. n \in Nat /\ DOMAIN flight = 1 .. n
    OBVIOUS
  <1>2. ASSUME flight # <<>>
        PROVE  /\ Head(flight) \in Swap /\ Tail(flight) \in Seq(Swap)
               /\ \E j \in DOMAIN flight : Head(flight) = flight[j]
               /\ \A i \in DOMAIN Tail(flight) :
                     \E j \in DOMAIN flight : Tail(flight)[i] = flight[j]
    <2>1. n > 0 /\ 1 \in DOMAIN flight /\ Head(flight) = flight[1]
      BY <1>2
    <2>2. Head(flight) \in Swap
      BY <2>1
    <2>3. Tail(flight) \in Seq(Swap) /\ DOMAIN Tail(flight) = 1 .. n - 1
      BY <1>2
    <2>4. ASSUME NEW i \in 1 .. n - 1
          PROVE  i + 1 \in DOMAIN flight /\ Tail(flight)[i] = flight[i + 1]
      BY <1>1, <1>2, <2>1
    <2> QED
      BY <2>1, <2>2, <2>3, <2>4
  <1>3. ASSUME NEW swap \in Swap
        PROVE  /\ Append(flight, swap) \in Seq(Swap)
               /\ \A i \in DOMAIN Append(flight, swap) :
                     \/ Append(flight, swap)[i] = swap
                     \/ \E j \in DOMAIN flight : Append(flight, swap)[i] = flight[j]
    <2>1. /\ Append(flight, swap) \in Seq(Swap)
          /\ DOMAIN Append(flight, swap) = 1 .. n + 1
          /\ Append(flight, swap)[n + 1] = swap
          /\ \A i \in 1 .. n : Append(flight, swap)[i] = flight[i]
      OBVIOUS
    <2>2. \A i \in 1 .. n + 1 : i = n + 1 \/ i \in 1 .. n
      BY <1>1
    <2> QED
      BY <1>1, <2>1, <2>2
  <1> QED
    BY <1>2, <1>3

-----------------------------------------------------------------------------
(* Types *)

LEMMA InitType == Init => TypeOK
  <1> SUFFICES ASSUME Init PROVE TypeOK
    OBVIOUS
  <1>1. PoolTypeOK
    BY PoolAssumption DEF Init, PoolInit, PoolTypeOK
  <1>2. disk \in State
    BY DEF Init, State, Position, None
  <1>3. wallet \in [ToSet(symbols) -> Nat]
    BY BooksAssumption DEF Init
  <1>4. bals \in Seq(Nat) /\ Len(bals) <= Len(symbols)
    BY SymbolFacts DEF Init
  <1>5. swaps \in 0 .. MaxSwaps
    BY BooksAssumption DEF Init
  <1>6. seen \in [Endpoints -> [ToSet(symbols) -> Nat]] /\ flight \in Seq(Swap)
    BY <1>3 DEF Init
  <1> QED
    BY <1>1, <1>2, <1>3, <1>4, <1>5, <1>6 DEF Init, TypeOK

LEMMA StartType ==
    ASSUME TypeOK, TickStart, mem' \in State
    PROVE  TypeOK'
  <1>1. bals' \in Seq(Nat) /\ Len(bals') <= Len(symbols)
    BY SymbolFacts DEF TickStart
  <1>2. PoolTypeOK'
    BY DEF TypeOK, PoolTypeOK, TickStart
  <1> QED
    BY <1>1, <1>2 DEF TypeOK, TickStart

LEMMA ReadType ==
    ASSUME TypeOK, ReadInv, NEW e \in Endpoints, ReadBalance(e)
    PROVE  /\ TypeOK' /\ Len(bals') = Len(bals) + 1
           /\ \A i \in 1 .. Len(bals) : bals'[i] = bals[i]
           /\ bals'[Len(bals) + 1] = seen[e][symbols[Len(bals) + 1]]
           /\ symbols[Len(bals) + 1] \in ToSet(symbols)
  <1> DEFINE s == symbols[Len(bals) + 1]
             b == seen[e][s]
  <1>1. /\ bals \in Seq(Nat) /\ Len(bals) \in Nat /\ Len(bals) + 1 <= Len(symbols)
    <2>1. bals \in Seq(Nat) /\ Len(bals) < Len(symbols)
      BY DEF TypeOK, ReadInv, ReadBalance
    <2>2. Len(bals) \in Nat /\ Len(symbols) \in Nat
      BY <2>1, SymbolFacts
    <2> QED
      BY <2>1, <2>2
  <1>2. s \in ToSet(symbols)
    BY <1>1, SymbolFacts
  <1>3. b \in Nat
    BY <1>2 DEF TypeOK
  <1>4. bals' = Append(bals, b)
    BY DEF ReadBalance
  <1> HIDE DEF b, s
  <1>5. /\ bals' \in Seq(Nat) /\ Len(bals') = Len(bals) + 1
        /\ \A i \in 1 .. Len(bals) : bals'[i] = bals[i]
        /\ bals'[Len(bals) + 1] = b
    BY <1>1, <1>3, <1>4
  <1>6. PoolTypeOK'
    BY CallType DEF TypeOK, ReadBalance
  <1>7. pc' \in {"down", "read", "sync", "decide", "finish", "sleep"}
    BY DEF ReadBalance
  <1>8. fresh' \in BOOLEAN
    BY DEF ReadBalance
  <1>9. TypeOK'
    BY <1>1, <1>5, <1>6, <1>7, <1>8 DEF TypeOK, ReadBalance, outside
  <1> QED
    BY <1>2, <1>5, <1>9 DEF b, s

LEMMA SyncType ==
    ASSUME TypeOK, ReadInv, Sync
    PROVE  TypeOK'
  <1>1. Len(bals) = Len(symbols)
    BY DEF ReadInv, Sync
  <1>2. \A t \in Tokens : Synced(t) \in Position
    BY <1>1, SyncedFacts
  <1>3. Balance(Quote) \in Nat
    BY <1>1, BalanceFacts, SymbolFacts DEF TypeOK
  <1>4. mem' \in State
    BY <1>2, <1>3 DEF Sync, State
  <1>5. disk' \in State /\ pc' \in {"sleep", "decide"}
    BY <1>4 DEF Sync, TypeOK
  <1>6. bals' \in Seq(Nat) /\ Len(bals') <= Len(symbols)
    BY SymbolFacts DEF Sync
  <1>7. PoolTypeOK'
    BY DEF TypeOK, PoolTypeOK, Sync
  <1>8. excused' \subseteq Tokens
    BY DEF TypeOK, Sync
  <1> QED
    BY <1>4, <1>5, <1>6, <1>7, <1>8 DEF TypeOK, Sync, outside

LEMMA ExecuteType ==
    ASSUME TypeOK, NEW swap \in Offers, NEW out \in BOOLEAN, NEW result,
           Execute(swap, out, result)
    PROVE  TypeOK' /\ mem' \in State /\ disk' \in State
  <1>1. swap \in Swap /\ swap.qty > 0 /\ Affordable(swap)
    BY OfferFacts DEF Execute
  <1>2. ApplyFill(mem, swap) \in State
    BY <1>1, FillFacts DEF TypeOK
  <1>3. disk' \in State
    BY DEF TypeOK, Execute, State
  <1>4. mem' \in State /\ pc' \in {"finish", "down"}
    BY <1>2, <1>3 DEF Execute, TypeOK
  <1>5. swaps' \in 0 .. MaxSwaps
    BY BooksAssumption DEF TypeOK, Execute
  <1>6. excused' \subseteq Tokens
    BY <1>1 DEF TypeOK, Execute, Swap
  <1>7. flight' \in Seq(Swap)
    BY <1>1, QueueFacts DEF Execute, TypeOK
  <1>8. PoolTypeOK'
    BY DEF TypeOK, PoolTypeOK, Execute
  <1> QED
    BY <1>3, <1>4, <1>5, <1>6, <1>7, <1>8 DEF TypeOK, Execute

LEMMA TypeStep == ASSUME TypeOK, ReadInv, [Next]_vars PROVE TypeOK'
  <1>1. CASE Start
    BY <1>1, StartType DEF Start, TypeOK
  <1>2. CASE Wake
    BY <1>2, StartType DEF Wake, TypeOK
  <1>3. CASE \E e \in Endpoints : ReadBalance(e)
    BY <1>3, ReadType
  <1>4. CASE ReadFailed
    <2>1. PoolTypeOK'
      BY <1>4, CallType DEF ReadFailed, TypeOK
    <2>2. bals' \in Seq(Nat) /\ Len(bals') <= Len(symbols)
      BY <1>4, SymbolFacts DEF ReadFailed
    <2> QED
      BY <1>4, <2>1, <2>2 DEF TypeOK, ReadFailed, outside
  <1>5. CASE Sync
    BY <1>5, SyncType
  <1>6. CASE Hold
    BY <1>6 DEF TypeOK, PoolTypeOK, Hold, outside
  <1>7. CASE Finish
    BY <1>7 DEF TypeOK, PoolTypeOK, Finish, outside
  <1>8. CASE \E swap \in Offers, out \in BOOLEAN, result \in {"hash", "nohash", "raise"} :
                Execute(swap, out, result)
    BY <1>8, ExecuteType
  <1>9. CASE Crash
    <2>1. bals' \in Seq(Nat) /\ Len(bals') <= Len(symbols)
      BY <1>9, SymbolFacts DEF Crash
    <2> QED
      BY <1>9, <2>1 DEF TypeOK, PoolTypeOK, Crash, outside
  <1>10. CASE Mine
    <2>1. Head(flight) \in Swap /\ flight' \in Seq(Swap)
      BY <1>10, QueueFacts DEF Mine, TypeOK
    <2>2. wallet' \in [ToSet(symbols) -> Nat]
      BY <1>10, <2>1, MovedFacts DEF Mine
    <2>3. seen' \in [Endpoints -> [ToSet(symbols) -> Nat]]
      BY <1>10, <2>2 DEF Mine, TypeOK
    <2> QED
      BY <1>10, <2>1, <2>2, <2>3 DEF TypeOK, PoolTypeOK, Mine
  <1>11. CASE Revert
    BY <1>11, QueueFacts DEF TypeOK, PoolTypeOK, Revert
  <1>12. CASE CatchUp
    BY <1>12 DEF TypeOK, PoolTypeOK, CatchUp
  <1>13. CASE Pool
    <2>1. PoolTypeOK'
      BY <1>13, PoolStep DEF Pool, TypeOK
    <2> QED
      BY <1>13, <2>1 DEF TypeOK, Pool, outside
  <1>14. CASE UNCHANGED vars
    BY <1>14 DEF TypeOK, PoolTypeOK, vars
  <1> QED
    BY <1>1, <1>2, <1>3, <1>4, <1>5, <1>6, <1>7, <1>8, <1>9, <1>10, <1>11, <1>12,
       <1>13, <1>14 DEF Next, Loop

-----------------------------------------------------------------------------
(* The books at a decision *)

(* A swap in flight while the loop reads is known to be pending, unless it *)
(* is stray: a tick begins with the file's intent, or after a sleep that   *)
(* outlasts the swap, or after a death in the sleep.                       *)
LEMMA FlightStep == ASSUME IInv, [Next]_vars PROVE FlightInv'
  <1> USE DEF IInv
  <1>1. CASE Start
    BY <1>1 DEF Start, TickStart, FlightInv
  <1>2. CASE Wake
    BY <1>2 DEF Wake, TickStart, FlightInv
  <1>3. CASE \E e \in Endpoints : ReadBalance(e)
    BY <1>3 DEF ReadBalance, FlightInv, outside
  <1>4. CASE ReadFailed
    BY <1>4 DEF ReadFailed, FlightInv, outside
  <1>5. CASE Sync
    BY <1>5 DEF Sync, FlightInv, outside
  <1>6. CASE Hold
    BY <1>6 DEF Hold, FlightInv, outside
  <1>7. CASE Finish
    BY <1>7 DEF Finish, FlightInv, outside
  <1>8. ASSUME NEW swap \in Offers, NEW out \in BOOLEAN, NEW result,
               Execute(swap, out, result)
        PROVE  FlightInv'
    <2>1. disk'.pending
      BY <1>8 DEF Execute, TypeOK, State
    <2>2. pc' \in {"finish", "down"}
      BY <1>8 DEF Execute
    <2> QED
      BY <2>1, <2>2 DEF FlightInv
  <1>9. CASE Crash
    BY <1>9 DEF Crash, FlightInv, outside
  <1>10. CASE Mine \/ Revert
    BY <1>10 DEF Mine, Revert, FlightInv
  <1>11. CASE CatchUp \/ Pool
    BY <1>11 DEF CatchUp, Pool, FlightInv, outside
  <1>12. CASE UNCHANGED vars
    BY <1>12 DEF FlightInv, vars
  <1> QED
    BY <1>1, <1>2, <1>3, <1>4, <1>5, <1>6, <1>7, <1>8, <1>9, <1>10, <1>11, <1>12
       DEF Next, Loop

LEMMA ReadStep == ASSUME IInv, [Next]_vars PROVE ReadInv'
  <1> USE DEF IInv
  <1>1. ASSUME TickStart PROVE ReadInv'
    <2>1. Len(bals') = 0 /\ DOMAIN bals' = {} /\ pc' = "read"
      BY <1>1 DEF TickStart
    <2> QED
      BY <2>1, SymbolFacts DEF ReadInv
  <1>2. ASSUME NEW e \in Endpoints, ReadBalance(e) PROVE ReadInv'
    <2> DEFINE n == Len(bals)
    <2>1. /\ Len(bals') = n + 1 /\ bals' \in Seq(Nat)
          /\ \A i \in 1 .. n : bals'[i] = bals[i]
          /\ bals'[n + 1] = seen[e][symbols[n + 1]]
      BY <1>2, ReadType DEF TypeOK
    <2>2. bals \in Seq(Nat) /\ n \in Nat /\ n < Len(symbols)
      <3>1. bals \in Seq(Nat) /\ Len(bals) < Len(symbols)
        BY <1>2 DEF TypeOK, ReadInv, ReadBalance
      <3> QED
        BY <3>1
    <2>3. /\ pc = "read" /\ pc' = IF n + 1 = Len(symbols) THEN "sync" ELSE "read"
          /\ wallet' = wallet /\ mem' = mem /\ fresh' = (fresh /\ seen[e] = wallet)
          /\ stray' = stray
      BY <1>2, <2>1 DEF ReadBalance, outside
    <2> HIDE DEF n
    <2>4. pc' = "read" => Len(bals') < Len(symbols)
      <3>1. Len(symbols) \in Nat
        BY SymbolFacts
      <3>2. pc' = "read" => n + 1 # Len(symbols)
        BY <2>3
      <3>3. n + 1 # Len(symbols) => n + 1 < Len(symbols)
        BY <2>2, <3>1
      <3> QED
        BY <2>1, <3>2, <3>3
    <2>5. pc' = "sync" => Len(bals') = Len(symbols)
      BY <2>1, <2>3
    <2>6. ASSUME fresh', ~stray', ~mem'.pending, NEW i \in DOMAIN bals'
          PROVE  bals'[i] = wallet'[symbols[i]]
      <3>1. i \in 1 .. n + 1
        BY <2>1, <2>6
      <3>2. CASE i \in 1 .. n
        <4>1. i \in DOMAIN bals
          BY <2>2, <3>2 DEF n
        <4> QED
          BY <2>1, <2>3, <2>6, <3>2, <4>1 DEF ReadInv
      <3>3. CASE i = n + 1
        BY <2>1, <2>3, <2>6, <3>3
      <3> QED
        BY <2>2, <3>1, <3>2, <3>3
    <2> QED
      BY <2>4, <2>5, <2>6 DEF ReadInv
  <1>3. ASSUME Mine PROVE ReadInv'
    <2>1. flight # <<>>
      BY <1>3 DEF Mine
    <2> QED
      BY <1>3, <2>1 DEF Mine, ReadInv, FlightInv
  <1>4. CASE ReadFailed \/ Sync \/ Hold \/ Finish \/ Crash
    BY <1>4 DEF ReadFailed, Sync, Hold, Finish, Crash, ReadInv
  <1>5. CASE Revert \/ CatchUp \/ Pool \/ UNCHANGED vars
    BY <1>5 DEF Revert, CatchUp, Pool, ReadInv, outside, vars
  <1>6. ASSUME NEW swap, NEW out, NEW result, Execute(swap, out, result) PROVE ReadInv'
    BY <1>6 DEF Execute, ReadInv
  <1> QED
    BY <1>1, <1>2, <1>3, <1>4, <1>5, <1>6 DEF Next, Loop, Start, Wake

(* The sync copies what was read; a decision follows it in the same tick,  *)
(* at the same prices and with no swap in flight.                          *)
LEMMA BooksStep == ASSUME IInv, [Next]_vars PROVE BooksInv'
  <1> USE DEF IInv
  <1>1. ASSUME Sync PROVE BooksInv'
    <2> SUFFICES ASSUME pc' = "decide", fresh', ~stray', NEW s \in ToSet(symbols)
                 PROVE  Booked(s)' = Held(s)'
      BY DEF BooksInv
    <2>1. /\ pc = "sync" /\ fresh /\ ~stray /\ ~mem.pending
          /\ wallet' = wallet /\ price' = price
          /\ Len(bals) = Len(symbols) /\ bals \in Seq(Nat)
      BY <1>1 DEF Sync, outside, ReadInv, TypeOK
    <2>2. \A i \in DOMAIN bals : bals[i] = wallet[symbols[i]]
      BY <2>1 DEF ReadInv
    <2>3. \A r \in ToSet(symbols) : Balance(r) = wallet[r]
      BY <2>1, <2>2, BalanceFacts
    <2>4. /\ mem'.stable = Balance(Quote)
          /\ \A t \in Tokens : mem'.positions[t] = Synced(t)
      BY <1>1 DEF Sync
    <2>5. s \in Tokens \/ (s = Quote /\ s \notin Tokens)
      BY SymbolFacts
    <2>6. CASE s = Quote /\ s \notin Tokens
      BY <2>1, <2>3, <2>4, <2>6 DEF Booked, Held
    <2>7. CASE s \in Tokens
      <3>1. s # Quote
        BY <2>7, SymbolFacts
      <3>2. Synced(s).qty = IF Balance(s) * price[s] < DUST_USD THEN 0 ELSE Balance(s)
        BY <2>1, <2>7, SyncedFacts
      <3> QED
        BY <2>1, <2>3, <2>4, <2>7, <3>1, <3>2 DEF Booked, Held
    <2> QED
      BY <2>5, <2>6, <2>7
  <1>2. CASE Mine
    BY <1>2 DEF Mine, FlightInv, BooksInv
  <1>3. ASSUME NEW e, ReadBalance(e) PROVE BooksInv'
    BY <1>3 DEF ReadBalance, BooksInv
  <1>4. CASE Start \/ Wake \/ ReadFailed \/ Hold \/ Finish \/ Crash
    BY <1>4 DEF Start, Wake, TickStart, ReadFailed, Hold, Finish, Crash, BooksInv
  <1>5. CASE Revert \/ CatchUp \/ Pool \/ UNCHANGED vars
    BY <1>5 DEF Revert, CatchUp, Pool, BooksInv, Booked, Held, outside, vars
  <1>6. ASSUME NEW swap, NEW out, NEW result, Execute(swap, out, result) PROVE BooksInv'
    BY <1>6 DEF Execute, BooksInv
  <1> QED
    BY <1>1, <1>2, <1>3, <1>4, <1>5, <1>6 DEF Next, Loop

-----------------------------------------------------------------------------
(* The entries *)

LEMMA EntryFrame ==
    ASSUME EntryInv, excused \subseteq excused',
           mem' = mem \/ mem' = disk, disk' = mem \/ disk' = disk,
           wallet' = wallet,
           \A e \in Endpoints : seen'[e] = seen[e] \/ seen'[e] = wallet,
           \A i \in DOMAIN flight' : \E j \in DOMAIN flight : flight'[i] = flight[j],
           bals' = bals \/ DOMAIN bals' = {}
    PROVE  EntryInv'
  <1> SUFFICES ASSUME NEW t \in Tokens, t \notin excused'
               PROVE  /\ mem'.positions[t].entry # "adopted"
                      /\ disk'.positions[t].entry # "adopted"
                      /\ mem'.positions[t] = None <=> disk'.positions[t] = None
                      /\ mem'.positions[t] = None => Absent(t)'
    BY DEF EntryInv
  <1>1. /\ mem.positions[t].entry # "adopted"
        /\ disk.positions[t].entry # "adopted"
        /\ mem.positions[t] = None <=> disk.positions[t] = None
        /\ mem.positions[t] = None => Absent(t)
    BY DEF EntryInv
  <1>2. Absent(t) => Absent(t)'
    BY DEF Absent
  <1> QED
    BY <1>1, <1>2

LEMMA EntrySync == ASSUME IInv, Sync PROVE EntryInv'
  <1> USE DEF IInv
  <1> SUFFICES ASSUME NEW t \in Tokens, t \notin excused'
               PROVE  /\ mem'.positions[t].entry # "adopted"
                      /\ disk'.positions[t].entry # "adopted"
                      /\ mem'.positions[t] = None <=> disk'.positions[t] = None
                      /\ mem'.positions[t] = None => Absent(t)'
    BY DEF EntryInv
  <1>1. /\ Len(bals) = Len(symbols) /\ bals \in Seq(Nat)
        /\ t \notin excused /\ Synced(t) # None
        /\ mem'.positions[t] = Synced(t)
        /\ disk' = mem' \/ disk' = disk
    BY DEF Sync, ReadInv, TypeOK
  <1>2. /\ mem.positions[t].entry # "adopted"
        /\ disk.positions[t].entry # "adopted"
        /\ mem.positions[t] = None <=> disk.positions[t] = None
        /\ mem.positions[t] = None => Absent(t)
    BY <1>1 DEF EntryInv
  <1>3. mem.positions[t] # None
    <2> SUFFICES ASSUME mem.positions[t] = None PROVE FALSE
      OBVIOUS
    <2>1. PICK i \in DOMAIN bals : symbols[i] = t /\ Balance(t) = bals[i]
      BY <1>1, BalanceFacts, SymbolFacts
    <2>2. Balance(t) = 0
      BY <1>2, <2>1 DEF Absent
    <2> QED
      BY <1>1, <2>2, SyncedFacts
  <1>4. Synced(t).entry = mem.positions[t].entry
    BY <1>1, <1>3, SyncedFacts
  <1> QED
    BY <1>1, <1>2, <1>3, <1>4

LEMMA EntryExecute ==
    ASSUME IInv, NEW swap \in Offers, NEW out \in BOOLEAN, NEW result,
           Execute(swap, out, result)
    PROVE  EntryInv'
  <1> USE DEF IInv
  <1> SUFFICES ASSUME NEW t \in Tokens, t \notin excused'
               PROVE  /\ mem'.positions[t].entry # "adopted"
                      /\ disk'.positions[t].entry # "adopted"
                      /\ mem'.positions[t] = None <=> disk'.positions[t] = None
                      /\ mem'.positions[t] = None => Absent(t)'
    BY DEF EntryInv
  <1> DEFINE old == mem.positions[t]
  <1>1. /\ swap \in Swap /\ swap.qty > 0 /\ swap.token \in Tokens /\ Affordable(swap)
        /\ mem \in State
    BY OfferFacts DEF Execute, TypeOK
  <1>2. /\ t \notin excused
        /\ t = swap.token /\ out =>
              /\ swap.side = "buy" => old # None
              /\ swap.side = "sell" => old.qty # swap.qty
    BY DEF Execute
  <1>3. /\ old.entry # "adopted" /\ (old = None => Absent(t))
    BY <1>2 DEF EntryInv
  <1>4. disk'.positions = mem.positions
    BY DEF Execute, TypeOK, State
  <1>5. /\ wallet' = wallet /\ seen' = seen /\ bals' = bals
        /\ flight' = (IF out THEN Append(flight, swap) ELSE flight)
    BY DEF Execute
  <1>6. swap.side \in {"buy", "sell"}
    BY <1>1 DEF Swap
  <1>7. swap.side = "sell" => mem.positions[swap.token] # None
    BY <1>1, FillFacts
  <1>8. old = None => Absent(t)'
    <2> SUFFICES ASSUME old = None PROVE Absent(t)'
      OBVIOUS
    <2>1. ~(t = swap.token /\ out)
      BY <1>2, <1>6, <1>7
    <2>2. flight \in Seq(Swap)
      BY DEF TypeOK
    <2>3. \A i \in DOMAIN flight' : flight'[i].token = t => flight'[i].side = "sell"
      BY <1>1, <1>3, <1>5, <2>1, <2>2, QueueFacts DEF Absent
    <2> QED
      BY <1>3, <1>5, <2>3 DEF Absent
  <1>9. CASE mem'.positions = mem.positions
    BY <1>3, <1>4, <1>8, <1>9
  <1>10. CASE result = "hash" /\ mem' = ApplyFill(mem, swap)
    <2>1. CASE t # swap.token
      <3>1. mem'.positions[t] = mem.positions[t]
        BY <1>1, <1>10, <2>1, FillFacts
      <3> QED
        BY <1>3, <1>4, <1>8, <3>1
    <2>2. CASE t = swap.token
      <3>1. out
        BY <1>10 DEF Execute
      <3>2. old # None
        BY <1>2, <1>6, <1>7, <2>2, <3>1
      <3>3. swap.side = "buy" \/ old.qty # swap.qty
        BY <1>2, <1>6, <2>2, <3>1
      <3>4. mem'.positions[t] # None /\ mem'.positions[t].entry = old.entry
        BY <1>1, <1>10, <2>2, <3>2, <3>3, FillFacts
      <3> QED
        BY <1>3, <1>4, <3>2, <3>4
    <2> QED
      BY <2>1, <2>2
  <1> QED
    BY <1>4, <1>9, <1>10 DEF Execute

LEMMA EntryStep == ASSUME IInv, [Next]_vars PROVE EntryInv'
  <1> USE DEF IInv
  <1>1. CASE Start \/ Wake
    <2>1. DOMAIN bals' = {}
      BY <1>1 DEF Start, Wake, TickStart
    <2> QED
      BY <1>1, <2>1, EntryFrame DEF Start, Wake, TickStart
  <1>2. ASSUME NEW e \in Endpoints, ReadBalance(e) PROVE EntryInv'
    <2> SUFFICES ASSUME NEW t \in Tokens, Absent(t) PROVE Absent(t)'
      BY <1>2 DEF ReadBalance, outside, EntryInv
    <2> DEFINE n == Len(bals)
    <2>1. /\ Len(bals') = n + 1 /\ bals' \in Seq(Nat)
          /\ \A i \in 1 .. n : bals'[i] = bals[i]
          /\ bals'[n + 1] = seen[e][symbols[n + 1]]
      BY <1>2, ReadType DEF TypeOK
    <2>2. bals \in Seq(Nat) /\ n \in Nat
      BY DEF TypeOK
    <2>3. \A i \in DOMAIN bals' : symbols[i] = t => bals'[i] = 0
      <3> SUFFICES ASSUME NEW i \in 1 .. n + 1, symbols[i] = t PROVE bals'[i] = 0
        BY <2>1
      <3>1. CASE i \in 1 .. n
        BY <2>1, <2>2, <3>1 DEF Absent
      <3>2. CASE i = n + 1
        BY <2>1, <3>2 DEF Absent
      <3> QED
        BY <2>2, <3>1, <3>2
    <2> QED
      BY <1>2, <2>3 DEF ReadBalance, outside, Absent
  <1>3. CASE ReadFailed \/ Crash
    <2>1. DOMAIN bals' = {}
      BY <1>3 DEF ReadFailed, Crash
    <2> QED
      BY <1>3, <2>1, EntryFrame DEF ReadFailed, Crash, outside
  <1>4. CASE Sync
    BY <1>4, EntrySync
  <1>5. CASE Hold \/ Pool \/ UNCHANGED vars
    BY <1>5, EntryFrame DEF Hold, Pool, outside, vars
  <1>6. CASE Finish
    <2> SUFFICES ASSUME NEW t \in Tokens, t \notin excused'
                 PROVE  /\ mem.positions[t].entry # "adopted"
                        /\ mem.positions[t] = None => Absent(t)
      BY <1>6 DEF Finish, outside, EntryInv, Absent
    <2>1. t \notin excused \/ mem.positions[t].entry = "filled"
      BY <1>6 DEF Finish
    <2> QED
      BY <2>1 DEF EntryInv, None
  <1>7. ASSUME NEW swap \in Offers, NEW out \in BOOLEAN, NEW result,
               Execute(swap, out, result)
        PROVE  EntryInv'
    BY <1>7, EntryExecute
  <1>8. CASE Mine
    <2> DEFINE swap == Head(flight)
    <2>1. flight \in Seq(Swap) /\ flight # <<>> /\ flight' = Tail(flight)
      BY <1>8 DEF Mine, TypeOK
    <2>2. /\ swap \in Swap /\ \E j \in DOMAIN flight : swap = flight[j]
          /\ \A i \in DOMAIN flight' : \E j \in DOMAIN flight : flight'[i] = flight[j]
      BY <2>1, QueueFacts
    <2>3. Moved(swap)[Sold(swap)] >= 0 /\ wallet' = Moved(swap)
      BY <1>8 DEF Mine
    <2> HIDE DEF swap
    <2> SUFFICES ASSUME NEW t \in Tokens, Absent(t) PROVE Absent(t)'
      BY <1>8 DEF Mine, EntryInv
    <2>4. wallet[t] = 0 /\ (swap.token = t => swap.side = "sell")
      BY <2>2 DEF Absent
    <2>5. wallet'[t] = 0
      BY <2>2, <2>3, <2>4, MovedFacts
    <2>6. \A e \in Endpoints : seen'[e][t] = 0
      BY <1>8, <2>5 DEF Mine, Absent
    <2>7. \A i \in DOMAIN flight' : flight'[i].token = t => flight'[i].side = "sell"
      BY <2>2 DEF Absent
    <2> QED
      BY <1>8, <2>5, <2>6, <2>7 DEF Mine, Absent
  <1>9. CASE Revert
    <2>1. \A i \in DOMAIN flight' : \E j \in DOMAIN flight : flight'[i] = flight[j]
      BY <1>9, QueueFacts DEF Revert, TypeOK
    <2> QED
      BY <1>9, <2>1, EntryFrame DEF Revert
  <1>10. CASE CatchUp
    <2>1. \A e \in Endpoints : seen'[e] = seen[e] \/ seen'[e] = wallet
      BY <1>10 DEF CatchUp, TypeOK
    <2> QED
      BY <1>10, <2>1, EntryFrame DEF CatchUp
  <1> QED
    BY <1>1, <1>2, <1>3, <1>4, <1>5, <1>6, <1>7, <1>8, <1>9, <1>10 DEF Next, Loop

-----------------------------------------------------------------------------
(* The theorems *)

LEMMA InitInv == Init => IInv
  <1> SUFFICES ASSUME Init PROVE IInv
    OBVIOUS
  <1>1. TypeOK
    BY InitType
  <1>2. FlightInv /\ ReadInv /\ BooksInv
    BY DEF Init, FlightInv, ReadInv, BooksInv
  <1>3. EntryInv
    <2> SUFFICES ASSUME NEW t \in Tokens
                 PROVE  /\ mem.positions[t] = None /\ disk.positions[t] = None
                        /\ Absent(t)
      BY DEF EntryInv, None
    <2>1. t \in ToSet(symbols) /\ t # Quote
      BY SymbolFacts
    <2> QED
      BY <2>1 DEF Init, Absent
  <1> QED
    BY <1>1, <1>2, <1>3 DEF IInv

(* The variables keep their types, and the inductive invariant holds, for  *)
(* every universe, price range, pool and number of swaps.                  *)
THEOREM BooksInvariant == Spec => []IInv
  <1>1. ASSUME IInv, [Next]_vars PROVE IInv'
    <2>1. TypeOK'
      BY <1>1, TypeStep DEF IInv
    <2> QED
      BY <1>1, <2>1, FlightStep, ReadStep, BooksStep, EntryStep DEF IInv
  <1> QED
    BY <1>1, InitInv, PTL DEF Spec

(* At every decision made on balances that were read at the head, but for  *)
(* the tick after a death in the sleep over a swap in flight, the          *)
(* reconcile check finds no divergence between books and wallet.  Nothing  *)
(* is assumed about when the process dies.                                 *)
THEOREM AnchorTheorem == Spec => []BooksAnchored
  <1>1. ASSUME IInv PROVE BooksAnchored
    <2> SUFFICES ASSUME pc = "decide", fresh, ~stray
                 PROVE  Divergences([s \in ToSet(symbols) |-> Booked(s)],
                                    [s \in ToSet(symbols) |-> Held(s)], 1) = {}
      BY DEF BooksAnchored, Anchored
    <2> DEFINE f == [s \in ToSet(symbols) |-> Booked(s)]
    <2>1. \A s \in ToSet(symbols) : Booked(s) = Held(s) /\ Booked(s) \in Nat
      <3> SUFFICES ASSUME NEW s \in ToSet(symbols)
                   PROVE  Booked(s) = Held(s) /\ Booked(s) \in Nat
        OBVIOUS
      <3>1. s = Quote \/ s \in Tokens
        BY SymbolFacts
      <3> QED
        BY <1>1, <3>1 DEF IInv, BooksInv, TypeOK, State, Position, Booked
    <2>2. f = [s \in ToSet(symbols) |-> Held(s)]
      BY <2>1
    <2>3. \A s \in ToSet(symbols) : f[s] \in Nat
      BY <2>1
    <2>4. DOMAIN f = ToSet(symbols)
      OBVIOUS
    <2> HIDE DEF f
    <2>5. \A s \in DOMAIN f :
             LET base == Larger(f[s], f[s])
             IN  ~(100 * (base - f[s] + base - f[s]) > 1 * base)
      BY <2>3, <2>4 DEF Larger
    <2>6. Divergences(f, f, 1) = {}
      BY <2>5 DEF Divergences
    <2> QED
      BY <2>2, <2>6 DEF f
  <1> QED
    BY <1>1, BooksInvariant, PTL

(* The entry a stop is measured from is lost only for a reason. *)
THEOREM EntryTheorem == Spec => []EntryKept
  <1>1. ASSUME IInv PROVE EntryKept
    BY <1>1 DEF IInv, EntryInv, EntryKept
  <1> QED
    BY <1>1, BooksInvariant, PTL

-----------------------------------------------------------------------------
(* The nonce manager.  Every report and every poll ends in sync(), so that *)
(* one lemma about SyncNonce carries most of the induction.                *)

(* What sync() does to the fields: it forgets no gap, moves the next nonce *)
(* up to the count and never down, and opens no reservation.               *)
LEMMA NonceSyncedFacts ==
    ASSUME NEW m \in Manager, NEW x \in Nat
    PROVE  LET s == NonceSynced(m, x) IN
             /\ s \in Manager
             /\ s.next \in Nat /\ x <= s.next
             /\ m.next # Unset => m.next <= s.next
             /\ m.next # Unset => s.next = m.next \/ s.next = x
             /\ m.next = Unset => s.next = x /\ s.reserved = m.reserved
                                  /\ s.gapped = m.gapped
             /\ s.reserved \subseteq m.reserved
             /\ s.failed = m.failed
             /\ m.gapped => s.gapped
             /\ s.gapped => m.gapped \/ m.reserved # {}
  <1>1. CASE m.next = Unset
    BY <1>1 DEF NonceSynced, Manager, Unset
  <1>2. CASE m.next # Unset
    <2> DEFINE news == m.next .. x - 1
               next == IF x > m.next THEN x ELSE m.next
               left == m.reserved \ news
               gap == m.gapped \/ (/\ \E r \in left : r < next
                                   /\ \A r \in left : x <= r)
    <2>1. NonceSynced(m, x) = [m EXCEPT !.next = next, !.confirmed = @ \cup news,
                                   !.reserved = left, !.gapped = gap]
      BY <1>2 DEF NonceSynced
    <2>2. m.next \in Nat
      BY <1>2 DEF Manager, Unset
    <2>3. /\ next \in Nat /\ x <= next /\ m.next <= next
          /\ next = m.next \/ next = x
          /\ news \subseteq Nat /\ left \subseteq m.reserved
      BY <2>2
    <2>4. gap \in BOOLEAN /\ (m.gapped => gap) /\ (gap => m.gapped \/ m.reserved # {})
      BY <2>3 DEF Manager
    <2> HIDE DEF next, left, news, gap
    <2> QED
      BY <1>2, <2>1, <2>2, <2>3, <2>4 DEF Manager
  <1> QED
    BY <1>1, <1>2

LEMMA CountsNat == ASSUME NEW x \in Counts PROVE x \in Nat
  BY NonceAssumption DEF Counts

(* The fields when sync() is called by a poll or a report. *)
Before(m) ==
    /\ m \in Manager
    /\ m.next = mgr.next
    /\ m.reserved \subseteq mgr.reserved
    /\ mgr.gapped => m.gapped
    /\ m.failed # {} => m.gapped
    /\ m.gapped => m.failed # {} \/ early \/ m.reserved # {}
    /\ m.next = Unset => ~m.gapped

LEMMA SyncInv ==
    ASSUME NonceInv, NEW m, Before(m), SyncNonce(m)
    PROVE  NonceInv' /\ handed' = handed /\ (mgr.gapped => mgr'.gapped)
  <1> USE DEF Before
  <1> DEFINE Read(x) == mgr' = NonceSynced(m, x) /\ best' = IF x > best THEN x ELSE best
             Kept == mgr' = m /\ best' = best
  <1>1. /\ AllDown \/ \E e \in Endpoints : Answered(e)
        /\ (\E x \in Counts : Read(x)) \/ Kept
        /\ outcome' \in {"answered", "down"}
        /\ early' = (early \/ m.reserved # {})
        /\ up' = up /\ sent' = sent /\ handed' = handed
    BY DEF SyncNonce
  <1>2. PoolTypeOK'
    BY <1>1, CallType DEF NonceInv, NonceTypeOK
  <1>3. best \in Nat /\ early \in BOOLEAN /\ mgr \in Manager
    BY DEF NonceInv, NonceTypeOK
  <1>4. \A x \in Counts : Read(x) =>
          /\ mgr' \in Manager /\ best' \in Nat /\ best <= best'
          /\ mgr'.next \in Nat /\ best' <= mgr'.next
          /\ m.next # Unset => m.next <= mgr'.next
          /\ m.next # Unset => mgr'.next = m.next \/ mgr'.next <= best'
          /\ mgr'.failed = m.failed
          /\ m.gapped => mgr'.gapped
          /\ mgr'.gapped => m.gapped \/ m.reserved # {}
          /\ m.next = Unset => mgr'.gapped = m.gapped
    <2> SUFFICES ASSUME NEW x \in Counts, Read(x)
                 PROVE  /\ mgr' \in Manager /\ best' \in Nat /\ best <= best'
                        /\ mgr'.next \in Nat /\ best' <= mgr'.next
                        /\ m.next # Unset => m.next <= mgr'.next
                        /\ m.next # Unset => mgr'.next = m.next \/ mgr'.next <= best'
                        /\ mgr'.failed = m.failed
                        /\ m.gapped => mgr'.gapped
                        /\ mgr'.gapped => m.gapped \/ m.reserved # {}
                        /\ m.next = Unset => mgr'.gapped = m.gapped
      OBVIOUS
    <2> DEFINE s == NonceSynced(m, x)
    <2>1. x \in Nat
      BY CountsNat
    <2>2. /\ s \in Manager
          /\ s.next \in Nat /\ x <= s.next
          /\ m.next # Unset => m.next <= s.next
          /\ m.next # Unset => s.next = m.next \/ s.next = x
          /\ m.next = Unset => s.gapped = m.gapped
          /\ s.failed = m.failed
          /\ m.gapped => s.gapped
          /\ s.gapped => m.gapped \/ m.reserved # {}
      BY <2>1, NonceSyncedFacts
    <2>3. mgr' = s /\ best' = IF x > best THEN x ELSE best
      OBVIOUS
    <2>4. best <= s.next
      BY <1>3, <2>1, <2>2 DEF NonceInv, Known, Manager, Unset
    <2> HIDE DEF s, Read
    <2> QED
      BY <1>3, <2>1, <2>2, <2>3, <2>4
  <1>5. Kept =>
          /\ mgr' \in Manager /\ best' \in Nat /\ best <= best'
          /\ mgr'.next = m.next /\ mgr'.failed = m.failed
          /\ mgr'.gapped = m.gapped
    BY <1>3
  <1>6. /\ mgr' \in Manager /\ best' \in Nat /\ best <= best'
        /\ mgr'.gapped => m.gapped \/ m.reserved # {}
        /\ mgr'.failed = m.failed /\ (m.gapped => mgr'.gapped)
    BY <1>1, <1>4, <1>5
  <1>7. Known'
    <2>1. mgr'.next # Unset => best' <= mgr'.next
      BY <1>1, <1>4, <1>5, <1>6 DEF NonceInv, Known
    <2>2. mgr'.next = Unset => Kept /\ m.next = Unset
      BY <1>1, <1>4, <1>5 DEF Unset
    <2>3. mgr'.next = Unset =>
            handed' = <<>> /\ mgr'.reserved = {} /\ ~mgr'.gapped /\ best' = 0
      BY <1>1, <2>2 DEF NonceInv, Known
    <2> QED
      BY <2>1, <2>3 DEF Known
  <1>8. m.next # Unset => m.next <= mgr'.next /\ mgr'.next \in Nat
                          /\ (mgr'.next = m.next \/ mgr'.next <= best')
    <2>1. m.next # Unset => m.next \in Nat
      BY DEF Manager
    <2> QED
      BY <1>1, <1>4, <1>5, <2>1
  <1>9. handed # <<>> => m.next # Unset
    BY DEF NonceInv, Known
  <1>10. handed \in Seq(Nat) /\ (m.next # Unset => m.next \in Nat)
    BY DEF NonceInv, NonceTypeOK, Manager
  <1>11. Ordered'
    <2>1. handed # <<>> => \A i \in 1 .. Len(handed) : handed[i] < mgr'.next
      <3>1. \A i \in 1 .. Len(handed) : handed[i] \in Nat /\ handed[i] < m.next
        BY <1>10 DEF NonceInv, Ordered
      <3> QED
        BY <1>8, <1>9, <1>10, <3>1
    <2>2. handed = <<>> => \A i \in 1 .. Len(handed) : handed[i] < mgr'.next
      BY <1>10
    <2> QED
      BY <1>1, <2>1, <2>2 DEF NonceInv, Ordered
  <1>12. NoHole'
    <2> SUFFICES ASSUME handed # <<>>, NEW n \in handed[1] .. mgr'.next - 1
                 PROVE  n \in Handed \/ n < best'
      BY <1>1 DEF NoHole, Handed
    <2>1. handed[1] \in Nat
      BY <1>10
    <2>2. CASE n \in handed[1] .. m.next - 1
      BY <1>3, <1>6, <2>1, <2>2 DEF NonceInv, NoHole
    <2>3. CASE n \notin handed[1] .. m.next - 1
      BY <1>3, <1>6, <1>8, <1>9, <1>10, <2>1, <2>3
    <2> QED
      BY <2>2, <2>3
  <1>13. Closed' /\ GapIsReal'
    BY <1>1, <1>6 DEF Closed, GapIsReal
  <1>14. NonceTypeOK'
    BY <1>1, <1>2, <1>3, <1>6 DEF NonceInv, NonceTypeOK
  <1> QED
    BY <1>1, <1>6, <1>7, <1>11, <1>12, <1>13, <1>14 DEF NonceInv

LEMMA TakenFacts ==
    ASSUME NEW m \in Manager, NEW n \in Nat
    PROVE  LET t == [m EXCEPT !.next = n + 1, !.reserved = @ \cup {n}] IN
             t \in Manager /\ t.next = n + 1 /\ t.gapped = m.gapped /\ t.failed = m.failed
  <1> DEFINE next == n + 1
             open == m.reserved \cup {n}
  <1>1. next \in Nat
    OBVIOUS
  <1>2. open \in SUBSET Nat
    BY DEF Manager
  <1> HIDE DEF next, open
  <1>3. LET t == [m EXCEPT !.next = next, !.reserved = open] IN
          t \in Manager /\ t.next = next /\ t.gapped = m.gapped /\ t.failed = m.failed
    BY <1>1, <1>2 DEF Manager
  <1> QED
    BY <1>3 DEF next, open

(* Handing out nonce n, which is the next one. *)
LEMMA TakeInv ==
    ASSUME NonceInv, NEW n \in Nat, ~mgr.gapped,
           mgr.next # Unset => n = mgr.next,
           mgr' = [mgr EXCEPT !.next = n + 1, !.reserved = @ \cup {n}],
           handed' = Append(handed, n),
           best' \in Nat, best' <= n, best <= best',
           early' = early, sent' = sent, PoolTypeOK',
           outcome' \in {"none", "answered", "down"}
    PROVE  NonceInv' /\ Allocator!Hand
  <1>1. mgr \in Manager /\ handed \in Seq(Nat) /\ best \in Nat
    BY DEF NonceInv, NonceTypeOK
  <1>2. /\ mgr' \in Manager /\ mgr'.next = n + 1 /\ mgr'.gapped = mgr.gapped
        /\ mgr'.failed = mgr.failed
    BY <1>1, TakenFacts
  <1>3. /\ handed' \in Seq(Nat) /\ Len(handed') = Len(handed) + 1
        /\ handed'[Len(handed')] = n
        /\ \A i \in 1 .. Len(handed) : handed'[i] = handed[i] /\ handed[i] \in Nat
    BY <1>1
  <1>4. \A i \in 1 .. Len(handed) : handed[i] < n
    <2>1. mgr.next # Unset \/ handed = <<>>
      BY DEF NonceInv, Known
    <2> QED
      BY <1>1, <2>1 DEF NonceInv, Ordered
  <1>5. NonceTypeOK'
    BY <1>2, <1>3 DEF NonceInv, NonceTypeOK
  <1>6. Known' /\ Closed' /\ GapIsReal'
    BY <1>1, <1>2 DEF NonceInv, Known, Closed, GapIsReal, Unset
  <1>7. Ordered'
    <2>1. \A i \in 1 .. Len(handed') : handed'[i] < n + 1
      BY <1>1, <1>3, <1>4
    <2>2. \A i, j \in 1 .. Len(handed') : i < j => handed'[i] < handed'[j]
      <3> SUFFICES ASSUME NEW i \in 1 .. Len(handed'), NEW j \in 1 .. Len(handed'), i < j
                   PROVE  handed'[i] < handed'[j]
        OBVIOUS
      <3>1. Len(handed) \in Nat /\ i \in 1 .. Len(handed)
        BY <1>1, <1>3
      <3>2. CASE j = Len(handed')
        BY <1>3, <1>4, <3>1, <3>2
      <3>3. CASE j # Len(handed')
        <4>1. j \in 1 .. Len(handed)
          BY <1>3, <3>1, <3>3
        <4> QED
          BY <1>3, <3>1, <4>1 DEF NonceInv, Ordered
      <3> QED
        BY <3>2, <3>3
    <2> QED
      BY <1>2, <2>1, <2>2 DEF Ordered
  <1>8. Handed' = Handed \cup {n}
    <2>1. Len(handed) \in Nat
      BY <1>1
    <2> QED
      BY <1>3, <2>1 DEF Handed
  <1>9. NoHole'
    <2> SUFFICES ASSUME NEW k \in handed'[1] .. n
                 PROVE  k \in Handed' \/ k < best'
      BY <1>2 DEF NoHole
    <2>1. CASE handed = <<>>
      <3>1. handed'[1] = n
        BY <1>3, <2>1
      <3> QED
        BY <1>8, <3>1
    <2>2. CASE handed # <<>>
      <3>1. mgr.next = n /\ handed'[1] = handed[1] /\ handed[1] \in Nat
        <4>1. 1 \in 1 .. Len(handed)
          BY <1>1, <2>2
        <4> QED
          BY <1>3, <2>2, <4>1 DEF NonceInv, Known
      <3>2. CASE k = n
        BY <1>8, <3>2
      <3>3. CASE k # n
        <4>1. k \in handed[1] .. mgr.next - 1
          BY <3>1, <3>3
        <4>2. k \in Handed \/ k < best
          BY <2>2, <4>1 DEF NonceInv, NoHole
        <4> QED
          BY <1>1, <1>8, <3>1, <4>1, <4>2
      <3> QED
        BY <3>2, <3>3
    <2> QED
      BY <2>1, <2>2
  <1>10. Allocator!Hand
    BY <1>2, <1>3, <1>4 DEF Allocator!Hand, Allocator!Newest
  <1> QED
    BY <1>5, <1>6, <1>7, <1>9, <1>10 DEF NonceInv

-----------------------------------------------------------------------------

LEMMA NonceInitInv == NonceInit => NonceInv /\ Allocator!Init
  <1> SUFFICES ASSUME NonceInit PROVE NonceInv /\ Allocator!Init
    OBVIOUS
  <1>1. PoolTypeOK
    BY PoolAssumption DEF NonceInit, PoolInit, PoolTypeOK
  <1>2. sent \subseteq Nat
    BY NonceAssumption DEF NonceInit
  <1>3. mgr \in Manager /\ handed \in Seq(Nat)
    BY DEF NonceInit, Manager
  <1>4. NonceTypeOK
    BY <1>1, <1>2, <1>3 DEF NonceInit, NonceTypeOK
  <1>5. Known /\ Ordered /\ Closed /\ NoHole /\ GapIsReal
    BY DEF NonceInit, Known, Ordered, Closed, NoHole, GapIsReal, Unset
  <1> QED
    BY <1>4, <1>5 DEF NonceInit, NonceInv, Allocator!Init

(* One step: the invariant, the allocator's step, and the two action       *)
(* properties.                                                             *)
NonceHeld ==
    /\ NonceInv'
    /\ [Allocator!Next]_<<handed, mgr.gapped>>
    /\ handed' # handed => best' <= handed'[Len(handed')]
    /\ mgr.failed # {} => handed' = handed

LEMMA SyncHeld == ASSUME NonceInv, NEW m, Before(m), SyncNonce(m) PROVE NonceHeld
  <1>1. NonceInv' /\ handed' = handed /\ (mgr.gapped => mgr'.gapped)
    BY SyncInv
  <1>2. mgr.gapped \in BOOLEAN /\ mgr'.gapped \in BOOLEAN
    BY <1>1 DEF NonceInv, NonceTypeOK, Manager
  <1> QED
    BY <1>1, <1>2 DEF NonceHeld, Allocator!Next, Allocator!Halt

LEMMA HandHeld ==
    ASSUME NonceInv, NonceInv', Allocator!Hand, ~mgr.gapped, NEW n \in Nat,
           handed' = Append(handed, n), best' <= n
    PROVE  NonceHeld
  <1>1. handed'[Len(handed')] = n
    BY DEF NonceInv, NonceTypeOK
  <1> QED
    BY <1>1 DEF NonceHeld, Allocator!Next, NonceInv, Closed

LEMMA StepHeld == ASSUME NonceInv, [NonceNext]_nonceVars PROVE NonceHeld
  <1>1. mgr \in Manager /\ handed \in Seq(Nat) /\ best \in Nat
    BY DEF NonceInv, NonceTypeOK
  <1>2. CASE Poll
    <2>1. Before(mgr)
      BY <1>1 DEF Before, NonceInv, Known, Closed, GapIsReal
    <2> QED
      BY <1>2, <2>1, SyncHeld DEF Poll
  <1>3. CASE FirstReserve
    <2> PICK e \in Endpoints, x \in Counts :
          /\ Answered(e)
          /\ mgr' = [mgr EXCEPT !.next = x + 1, !.reserved = @ \cup {x}]
          /\ handed' = Append(handed, x)
          /\ best' = IF x > best THEN x ELSE best
      BY <1>3 DEF FirstReserve
    <2>1. x \in Nat /\ best = 0
      BY <1>3, CountsNat DEF FirstReserve, NonceInv, Known
    <2>2. best' \in Nat /\ best' <= x /\ best <= best'
      BY <2>1
    <2>3. PoolTypeOK'
      BY <1>3, CallType DEF FirstReserve, NonceInv, NonceTypeOK
    <2>4. /\ ~mgr.gapped /\ mgr.next = Unset /\ early' = early /\ sent' = sent
          /\ outcome' = "answered"
      BY <1>3 DEF FirstReserve
    <2>5. NonceInv' /\ Allocator!Hand
      BY <2>1, <2>2, <2>3, <2>4, TakeInv
    <2> QED
      BY <2>1, <2>2, <2>4, <2>5, HandHeld
  <1>4. CASE Reserve
    <2> PICK n \in Nat : n = mgr.next
      BY <1>1, <1>4 DEF Reserve, Manager
    <2>1. best' = best /\ best' \in Nat /\ best' <= n /\ best <= best'
      BY <1>1, <1>4 DEF Reserve, NonceInv, Known
    <2>2. PoolTypeOK'
      BY <1>4 DEF Reserve, NonceInv, NonceTypeOK, PoolTypeOK
    <2>3. /\ ~mgr.gapped /\ early' = early /\ sent' = sent /\ outcome' = outcome
          /\ mgr' = [mgr EXCEPT !.next = n + 1, !.reserved = @ \cup {n}]
          /\ handed' = Append(handed, n)
      BY <1>4 DEF Reserve
    <2>4. outcome' \in {"none", "answered", "down"}
      BY <2>3 DEF NonceInv, NonceTypeOK
    <2>5. NonceInv' /\ Allocator!Hand
      BY <2>1, <2>2, <2>3, <2>4, TakeInv
    <2> QED
      BY <2>1, <2>3, <2>5, HandHeld
  <1>5. ASSUME NEW n \in Handed, OnConfirmed(n) PROVE NonceHeld
    <2> DEFINE m == [mgr EXCEPT !.confirmed = @ \cup {n}, !.reserved = @ \ {n},
                       !.gapped = @ \/ \E r \in mgr.reserved \ {n} : r < n]
    <2>1. n \in Nat /\ mgr.next # Unset
      BY <1>1, <1>5 DEF Handed, NonceInv, Known
    <2>2. Before(m)
      BY <1>1, <2>1 DEF Before, NonceInv, Known, Closed, GapIsReal, Manager
    <2>3. SyncNonce(m)
      BY <1>5 DEF OnConfirmed
    <2> HIDE DEF m
    <2> QED
      BY <2>2, <2>3, SyncHeld
  <1>6. ASSUME NEW n \in Handed, OnFailed(n) PROVE NonceHeld
    <2> DEFINE m == [mgr EXCEPT !.failed = @ \cup {n}, !.reserved = @ \ {n},
                       !.gapped = @ \/ mgr.next = Unset \/ n < mgr.next]
    <2>1. n \in Nat /\ mgr.next # Unset /\ n < mgr.next
      BY <1>1, <1>6 DEF Handed, NonceInv, Known, Ordered
    <2>2. Before(m)
      BY <1>1, <2>1 DEF Before, NonceInv, Known, Closed, GapIsReal, Manager
    <2>3. SyncNonce(m)
      BY <1>6 DEF OnFailed
    <2> HIDE DEF m
    <2> QED
      BY <2>2, <2>3, SyncHeld
  <1>7. ASSUME PoolTypeOK', sent' \subseteq Nat,
               UNCHANGED <<mgr, handed, best, early, outcome>>
        PROVE  NonceHeld
    <2>1. NonceInv'
      BY <1>7 DEF NonceInv, NonceTypeOK, Known, Ordered, Closed, NoHole, GapIsReal, Handed
    <2> QED
      BY <1>7, <2>1 DEF NonceHeld
  <1>8. ASSUME NEW n \in Handed, Broadcast(n) PROVE NonceHeld
    <2>1. n \in Nat
      BY <1>1, <1>8 DEF Handed
    <2> QED
      BY <1>7, <1>8, <2>1 DEF Broadcast, NonceInv, NonceTypeOK, PoolTypeOK
  <1>9. CASE World
    <2>1. CASE Foreign
      BY <1>7, <2>1, NonceAssumption DEF Foreign, NonceInv, NonceTypeOK, PoolTypeOK
    <2>2. CASE Elapse /\ UNCHANGED <<mgr, sent, handed, best, early, outcome>>
      <3>1. PoolTypeOK'
        BY <2>2, PoolAssumption DEF Elapse, NonceInv, NonceTypeOK, PoolTypeOK
      <3> QED
        BY <1>7, <2>2, <3>1 DEF NonceInv, NonceTypeOK
    <2>3. CASE Flap /\ UNCHANGED <<mgr, sent, handed, best, early, outcome>>
      BY <1>7, <2>3 DEF Flap, poolVars, NonceInv, NonceTypeOK, PoolTypeOK
    <2> QED
      BY <1>9, <2>1, <2>2, <2>3 DEF World
  <1>10. CASE UNCHANGED nonceVars
    BY <1>7, <1>10 DEF nonceVars, NonceInv, NonceTypeOK, PoolTypeOK
  <1> QED
    BY <1>2, <1>3, <1>4, <1>5, <1>6, <1>8, <1>9, <1>10 DEF NonceNext

-----------------------------------------------------------------------------

(* The inductive invariant holds of nonce.py over rpc.py in every          *)
(* reachable state; NoHole and GapIsReal are among its conjuncts.          *)
THEOREM NonceInvariant == NonceSpec => []NonceInv
  <1>1. NonceInit => NonceInv
    BY NonceInitInv
  <1>2. NonceInv /\ [NonceNext]_nonceVars => NonceInv'
    BY StepHeld DEF NonceHeld
  <1> QED
    BY <1>1, <1>2, PTL DEF NonceSpec

(* reserve() never returns a nonce it has returned before.                 *)
THEOREM NoReuse == NonceSpec => []NoNonceTwice
  <1>1. NonceInv => NoNonceTwice
    <2> SUFFICES ASSUME NonceInv, NEW i \in 1 .. Len(handed), NEW j \in 1 .. Len(handed),
                        handed[i] = handed[j]
                 PROVE  i = j
      BY DEF NoNonceTwice
    <2>1. handed \in Seq(Nat)
      BY DEF NonceInv, NonceTypeOK
    <2>2. handed[i] \in Nat /\ handed[j] \in Nat
      BY <2>1
    <2>3. ~(i < j) /\ ~(j < i)
      BY <2>2 DEF NonceInv, Ordered
    <2> QED
      BY <2>1, <2>3
  <1> QED
    BY <1>1, NonceInvariant, PTL

(* reserve() leaves no nonce out: a hole would stop all that follow.       *)
THEOREM HoleFree == NonceSpec => []NoHole
  <1>1. NonceInv => NoHole
    BY DEF NonceInv
  <1> QED
    BY <1>1, NonceInvariant, PTL

(* A lagging endpoint alone does not stop a sender that has one            *)
(* transaction open at a time (sync(), on_confirmed()).                    *)
THEOREM GapTheorem == NonceSpec => []GapIsReal
  <1>1. NonceInv => GapIsReal
    BY DEF NonceInv
  <1> QED
    BY <1>1, NonceInvariant, PTL

(* sync() never lets reserve() hand out a nonce below a count it has read. *)
THEOREM ReadTheorem == NonceSpec => NeverBelowRead
  <1>1. NonceInv /\ [NonceNext]_nonceVars =>
          [handed' # handed => best' <= handed'[Len(handed')]]_nonceVars
    BY StepHeld DEF NonceHeld
  <1> QED
    BY <1>1, NonceInvariant, PTL DEF NonceSpec, NeverBelowRead

(* After on_failed() reserve() hands out nothing, whether or not the sync  *)
(* inside on_failed() raised.                                              *)
THEOREM FailTheorem == NonceSpec => FailClosed
  <1>1. NonceInv /\ [NonceNext]_nonceVars => [mgr.failed # {} => handed' = handed]_nonceVars
    BY StepHeld DEF NonceHeld
  <1> QED
    BY <1>1, NonceInvariant, PTL DEF NonceSpec, FailClosed

(* The manager implements the abstract allocator.                          *)
THEOREM AllocatorTheorem == NonceSpec => ImplementsAllocator
  <1>1. NonceInit => Allocator!Init
    BY NonceInitInv
  <1>2. NonceInv /\ [NonceNext]_nonceVars => [Allocator!Next]_<<handed, mgr.gapped>>
    BY StepHeld DEF NonceHeld
  <1> QED
    BY <1>1, <1>2, NonceInvariant, PTL DEF NonceSpec, ImplementsAllocator, Allocator!Spec

=============================================================================
