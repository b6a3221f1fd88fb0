---------------------------- MODULE SpotExecutor ----------------------------
(***************************************************************************)
(* The contract that holds the agent's funds, the exchange subaccount      *)
(* behind it, and the backend that sizes orders for it and reads it back.  *)
(* The loop goes read, read, send, and does not know whether what it sent  *)
(* last was mined: a wait that timed out is over.  Hand-made calls of the  *)
(* owner and the transfer of the contract happen at any time.              *)
(*                                                                         *)
(* A human amount is in cents of USDT or lots of INJ (the quantity tick),  *)
(* a human price in cents per lot.  The contract's calls take the chain    *)
(* format for deposits and the API format for orders.  All calls are on    *)
(* the one subaccount the backend and deploy.sh name.  Fees are left out.  *)
(***************************************************************************)
EXTENDS Integers, Sequences, FiniteSetsExt

CONSTANTS
    Accounts,      \* who may call
    Agent,         \* the backend's key, which deployed the contract
    Unit,          \* chain format of one lot, one cent: 10^decimals
    Scale,         \* API format of 1: 10^18
    PriceTick,     \* minPriceTickSize, in cents
    Slip,          \* slippage in percent
    MinNotional,   \* MIN_NOTIONAL_USD, in cents
    Prices,        \* prices at the top of the book and of trades
    Budgets,       \* amounts the policy engine lets through, in cents
    Seed,          \* what deploy.sh deposits, human
    Reserve,       \* what is left in the bank then
    Amounts,       \* what is moved by hand, token and human amount
    Rests,         \* quantities of hand-made limit orders, in lots
    MaxSends,      \* bound: transactions of the backend
    MaxOrders,     \* bound: orders placed
    MaxHand        \* bound: payments, deposits, withdrawals and transfers by hand

Denoms == {"INJ", "USDT"}

ASSUME ExecutorAssumption ==
    /\ Agent \in Accounts
    /\ Unit \in [Denoms -> Nat \ {0}] /\ Seed \in [Denoms -> Nat]
    /\ Reserve \in [Denoms -> Nat]
    /\ Scale \in Nat \ {0} /\ PriceTick \in Nat \ {0}
    /\ Slip \in 0 .. 99 /\ MinNotional \in Nat
    /\ Prices \subseteq Nat \ {0} /\ IsFiniteSet(Prices) /\ Budgets \subseteq Nat /\ Amounts \subseteq Denoms \X Nat
    /\ Rests \subseteq Nat \ {0}
    /\ MaxSends \in Nat /\ MaxOrders \in Nat /\ MaxHand \in Nat

VARIABLES
    owner,
    bank,     \* the contract's bank balance, chain format
    avail,    \* its subaccount's available balance, chain format
    total,    \* ... and total balance
    log,      \* the OrderPlaced events; an order's hash is its place
    book,     \* the exchange's record of each: lots left, lots and cents traded
    tx,       \* the backend's unmined transaction, if any
    pc,       \* the backend: "read", "half" (one token read), "send"
    bals,     \* what it read, human
    sends, hand,
    \* observers of the running read: orders open and funds moved meanwhile
    stake, moved

contract == <<owner, bank, avail, total, log, book>>
backend == <<tx, pc, bals, sends>>
observers == <<stake, moved>>
vars == <<contract, backend, hand, observers>>

NoTx == [cid |-> 0]
Nothing == [d \in Denoms |-> 0]

(* The constructor, and deploy.sh's deposit. *)
Init ==
    /\ owner = Agent
    /\ bank = [d \in Denoms |-> Reserve[d] * Unit[d]]
    /\ avail = [d \in Denoms |-> Seed[d] * Unit[d]] /\ total = avail
    /\ log = <<>> /\ book = <<>>
    /\ tx = NoTx /\ pc = "read" /\ bals = Nothing
    /\ sends = 0 /\ hand = 0
    /\ stake = {} /\ moved = Nothing

-----------------------------------------------------------------------------
(* Units *)

ToUfixed(v) == v * Scale

ToChain(v, d) == v * Unit[d]

(* Fault: one number of decimals for all tokens, as on BSC. *)
FromChain_Bsc(raw, d) == raw \div Unit["INJ"]

FromChain(raw, d) == raw \div Unit[d]

(* The price n/of rounded to a whole number of ticks. *)
SnapToTick(n, of, up) ==
    LET tick == of * PriceTick
    IN  PriceTick * ((n + (IF up THEN tick - 1 ELSE 0)) \div tick)

-----------------------------------------------------------------------------
(* The exchange module behind the precompile *)

Lots(o) == o.qty \div Scale
Price(o) == o.price \div Scale

Gives(o) == IF o.side = "buy" THEN "USDT" ELSE "INJ"
Gets(o) == IF o.side = "buy" THEN "INJ" ELSE "USDT"

(* What n lots of the order lock, and what n lots at px cost and bring. *)
Margin(o, n) == ToChain(IF o.side = "buy" THEN n * Price(o) ELSE n, Gives(o))
Cost(o, n, px) == ToChain(IF o.side = "buy" THEN n * px ELSE n, Gives(o))
Yield(o, n, px) == ToChain(IF o.side = "buy" THEN n ELSE n * px, Gets(o))

(* Whole ticks, the minimum notional, and enough available. *)
Accepts(o) ==
    /\ o.qty > 0 /\ o.qty % Scale = 0
    /\ o.price > 0 /\ o.price % (Scale * PriceTick) = 0
    /\ Lots(o) * Price(o) >= MinNotional
    /\ Margin(o, Lots(o)) <= avail[Gives(o)]

Open == {i \in DOMAIN book : book[i].left > 0}

(* Order i trades n lots at px.  What is left of a market order is         *)
(* dropped, what is left of a limit order rests.                           *)
Trade(i, n, px) ==
    LET o    == log[i]
        rest == IF o.limit THEN book[i].left - n ELSE 0
    IN  /\ book' = [book EXCEPT ![i] =
                [left |-> rest, lots |-> @.lots + n, cents |-> @.cents + n * px]]
        /\ avail' = [avail EXCEPT
                ![Gives(o)] = @ + Margin(o, book[i].left) - Margin(o, rest) - Cost(o, n, px),
                ![Gets(o)] = @ + Yield(o, n, px)]
        /\ total' = [total EXCEPT
                ![Gives(o)] = @ - Cost(o, n, px), ![Gets(o)] = @ + Yield(o, n, px)]
        /\ UNCHANGED <<owner, bank, log, backend, hand, observers>>

(* The batch at the end of the block, or a later one for a resting order. *)
Match ==
    \E i \in Open : \E n \in 1 .. book[i].left, px \in Prices :
        /\ IF log[i].side = "buy" THEN px <= Price(log[i]) ELSE px >= Price(log[i])
        /\ Trade(i, n, px)

(* No counterparty within the worst price. *)
Expire == \E i \in Open : ~log[i].limit /\ Trade(i, 0, 0)

-----------------------------------------------------------------------------
(* The contract.  A call that is not the owner's, or that the exchange     *)
(* refuses, reverts and leaves no event.                                   *)

Place(a, o) ==
    /\ a = owner
    /\ Len(log) < MaxOrders
    /\ Accepts(o)
    /\ log' = Append(log, o)
    /\ book' = Append(book, [left |-> Lots(o), lots |-> 0, cents |-> 0])
    /\ avail' = [avail EXCEPT ![Gives(o)] = @ - Margin(o, Lots(o))]
    /\ stake' = IF pc = "half" THEN stake \cup {Len(log')} ELSE {}
    /\ UNCHANGED <<owner, bank, total, moved>>

(* placeSpotMarketOrder, with the backend's transaction. *)
PlaceSpotMarketOrder ==
    /\ tx # NoTx
    /\ Place(Agent, tx)
    /\ tx' = NoTx
    /\ UNCHANGED <<pc, bals, sends, hand>>

(* ... or the transaction is mined and reverts, or is lost. *)
Revert ==
    /\ tx # NoTx
    /\ tx' = NoTx
    /\ UNCHANGED <<contract, pc, bals, sends, hand, observers>>

(* By hand; nothing in the repository cancels such an order. *)
PlaceSpotLimitOrder(a) ==
    \E side \in {"buy", "sell"}, px \in Prices, n \in Rests :
        /\ Place(a, [limit |-> TRUE, cid |-> 0, side |-> side,
                     price |-> ToUfixed(px), qty |-> ToUfixed(n), usd |-> 0, ref |-> 0])
        /\ UNCHANGED <<backend, hand>>

ByHand(a) ==
    /\ a = owner
    /\ hand < MaxHand /\ hand' = hand + 1
    /\ UNCHANGED <<log, book, backend, stake>>

Deposit(a, d, v) ==
    /\ ByHand(a)
    /\ ToChain(v, d) <= bank[d]
    /\ bank' = [bank EXCEPT ![d] = @ - ToChain(v, d)]
    /\ avail' = [avail EXCEPT ![d] = @ + ToChain(v, d)]
    /\ total' = [total EXCEPT ![d] = @ + ToChain(v, d)]
    /\ moved' = IF pc = "half" THEN [moved EXCEPT ![d] = @ + v] ELSE Nothing
    /\ UNCHANGED owner

Withdraw(a, d, v) ==
    /\ ByHand(a)
    /\ ToChain(v, d) <= avail[d]
    /\ bank' = [bank EXCEPT ![d] = @ + ToChain(v, d)]
    /\ avail' = [avail EXCEPT ![d] = @ - ToChain(v, d)]
    /\ total' = [total EXCEPT ![d] = @ - ToChain(v, d)]
    /\ moved' = IF pc = "half" THEN [moved EXCEPT ![d] = @ + v] ELSE Nothing
    /\ UNCHANGED owner

(* The zero address is not an account. *)
TransferOwnership(a, new) ==
    /\ ByHand(a)
    /\ owner' = new
    /\ UNCHANGED <<bank, avail, total, moved>>

(* receive(): anyone may send INJ to the contract's bank balance. *)
Receive(v) ==
    /\ hand < MaxHand /\ hand' = hand + 1
    /\ bank' = [bank EXCEPT !["INJ"] = @ + ToChain(v, "INJ")]
    /\ UNCHANGED <<owner, avail, total, log, book, backend, observers>>

SubaccountBalance(d) == [available |-> avail[d], total |-> total[d]]

-----------------------------------------------------------------------------
(* The backend *)

(* A call answers from the state after a block, in which no market order   *)
(* is waiting.                                                             *)
BetweenBlocks == \A i \in Open : log[i].limit

Read(d) ==
    /\ BetweenBlocks
    /\ bals' = [bals EXCEPT ![d] = FromChain(SubaccountBalance(d).available, d)]
    /\ UNCHANGED <<contract, tx, sends, hand>>

(* read_subaccount_balances: the universe, then the quote tokens, by one   *)
(* call each.                                                              *)
ReadInj ==
    /\ pc = "read" /\ pc' = "half"
    /\ Read("INJ")
    /\ stake' = Open /\ moved' = Nothing

ReadUsdt ==
    /\ pc = "half" /\ pc' = "send"
    /\ Read("USDT")
    /\ stake' = {} /\ moved' = Nothing

(* The tick is over and what it read is not used again. *)
Forget == bals' = Nothing /\ stake' = {} /\ moved' = Nothing

(* The second call fails and the tick holds, or there is nothing to trade. *)
Hold ==
    /\ pc # "read" /\ pc' = "read"
    /\ Forget
    /\ UNCHANGED <<contract, tx, sends, hand>>

(* Lots for the amount, rounded down to whole ones. *)
Quantity(usd, ref) == ToUfixed(usd \div ref)

(* Fault: slippage of a tenth for one of a hundredth. *)
Worst_Wide(side, ref) ==
    LET bound == ref * (IF side = "buy" THEN 100 + 10 * Slip ELSE 100 - 10 * Slip)
    IN  ToUfixed(SnapToTick(bound, 100, side = "buy"))

(* The slippage bound, snapped away from the reference price. *)
Worst(side, ref) ==
    LET bound == ref * (IF side = "buy" THEN 100 + Slip ELSE 100 - Slip)
    IN  ToUfixed(SnapToTick(bound, 100, side = "buy"))

(* _size.  When the tick sizes cannot be had the numbers are sent as they  *)
(* are.                                                                    *)
Sized(side, usd, ref, ticks) ==
    LET raw == ToUfixed(ref * (IF side = "buy" THEN 100 + Slip ELSE 100 - Slip)) \div 100
    IN  [limit |-> FALSE, cid |-> sends + 1, side |-> side,
         price |-> IF ticks THEN Worst(side, ref) ELSE raw,
         qty |-> IF ticks THEN Quantity(usd, ref) ELSE ToUfixed(usd) \div ref,
         usd |-> usd, ref |-> ref]

(* execute_swap and _send_order: an order under the minimum is skipped.    *)
(* The nonce is the number of mined transactions, so an unmined earlier    *)
(* transaction is replaced.                                                *)
ExecuteSwap(side, usd, ref, ticks) ==
    /\ pc = "send" /\ pc' = "read"
    /\ sends < MaxSends /\ sends' = sends + 1
    /\ LET o == Sized(side, usd, ref, ticks)
       IN  tx' = IF o.qty * ref < ToUfixed(MinNotional) THEN tx ELSE o
    /\ Forget
    /\ UNCHANGED <<contract, hand>>

-----------------------------------------------------------------------------
Next ==
    \/ ReadInj \/ ReadUsdt \/ Hold
    \/ \E side \in {"buy", "sell"}, usd \in Budgets, ref \in Prices, ticks \in BOOLEAN :
           ExecuteSwap(side, usd, ref, ticks)
    \/ PlaceSpotMarketOrder \/ Revert
    \/ Match \/ Expire
    \/ \E m \in Amounts : m[1] = "INJ" /\ Receive(m[2])
    \/ \E a \in Accounts :
           \/ PlaceSpotLimitOrder(a)
           \/ \E m \in Amounts : Deposit(a, m[1], m[2]) \/ Withdraw(a, m[1], m[2])
           \/ \E new \in Accounts : TransferOwnership(a, new)

Spec == Init /\ [][Next]_vars

-----------------------------------------------------------------------------
(* What the contract and its backend guarantee *)

(* Balances never go negative and nothing available is not there: the      *)
(* margin of every order is held until it trades or ends, whatever the     *)
(* owner withdraws meanwhile.                                              *)
TypeOK ==
    /\ owner \in Accounts
    /\ bank \in [Denoms -> Nat] /\ avail \in [Denoms -> Nat] /\ total \in [Denoms -> Nat]
    /\ \A d \in Denoms : avail[d] <= total[d]
    /\ Len(book) = Len(log)
    /\ pc \in {"read", "half", "send"} /\ bals \in [Denoms -> Nat]
    /\ stake \subseteq DOMAIN log /\ moved \in [Denoms -> Nat]
    /\ sends \in 0 .. MaxSends /\ hand \in 0 .. MaxHand

(* An order trades within the amount the policy engine let through: a buy  *)
(* costs at most that amount plus the slippage and one price tick per lot, *)
(* a sell brings at least the reference price less the same.               *)
BudgetKept ==
    \A i \in DOMAIN log : ~log[i].limit =>
        LET ticks == 100 * PriceTick * book[i].lots IN
        IF log[i].side = "buy"
        THEN 100 * book[i].cents <= (100 + Slip) * log[i].usd + ticks
        ELSE /\ book[i].lots * log[i].ref <= log[i].usd
             /\ 100 * book[i].cents + ticks >= (100 - Slip) * log[i].ref * book[i].lots

(* What amounts b are worth at price px. *)
Nav(b, px) == b["INJ"] * px + b["USDT"]

(* What the subaccount holds, in cents and lots. *)
Held == [d \in Denoms |-> total[d] \div Unit[d]]

(* The highest price an order may pay, and what the orders and funds of    *)
(* the running read come to at it.                                         *)
Top == Max({Worst("buy", px) \div Scale : px \in Prices})

AtStake ==
    SumFunctionOnSet([i \in stake |-> Lots(log[i]) * Top], stake) + Nav(moved, Top)

(* The NAV the reconcile reads is off by no more than the orders that were *)
(* open, and the funds that were moved by hand, since the read began, at   *)
(* the highest price: the two tokens are read by two calls, and what an    *)
(* order locks is not in the available balance.                            *)
ReadWithinStake ==
    [][pc = "half" /\ pc' = "send" =>
        \A px \in Prices :
            LET off == Nav(bals', px) - Nav(Held, px)
            IN  off <= AtStake /\ -off <= AtStake]_vars

-----------------------------------------------------------------------------
(* The inductive invariant behind the budget *)

Orders == [limit : BOOLEAN, cid : Nat, side : {"buy", "sell"}, price : Nat, qty : Nat,
           usd : Nat, ref : Nat]

Fills == [left : Nat, lots : Nat, cents : Nat]

(* A market order is for lots the amount pays at the reference price, and  *)
(* its worst price is the reference price within slippage and one tick.    *)
Terms(o) ==
    /\ Lots(o) * o.ref <= o.usd
    /\ IF o.side = "buy" THEN 100 * Price(o) <= (100 + Slip) * o.ref + 100 * PriceTick
       ELSE (100 - Slip) * o.ref <= 100 * Price(o) + 100 * PriceTick

OrdersInv ==
    /\ tx # NoTx => tx \in Orders /\ ~tx.limit /\ Terms(tx)
    /\ log \in Seq(Orders) /\ \A i \in DOMAIN log : ~log[i].limit => Terms(log[i])

(* No order trades more lots than it is for, nor beyond its price. *)
Within(o, f) ==
    /\ f.left + f.lots <= Lots(o)
    /\ IF o.side = "buy" THEN f.cents <= f.lots * Price(o)
       ELSE f.lots * Price(o) <= f.cents

FillsInv ==
    /\ book \in Seq(Fills) /\ Len(book) = Len(log)
    /\ \A i \in DOMAIN log : Within(log[i], book[i])

IInv == sends \in Nat /\ OrdersInv /\ FillsInv

-----------------------------------------------------------------------------
(* ... behind the balances *)

(* What an order still locks of d, human. *)
Lock(i, d) ==
    IF Gives(log[i]) # d THEN 0
    ELSE IF log[i].side = "buy" THEN book[i].left * Price(log[i]) ELSE book[i].left

Locks(d) == SumFunctionOnSet([i \in DOMAIN log |-> Lock(i, d)], DOMAIN log)

(* Balances are of whole cents and lots, and what is in the subaccount and *)
(* not available is what the orders lock.                                  *)
FundsInv ==
    /\ avail \in [Denoms -> Nat] /\ total \in [Denoms -> Nat]
    /\ \A d \in Denoms :
          LET a == FromChain(avail[d], d)
          IN  avail[d] = ToChain(a, d) /\ total[d] = ToChain(a + Locks(d), d)

-----------------------------------------------------------------------------
(* ... and behind the read *)

(* No order to buy pays more than the highest price. *)
Capped(o) == o.side = "buy" => Price(o) <= Top
CapInv == (tx # NoTx => Capped(tx)) /\ \A i \in DOMAIN log : Capped(log[i])

(* By how much the orders have changed the lots since they were read: what *)
(* one that was open then had locked counts as gained.                     *)
Drift(s) ==
    \A i \in stake :
        LET lots == Lots(log[i])
            left == book[i].left
        IN  IF log[i].side = "buy" THEN s[i] \in 0 .. lots - left
            ELSE s[i] \in left - lots .. lots

(* In the middle of a read every order that is or was open since is at     *)
(* stake, and the lots read are off by what these have traded or lock and  *)
(* by what was moved.                                                      *)
ReadInv ==
    pc = "half" =>
        /\ Open \subseteq stake
        /\ \E s \in [stake -> Int], net \in -moved["INJ"] .. moved["INJ"] :
              /\ Drift(s)
              /\ Held["INJ"] = bals["INJ"] + SumFunctionOnSet(s, stake) + net

=============================================================================
