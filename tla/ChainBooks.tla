----------------------------- MODULE ChainBooks -----------------------------
(***************************************************************************)
(* The books of the live loop on BSC: they are overwritten from the        *)
(* wallet's token balances at every tick (run_live.sync_state_from_chain,  *)
(* agent/ops/onchain.py), which are read one eth_call at a time through    *)
(* RpcPool, and moved by swaps that the twak program signs and broadcasts  *)
(* (agent/execution/twak_backend.py).                                      *)
(*                                                                         *)
(* The balances are not one snapshot: an endpoint may be behind the head   *)
(* of the chain, and between two balances the pool may change endpoints.   *)
(* twak returns the hash of a transaction when it is broadcast, and the    *)
(* loop books the fill without waiting for it to be mined.                 *)
(*                                                                         *)
(* Amounts are whole units of a token; the quote token is worth 1.  The    *)
(* universe and the quote token are all in BSC_TOKENS.                     *)
(***************************************************************************)
EXTENDS RpcPool, Sequences, SequencesExt

CONSTANTS
    Universe,   \* the sequence of risky tokens, in the order they are read
    Quote,
    Worth,      \* what the wallet holds at first, in the quote token
    Prices,     \* the prices a risky token can have (0: the feed has none)
    DUST_USD,
    MaxSwaps    \* bound: swaps the loop attempts

ASSUME BooksAssumption ==
    /\ Universe \in Seq(ToSet(Universe)) /\ Quote \notin ToSet(Universe)
    /\ Worth \in Nat /\ DUST_USD \in Nat \ {0}
    /\ Prices \subseteq Nat /\ MaxSwaps \in Nat

VARIABLES
    \* the process
    pc, mem,
    bals,      \* the balances read so far in this tick
    \* live_state.json
    disk,
    \* outside
    wallet,    \* the balances at the head of the chain
    seen,      \* the balances at the block each endpoint has reached
    flight,    \* the swaps that are broadcast and not mined, oldest first
    price,
    \* observers: the program does not read these
    fresh,     \* was every balance of this tick read at the head?
    stray,     \* did the process die in its sleep over a swap in flight that
               \* the file did not remember, and is it still in the tick after?
    excused,   \* tokens whose entry the books have had reason to lose
    swaps      \* swaps attempted

vars == <<healthy, cooling, up, pc, mem, bals, disk, wallet, seen, flight, price,
          fresh, stray, excused, swaps>>

Tokens == ToSet(Universe)

symbols == Append(Universe, Quote)

(* entry is "none" for a token that is not in positions, "filled" if the   *)
(* entry price and time are those of a booked fill and "adopted" if they   *)
(* are those of the tick that found the balance.                           *)
Position == [qty : Nat, entry : {"none", "filled", "adopted"}]

None == [qty |-> 0, entry |-> "none"]

State == [positions : [Tokens -> Position], stable : Nat, pending : BOOLEAN]

Swap == [token : Tokens, side : {"buy", "sell"}, qty : Nat, usd : Nat]

Init ==
    /\ PoolInit
    /\ pc = "down" /\ bals = <<>> /\ flight = <<>>
    /\ fresh = TRUE /\ stray = FALSE /\ excused = {} /\ swaps = 0
    /\ disk = [positions |-> [t \in Tokens |-> None], stable |-> 0, pending |-> FALSE]
    /\ mem = disk
    /\ wallet = [s \in ToSet(symbols) |-> IF s = Quote THEN Worth ELSE 0]
    /\ seen = [e \in Endpoints |-> wallet]
    /\ price \in [Tokens -> Prices]

outside == <<wallet, seen, flight, price>>

-----------------------------------------------------------------------------
(* Reading the chain *)

(* The top of a tick: get_token_views reads the prices, once. *)
TickStart ==
    /\ pc' = "read" /\ bals' = <<>> /\ fresh' = TRUE
    /\ price' \in [Tokens -> Prices]
    /\ stray' = (stray /\ flight # <<>>)
    /\ UNCHANGED <<healthy, cooling, up, disk, wallet, seen, flight, excused, swaps>>

Start == pc = "down" /\ mem' = disk /\ TickStart

(* The sleep (half an hour) is longer than a swap stays unmined. *)
Wake == pc = "sleep" /\ flight = <<>> /\ UNCHANGED mem /\ TickStart

(* read_token_balances: one call of the pool per symbol. *)
ReadBalance(e) ==
    /\ pc = "read"
    /\ Answered(e)
    /\ bals' = Append(bals, seen[e][symbols[Len(bals) + 1]])
    /\ fresh' = (fresh /\ seen[e] = wallet)
    /\ pc' = IF Len(bals') = Len(symbols) THEN "sync" ELSE "read"
    /\ UNCHANGED <<up, mem, disk, outside, stray, excused, swaps>>

(* No endpoint answers, or one answers with a result that is no number:    *)
(* what was read is thrown away, and the tick ends with the old books.     *)
ReadFailed ==
    /\ pc = "read"
    /\ \/ AllDown
       \/ \E e \in Endpoints : Answered(e)
    /\ disk' = mem
    /\ bals' = <<>>
    /\ pc' = "sleep"
    /\ UNCHANGED <<up, mem, outside, fresh, stray, excused, swaps>>

Balance(s) == bals[CHOOSE i \in DOMAIN symbols : symbols[i] = s]

(* Fault: every balance is taken over with a new entry. *)
Synced_Overwrite(t) ==
    IF Balance(t) * price[t] < DUST_USD THEN None
    ELSE [qty |-> Balance(t), entry |-> "adopted"]

(* A holding worth less than the dust line is dropped, and so is one the   *)
(* price feed left out of its answer; the entry of one that is known is    *)
(* kept; any other is adopted at the current price.                        *)
Synced(t) ==
    IF Balance(t) * price[t] < DUST_USD THEN None
    ELSE [qty |-> Balance(t),
          entry |-> IF mem.positions[t] # None THEN mem.positions[t].entry
                                               ELSE "adopted"]

(* Fault: the tick goes on after a recovery. *)
Sync_FallThrough ==
    /\ pc = "sync"
    /\ mem' = [positions |-> [t \in Tokens |-> Synced(t)],
               stable    |-> Balance(Quote),
               pending   |-> FALSE]
    /\ disk' = mem'
    /\ pc' = "decide"
    /\ excused' = excused \cup {t \in Tokens : Synced(t) = None}
    /\ bals' = <<>>
    /\ UNCHANGED <<healthy, cooling, up, outside, fresh, stray, swaps>>

(* sync_state_from_chain, with what step 2 of the loop does about a        *)
(* pending intent: clear it, save, and skip the decision.                  *)
Sync ==
    /\ pc = "sync"
    /\ mem' = [positions |-> [t \in Tokens |-> Synced(t)],
               stable    |-> Balance(Quote),
               pending   |-> FALSE]
    /\ IF mem.pending THEN disk' = mem' /\ pc' = "sleep"
                      ELSE disk' = disk /\ pc' = "decide"
    /\ excused' = excused \cup {t \in Tokens : Synced(t) = None}
    /\ bals' = <<>>
    /\ UNCHANGED <<healthy, cooling, up, outside, fresh, stray, swaps>>

-----------------------------------------------------------------------------
(* Deciding and swapping *)

Hold ==
    /\ pc = "decide"
    /\ pc' = "finish"
    /\ UNCHANGED <<healthy, cooling, up, mem, bals, disk, outside, fresh, stray,
                   excused, swaps>>

(* A buy within the cash or a sale within the position, as far as the      *)
(* books know.                                                             *)
Affordable(swap) ==
    /\ swap.usd > 0
    /\ IF swap.side = "buy" THEN swap.usd <= mem.stable
                            ELSE swap.qty <= mem.positions[swap.token].qty

(* The positions after _apply_fill: the entry of a new one is that of the  *)
(* fill, the entry of a known one is averaged, the last unit takes the     *)
(* position with it.                                                       *)
ApplyFill(state, swap) ==
    LET old == state.positions[swap.token]
        qty == IF swap.side = "buy" THEN old.qty + swap.qty ELSE old.qty - swap.qty
        new == IF qty = 0 THEN None
               ELSE [qty |-> qty,
                     entry |-> IF old = None THEN "filled" ELSE old.entry]
    IN  [state EXCEPT
           !.positions[swap.token] = new,
           !.stable = IF swap.side = "buy" THEN @ - swap.usd ELSE @ + swap.usd]

(* core.tick stages the intent, and execute_swap runs twak, which          *)
(* broadcasts or does not.  A hash means executed; output without one      *)
(* (unparsable, or without the key) means not executed, even after a       *)
(* broadcast; a failing exit and the 90 seconds' timeout raise, and the    *)
(* loop starts again from the state file.                                  *)
Execute(swap, sent, result) ==
    /\ pc = "decide"
    /\ Affordable(swap)
    /\ result = "hash" => sent
    /\ swaps < MaxSwaps /\ swaps' = swaps + 1
    /\ flight' = IF sent THEN Append(flight, swap) ELSE flight
    /\ disk' = [mem EXCEPT !.pending = TRUE]
    /\ \/ result = "hash" /\ mem' = ApplyFill(mem, swap) /\ pc' = "finish"
       \/ result = "nohash" /\ mem' = mem /\ pc' = "finish"
       \/ result = "raise" /\ mem' = disk' /\ pc' = "down"
    /\ excused' = excused \cup
           {t \in {swap.token} : sent /\
               \/ swap.side = "buy" /\ mem.positions[t] = None
               \/ swap.side = "sell" /\ mem.positions[t].qty = swap.qty}
    /\ UNCHANGED <<healthy, cooling, up, bals, wallet, seen, price, fresh, stray>>

(* The snapshot at the end of the tick.  A fill that opened a position is  *)
(* now in the file.                                                        *)
Finish ==
    /\ pc = "finish"
    /\ disk' = mem
    /\ pc' = "sleep"
    /\ excused' = excused \ {t \in Tokens : mem.positions[t].entry = "filled"}
    /\ UNCHANGED <<healthy, cooling, up, mem, bals, outside, fresh, stray, swaps>>

(* The process dies.  In the container this also happens in the sleep      *)
(* after a tick, when the dashboard ends, and the loop is started again at *)
(* once: a swap sent in that tick may still be in flight, and the file has *)
(* no intent of it.                                                        *)
Crash ==
    /\ pc # "down"
    /\ pc' = "down" /\ mem' = disk /\ bals' = <<>>
    /\ stray' = (stray \/ (pc = "sleep" /\ flight # <<>> /\ ~disk.pending))
    /\ UNCHANGED <<healthy, cooling, up, disk, outside, fresh, excused, swaps>>

-----------------------------------------------------------------------------
(* The chain, the endpoints and the market *)

Sold(swap) == IF swap.side = "buy" THEN Quote ELSE swap.token

Moved(swap) ==
    LET tok == IF swap.side = "buy" THEN swap.qty ELSE -swap.qty
        usd == IF swap.side = "buy" THEN -swap.usd ELSE swap.usd
    IN  [wallet EXCEPT ![swap.token] = @ + tok, ![Quote] = @ + usd]

(* The oldest swap (the account's nonces order them) is mined and          *)
(* succeeds: some endpoints do not know yet.                               *)
Mine ==
    /\ flight # <<>>
    /\ Moved(Head(flight))[Sold(Head(flight))] >= 0
    /\ wallet' = Moved(Head(flight))
    /\ \E behind \in SUBSET Endpoints :
          seen' = [e \in Endpoints |-> IF e \in behind THEN seen[e] ELSE wallet']
    /\ flight' = Tail(flight)
    /\ UNCHANGED <<healthy, cooling, up, pc, mem, bals, disk, price, fresh, stray,
                   excused, swaps>>

(* It reverts, or is forgotten. *)
Revert ==
    /\ flight # <<>>
    /\ flight' = Tail(flight)
    /\ UNCHANGED <<healthy, cooling, up, pc, mem, bals, disk, wallet, seen, price,
                   fresh, stray, excused, swaps>>

CatchUp ==
    /\ pc = "read"
    /\ \E e \in Endpoints :
          seen[e] # wallet /\ seen' = [seen EXCEPT ![e] = wallet]
    /\ UNCHANGED <<healthy, cooling, up, pc, mem, bals, disk, wallet, flight, price,
                   fresh, stray, excused, swaps>>

(* Seen only by a read. *)
Pool ==
    /\ pc = "read"
    /\ Elapse \/ Flap
    /\ UNCHANGED <<pc, mem, bals, disk, outside, fresh, stray, excused, swaps>>

Offers ==
    {[token |-> t, side |-> s, qty |-> q, usd |-> q * price[t]] :
        t \in Tokens, s \in {"buy", "sell"}, q \in 1 .. Worth}

Loop ==
    \/ Start \/ Wake \/ (\E e \in Endpoints : ReadBalance(e)) \/ ReadFailed
    \/ Sync \/ Hold \/ Finish
    \/ \E swap \in Offers, sent \in BOOLEAN, result \in {"hash", "nohash", "raise"} :
          Execute(swap, sent, result)

Next == Loop \/ Crash \/ Mine \/ Revert \/ CatchUp \/ Pool

Spec == Init /\ [][Next]_vars

-----------------------------------------------------------------------------
(* What the books guarantee *)

TypeOK ==
    /\ PoolTypeOK
    /\ pc \in {"down", "read", "sync", "decide", "finish", "sleep"}
    /\ mem \in State /\ disk \in State
    /\ bals \in Seq(Nat) /\ Len(bals) <= Len(symbols)
    /\ wallet \in [ToSet(symbols) -> Nat]
    /\ seen \in [Endpoints -> [ToSet(symbols) -> Nat]]
    /\ flight \in Seq(Swap)
    /\ price \in [Tokens -> Prices]
    /\ fresh \in BOOLEAN /\ stray \in BOOLEAN /\ excused \subseteq Tokens /\ swaps \in 0 .. MaxSwaps

(* reconcile.py: the tokens on which books and chain differ by more than   *)
(* tol_pct of the larger.                                                  *)
Larger(a, b) == IF a > b THEN a ELSE b

Divergences(internal, onchain, tol_pct) ==
    {s \in DOMAIN internal :
        LET base == Larger(internal[s], onchain[s])
        IN  100 * (base - internal[s] + base - onchain[s]) > tol_pct * base}

Held(s) == IF s \in Tokens /\ wallet[s] * price[s] < DUST_USD THEN 0 ELSE wallet[s]

Booked(s) == IF s = Quote THEN mem.stable ELSE mem.positions[s].qty

Anchored ==
    Divergences([s \in ToSet(symbols) |-> Booked(s)],
                [s \in ToSet(symbols) |-> Held(s)], 1) = {}

(* "the internal ledger can never drift from reality for more than one     *)
(* tick": at every decision the books hold what the wallet holds, whatever *)
(* reverted, was sent without being heard of or crashed before, with two   *)
(* exceptions.  An endpoint that answered may have been behind the chain;  *)
(* and in the one tick that begins after the process died in its sleep     *)
(* over a swap in flight, that swap may be mined after the balances were   *)
(* read.  The tick after that one is anchored again.                       *)
BooksAnchored == pc = "decide" /\ fresh /\ ~stray => Anchored

(* The entry price and time a stop is measured from are lost only for a    *)
(* reason: a read that showed the token as dust or without a price, a buy  *)
(* that was broadcast and not saved, a sale of the whole position that was *)
(* booked and did not happen.  A failed read, a crash or a recovery loses  *)
(* no entry.                                                               *)
EntryKept ==
    \A t \in Tokens :
        disk.positions[t].entry = "adopted" => t \in excused

-----------------------------------------------------------------------------
(* The inductive invariant behind the guarantees *)

(* But for a stray one, no swap is in flight when the loop decides.  One   *)
(* that is in flight while it reads is pending in the file and in memory,  *)
(* so that the tick decides nothing.                                       *)
FlightInv ==
    flight # <<>> /\ ~stray =>
        /\ pc # "decide"
        /\ pc # "sleep" => disk.pending
        /\ pc \in {"read", "sync"} => mem.pending

(* What was read at the head is still there when it is used. *)
ReadInv ==
    /\ pc = "read" => Len(bals) < Len(symbols)
    /\ pc = "sync" => Len(bals) = Len(symbols)
    /\ pc \in {"read", "sync"} /\ fresh /\ ~stray /\ ~mem.pending =>
          \A i \in DOMAIN bals : bals[i] = wallet[symbols[i]]

BooksInv ==
    pc = "decide" /\ fresh /\ ~stray =>
        \A s \in ToSet(symbols) : Booked(s) = Held(s)

(* The token is nowhere: not in the wallet, not on its way there, not in   *)
(* what an endpoint that is behind answers, not in what was read.          *)
Absent(t) ==
    /\ wallet[t] = 0 /\ \A e \in Endpoints : seen[e][t] = 0
    /\ \A i \in DOMAIN flight : flight[i].token = t => flight[i].side = "sell"
    /\ \A i \in DOMAIN bals : symbols[i] = t => bals[i] = 0

(* Memory and file may differ in the amounts of a position, but without a  *)
(* reason neither has one that the other lacks, and a token that both lack *)
(* is not there to be adopted.                                             *)
EntryInv ==
    \A t \in Tokens \ excused :
        /\ mem.positions[t].entry # "adopted" /\ disk.positions[t].entry # "adopted"
        /\ mem.positions[t] = None <=> disk.positions[t] = None
        /\ mem.positions[t] = None => Absent(t)

IInv == TypeOK /\ FlightInv /\ ReadInv /\ BooksInv /\ EntryInv

-----------------------------------------------------------------------------
(* What a comment can be read to claim and the loop does not do *)

(* "the internal ledger can never drift from reality", without the         *)
(* exception of a process that died in its sleep over a swap in flight.    *)
NeverDrifts == pc = "decide" /\ fresh => Anchored

=============================================================================
