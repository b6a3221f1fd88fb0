--------------------------- MODULE SupervisedLoop ---------------------------
(***************************************************************************)
(* The guardrailed loop and the chat that supervises it (agent/loop.py,    *)
(* agent/chat.py, agent/runtime.py, agent/guardrail/policy.py,             *)
(* agent/ledger.py, agent/portfolio.py).  They are separate processes that *)
(* share three files: runtime_state.json (written by the chats, read by    *)
(* all), ledger.jsonl (the rate limit is computed from it) and             *)
(* portfolio_state.json (the high-water mark).                             *)
(*                                                                         *)
(* runtime_state.json is written in place: it is emptied when it is opened *)
(* and filled a moment later, and whoever reads it in between, or after    *)
(* two writers garbled it, gets the defaults.                              *)
(***************************************************************************)
EXTENDS Integers, Sequences, FiniteSets

CONSTANTS
    Chats,         \* chat processes
    ChatTicks,     \* do chats use the "tick" command?
    NPairs,        \* allowed pairs on enabled chains
    Risk,          \* the committed caps: max_single_trade_usd, max_trades_per_hour
    Settings,      \* what "set cap" is used for, a set of <<field, value>>
    PctCap,        \* portfolio_value_usd * max_position_pct
    Amounts,       \* amounts the brain proposes; 0 is a hold
    Timeouts,      \* may execute raise although the trade went through?
    Hour,          \* an hour, in ticks of the clock
    Offset,        \* how far local time is ahead of UTC, in ticks
    Value,         \* portfolio_value_usd, which nothing writes
    MaxDrawdown,   \* max_drawdown_pct
    Worths,        \* what the wallet can really be worth
    MaxNow,        \* bound: time
    MaxTrades      \* bound: trades

Fields == {"max_single_trade_usd", "max_trades_per_hour"}

ASSUME SupervisedAssumption ==
    /\ "loop" \notin Chats /\ ChatTicks \in BOOLEAN /\ Timeouts \in BOOLEAN
    /\ NPairs \in Nat /\ Risk \in [Fields -> Nat]
    /\ Settings \subseteq Fields \X Nat
    /\ PctCap \in Nat /\ Amounts \subseteq Nat
    /\ Hour \in Nat /\ Offset \in Int
    /\ Value \in Nat \ {0} /\ MaxDrawdown \in Nat \ {0} /\ Worths \subseteq Nat
    /\ MaxNow \in Nat /\ MaxTrades \in Nat

VARIABLES
    now,       \* the clock
    file,      \* runtime_state.json, BAD when it does not parse
    ledger,    \* times of the "executed" events in ledger.jsonl
    hwm,       \* portfolio_state.json
    pc,        \* the step each process is about to take
    edit,      \* chats: the change a command makes, [field, value]
    draft,     \* chats: the state about to be written
    cfg,       \* traders: the caps of the tick in progress
    pair,      \* traders: the pair it is at
    amount,    \* traders: the amount about to be executed
    \* observers
    promised,  \* the state as the chats' replies have it
    told,      \* chats: the state their reply is going to announce
    warned,    \* traders: did the tick begin after the reply "Paused"?
    sincePause,\* trades of the loop while the file has said paused
    worth, peak,   \* of the wallet
    trades     \* what really happened, in order

shared == <<now, file, ledger, hwm>>
chatVars == <<edit, draft, told, promised>>
tickVars == <<cfg, pair, amount, warned>>
seen == <<sincePause, worth, peak, trades>>
vars == <<shared, pc, chatVars, tickVars, seen>>

Procs == {"loop"} \cup Chats

(* A cap that is not overridden is Unset. *)
Unset == -1
Overrides == [Fields -> Nat \cup {Unset}]

DEFAULT == [paused |-> FALSE, overrides |-> [f \in Fields |-> Unset]]
BAD == [bad |-> TRUE]

RuntimeState == [paused : BOOLEAN, overrides : Overrides]

Steps == {"idle", "update", "open", "write", "begin", "pair", "trade", "record"}

(* What a command changes. *)
Edits == [field : {"paused"}, value : BOOLEAN]
         \cup [field : {"overrides"}, value : Overrides]

(* load(): the defaults when the file does not parse. *)
Load == IF file = BAD THEN DEFAULT ELSE file

TradeRecord ==
    [at : Nat, amount : Nat, cap : Nat, disobeys : BOOLEAN, down : BOOLEAN]

NoEdit == [field |-> "paused", value |-> FALSE]

Init ==
    /\ now = 0 /\ file = DEFAULT /\ ledger = <<>> /\ hwm = 0
    /\ pc = [p \in Procs |-> "idle"]
    /\ edit = [c \in Chats |-> NoEdit]
    /\ draft = [c \in Chats |-> DEFAULT]
    /\ cfg = [p \in Procs |-> Risk]
    /\ pair = [p \in Procs |-> 1]
    /\ amount = [p \in Procs |-> 0]
    /\ promised = DEFAULT /\ told = [c \in Chats |-> DEFAULT]
    /\ warned = [p \in Procs |-> FALSE]
    /\ sincePause = 0 /\ worth = Value /\ peak = Value
    /\ trades = <<>>

Go(p, step) == pc' = [pc EXCEPT ![p] = step]

-----------------------------------------------------------------------------
(* The chat: pause, resume and set cap end in runtime.update.  status and  *)
(* the other questions read; status also marks the portfolio, as a tick    *)
(* does, see Mark.                                                         *)

Command(c, field, value, reply) ==
    /\ pc[c] = "idle"
    /\ edit' = [edit EXCEPT ![c] = [field |-> field, value |-> value]]
    /\ told' = [told EXCEPT ![c] = reply]
    /\ Go(c, "update")
    /\ UNCHANGED <<shared, draft, promised, tickVars, seen>>

Pause(c)  == Command(c, "paused", TRUE, [promised EXCEPT !.paused = TRUE])
Resume(c) == Command(c, "paused", FALSE, [promised EXCEPT !.paused = FALSE])

(* Fault: the overrides in the file are not read first. *)
SetCap_Fresh(c, f, v) ==
    Command(c, "overrides", [DEFAULT.overrides EXCEPT ![f] = v],
            [promised EXCEPT !.overrides[f] = v])

SetCap(c, f, v) ==
    Command(c, "overrides", [Load.overrides EXCEPT ![f] = v],
            [promised EXCEPT !.overrides[f] = v])

(* update(): load and change ... *)
Update(c) ==
    /\ pc[c] = "update"
    /\ draft' = [draft EXCEPT ![c] = [Load EXCEPT ![edit[c].field] = edit[c].value]]
    /\ Go(c, "open")
    /\ UNCHANGED <<shared, edit, told, promised, tickVars, seen>>

(* ... open the file, which empties it ... *)
Open(c) ==
    /\ pc[c] = "open"
    /\ file' = BAD
    /\ sincePause' = 0
    /\ Go(c, "write")
    /\ UNCHANGED <<now, ledger, hwm, chatVars, tickVars, worth, peak, trades>>

(* ... and write.  Over the text of another writer the result may not      *)
(* parse.                                                                  *)
Write(c) ==
    /\ pc[c] = "write"
    /\ \/ file' = draft[c]
       \/ file # BAD /\ file # draft[c] /\ file' = BAD
    /\ promised' = told[c]
    /\ sincePause' = 0
    /\ Go(c, "idle")
    /\ edit' = [edit EXCEPT ![c] = NoEdit]
    /\ draft' = [draft EXCEPT ![c] = DEFAULT]
    /\ told' = [told EXCEPT ![c] = DEFAULT]
    /\ UNCHANGED <<now, ledger, hwm, tickVars, worth, peak, trades>>

(* update_and_drawdown *)
Mark == hwm' = IF Value > hwm THEN Value ELSE hwm

Status(c) ==
    /\ pc[c] = "idle"
    /\ Mark
    /\ UNCHANGED <<now, file, ledger, pc, chatVars, tickVars, seen>>

-----------------------------------------------------------------------------
(* The tick *)

(* "Paused" is the last word, and nobody is taking it back. *)
ToldPaused ==
    promised.paused /\ \A c \in Chats : pc[c] \in {"update", "open", "write"} => told[c].paused

(* tick() returns: its locals are gone. *)
Return(p) ==
    /\ Go(p, "idle")
    /\ cfg' = [cfg EXCEPT ![p] = Risk]
    /\ pair' = [pair EXCEPT ![p] = 1]
    /\ amount' = [amount EXCEPT ![p] = 0]
    /\ warned' = [warned EXCEPT ![p] = FALSE]

(* Fault: the loop does not ask whether it is paused. *)
LoopTop_Unasked ==
    /\ pc["loop"] = "idle"
    /\ warned' = [warned EXCEPT !["loop"] = ToldPaused]
    /\ Go("loop", "begin")
    /\ UNCHANGED <<shared, chatVars, cfg, pair, amount, seen>>

(* run_forever's body; when paused it only logs and sleeps. *)
LoopTop ==
    /\ pc["loop"] = "idle"
    /\ ~Load.paused
    /\ warned' = [warned EXCEPT !["loop"] = ToldPaused]
    /\ Go("loop", "begin")
    /\ UNCHANGED <<shared, chatVars, cfg, pair, amount, seen>>

(* The chat's "tick" does not ask. *)
ChatTick(c) ==
    /\ ChatTicks
    /\ pc[c] = "idle"
    /\ warned' = [warned EXCEPT ![c] = ToldPaused]
    /\ Go(c, "begin")
    /\ UNCHANGED <<shared, chatVars, cfg, pair, amount, seen>>

(* _effective_cfg: the overrides as they are now, for the whole tick; then *)
(* the portfolio is marked.                                                *)
Begin(p) ==
    /\ pc[p] = "begin"
    /\ LET ov == Load.overrides IN
         cfg' = [cfg EXCEPT ![p] =
                    [f \in Fields |-> IF ov[f] = Unset THEN Risk[f] ELSE ov[f]]]
    /\ pair' = [pair EXCEPT ![p] = 1]
    /\ Mark
    /\ Go(p, "pair")
    /\ UNCHANGED <<now, file, ledger, chatVars, amount, warned, seen>>

(* trades_last_hour: the UTC time of an event is read as a local time. *)
TradesLastHour ==
    Cardinality({i \in DOMAIN ledger : ledger[i] - Offset >= now - Hour})

DrawdownAtCap == hwm > 0 /\ (hwm - Value) * 100 >= MaxDrawdown * hwm

Cap(p) ==
    IF cfg[p].max_single_trade_usd <= PctCap THEN cfg[p].max_single_trade_usd
    ELSE PctCap

(* Fault: the limit is compared the wrong way round by one. *)
Refused_OffByOne(p, listed) ==
    \/ ~listed
    \/ DrawdownAtCap
    \/ TradesLastHour > cfg[p].max_trades_per_hour

(* Guardrail.check, whitelists first, then breaker and rate limit. *)
Refused(p, listed) ==
    \/ ~listed
    \/ DrawdownAtCap
    \/ TradesLastHour >= cfg[p].max_trades_per_hour

(* Fault: the amount asked for goes out, clamped or not. *)
Approved_Full(p, a) == a

(* The amount that goes out: `clamped_amount_usd or amount_usd`, so that a *)
(* clamp to nought is no clamp.                                            *)
Approved(p, a) == IF a > Cap(p) /\ Cap(p) # 0 THEN Cap(p) ELSE a

NextPair(p) ==
    /\ pair' = [pair EXCEPT ![p] = pair[p] + 1]
    /\ Go(p, "pair")

(* The brain proposes a trade of a, or (0) none; the guardrail refuses it, *)
(* or it is on its way.                                                    *)
Decide(p, a, listed) ==
    /\ pc[p] = "pair"
    /\ pair[p] <= NPairs
    /\ \/ /\ a = 0 \/ Refused(p, listed)
          /\ NextPair(p)
          /\ UNCHANGED amount
       \/ /\ a # 0 /\ ~Refused(p, listed)
          /\ amount' = [amount EXCEPT ![p] = Approved(p, a)]
          /\ Go(p, "trade")
          /\ UNCHANGED pair
    /\ UNCHANGED <<shared, chatVars, cfg, warned, seen>>

Happens(p) ==
    /\ Len(trades) < MaxTrades
    /\ trades' = Append(trades,
         [at |-> now, amount |-> amount[p], cap |-> Cap(p),
          disobeys |-> p = "loop" /\ warned[p],
          down |-> (peak - worth) * 100 >= MaxDrawdown * peak])
    /\ sincePause' = IF p = "loop" /\ Load.paused THEN sincePause + 1
                     ELSE sincePause
    /\ UNCHANGED <<worth, peak>>

(* executed=True: the trade is there, its "executed" event is not yet. *)
Execute(p) ==
    /\ pc[p] = "trade"
    /\ Happens(p)
    /\ Go(p, "record")
    /\ UNCHANGED <<shared, chatVars, tickVars>>

(* executed=False: an "execute_attempt". *)
Attempt(p) ==
    /\ pc[p] = "trade"
    /\ NextPair(p)
    /\ UNCHANGED <<shared, chatVars, cfg, amount, warned, seen>>

Record(p) ==
    /\ pc[p] = "record"
    /\ ledger' = Append(ledger, now)
    /\ NextPair(p)
    /\ UNCHANGED <<now, file, hwm, chatVars, cfg, amount, warned, seen>>

TickEnd(p) ==
    /\ pc[p] = "pair"
    /\ pair[p] > NPairs
    /\ Return(p)
    /\ UNCHANGED <<shared, chatVars, seen>>

(* The feed, the brain or the backend raises: the tick is over. *)
TickError(p) ==
    /\ pc[p] \in {"pair", "trade"}
    /\ Return(p)
    /\ UNCHANGED <<shared, chatVars, seen>>

(* The backend raises although the trade went through. *)
LostAnswer(p) ==
    /\ Timeouts
    /\ pc[p] = "trade"
    /\ Happens(p)
    /\ Return(p)
    /\ UNCHANGED <<shared, chatVars>>

-----------------------------------------------------------------------------
(* The world *)

Clock ==
    /\ now < MaxNow
    /\ now' = now + 1
    /\ UNCHANGED <<file, ledger, hwm, pc, chatVars, tickVars, seen>>

Market(w) ==
    /\ w # worth
    /\ worth' = w
    /\ peak' = IF w > peak THEN w ELSE peak
    /\ UNCHANGED <<shared, pc, chatVars, tickVars, sincePause, trades>>

Chat ==
    \E c \in Chats :
        \/ Pause(c) \/ Resume(c) \/ (\E s \in Settings : SetCap(c, s[1], s[2]))
        \/ Update(c) \/ Open(c) \/ Write(c) \/ Status(c) \/ ChatTick(c)

Tick ==
    \E p \in Procs :
        \/ Begin(p)
        \/ (\E a \in Amounts, listed \in BOOLEAN : Decide(p, a, listed))
        \/ Execute(p) \/ Attempt(p) \/ Record(p) \/ TickEnd(p)
        \/ TickError(p) \/ LostAnswer(p)

Next == LoopTop \/ Tick \/ Chat \/ Clock \/ (\E w \in Worths : Market(w))

Spec == Init /\ [][Next]_vars

-----------------------------------------------------------------------------
(* What holds *)

DataOK ==
    /\ now \in Nat /\ file \in RuntimeState \cup {BAD}
    /\ ledger \in Seq(Nat) /\ hwm \in {0, Value}
    /\ pc \in [Procs -> Steps]
    /\ pc["loop"] \notin {"update", "open", "write"}
    /\ draft \in [Chats -> RuntimeState] /\ told \in [Chats -> RuntimeState]
    /\ promised \in RuntimeState
    /\ edit \in [Chats -> Edits]
    /\ cfg \in [Procs -> [Fields -> Nat]]
    /\ pair \in [Procs -> 1 .. NPairs + 1] /\ amount \in [Procs -> Nat]
    /\ warned \in [Procs -> BOOLEAN]
    /\ sincePause \in Nat /\ worth \in Nat /\ peak \in Nat
    /\ trades \in Seq(TradeRecord)

(* The shape of the state; the loop never writes the runtime state and no  *)
(* tick goes past the last pair.                                           *)
TypeOK ==
    /\ DataOK
    /\ \A p \in Procs : pc[p] \in {"trade", "record"} => pair[p] <= NPairs

(* A pause that has reached the file stops the loop within the tick it was *)
(* in: it trades at most once for each pair that tick had left.            *)
PauseBound == sincePause <= NPairs

(* With one chat nothing the operator was told gets lost on its way        *)
(* through the file: a later command keeps the pause and the caps that     *)
(* earlier ones set.                                                       *)
SettingsKept ==
    (\A c, d \in Chats : c = d) /\ (\A c \in Chats : pc[c] # "write") =>
        file = promised

-----------------------------------------------------------------------------
(* The inductive invariant behind the guarantees *)

(* The trades the loop's tick can still make. *)
Left == CASE pc["loop"] = "idle" -> 0
          [] pc["loop"] = "begin" -> NPairs
          [] pc["loop"] = "record" -> NPairs - pair["loop"]
          [] OTHER -> NPairs - pair["loop"] + 1

PauseInv ==
    /\ file # BAD /\ file.paused => sincePause + Left <= NPairs
    /\ ~Load.paused => sincePause = 0

(* With one chat, how its reply stands to the file at each of its steps. *)
SettingsInv ==
    (\A c, d \in Chats : c = d) =>
        /\ (\A c \in Chats : pc[c] # "write") => file = promised
        /\ \A c \in Chats :
             /\ pc[c] = "update" =>
                   told[c] = [promised EXCEPT ![edit[c].field] = edit[c].value]
             /\ pc[c] \in {"open", "write"} => draft[c] = told[c]
             /\ pc[c] = "write" => file = BAD

(* A tick that started before a pause has ever fewer trades left, and the  *)
(* file, the draft and the reply of a chat tell the same story.            *)
IInv == TypeOK /\ PauseInv /\ SettingsInv

-----------------------------------------------------------------------------
(* What the program says and does not do *)

(* chat.py: "Paused. The agent will not open new trades until resumed.":   *)
(* no tick of the loop that begins after that reply trades.                *)
PauseHonoured == \A i \in DOMAIN trades : ~trades[i].disobeys

(* guardrail/policy.py: "position / single-trade caps -> clamp rather than *)
(* reject": no trade is larger than the cap of its tick.                   *)
CapHonoured == \A i \in DOMAIN trades : trades[i].amount <= trades[i].cap

(* portfolio.py: it "makes the guardrail's drawdown circuit-breaker real": *)
(* no trade opens while the wallet is that far below its peak.             *)
BreakerReal == \A i \in DOMAIN trades : ~trades[i].down

=============================================================================
