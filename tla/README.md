# A verification project for the Sumplus trader on Injective

The program is a trading agent in Python. It decides with fixed rules, commits
every decision to a hash-chained receipt file before acting on it, sends spot
orders to Helix through a small contract, and is run unattended behind a
watchdog. This directory holds TLA+ modules that model its parts, TLC
configurations that check them on small instances, and TLAPS proofs of the
properties that matter most for every value of the constants.

Paths below are relative to the repository root.

## 1. Inventory

| Part | State it keeps | Operations | Talks to |
|---|---|---|---|
| live loop (`agent/run_live.py`), watchdog (`agent/ops/watchdog.py`) | `state` dict, restart counter, STOP file, heartbeat | launch, tick, reconcile, recover, sleep, restart, give up | state file, chain, decision tick, operator |
| state file (`agent/ops/state.py`) | `live_state.json`, replaced atomically | load, write | live loop, decision tick (`persist`) |
| decision tick (`agent/core.py`) | none of its own; returns a new state | decide, check, receipt, stage, execute, log, book | all of the below |
| strategy (`agent/strategy`) | none (a function) | decide, rank entries | decision tick |
| policy engine (`agent/policy/engine.py`) | none (a function) | check | decision tick |
| receipt trail (`agent/policy/receipt.py`) | `receipts.jsonl` | head, append, verify_chain | any process that ticks; verifier |
| execution log, verifier (`execlog.py`, `commit.py`) | `executions.jsonl` | record, verify_executions, verify_live | decision tick, dashboard, public |
| Injective backend (`agent/execution/injective_backend.py`) | none; the subaccount is on the chain | size, send, wait, read balances | `SpotExecutor` contract, indexer |
| supervised loop (`agent/loop.py`, `guardrail`, `ledger.py`, `portfolio.py`) | `ledger.jsonl`, high-water mark | tick over the allowed pairs | brain, backend, runtime settings |
| chat (`agent/chat.py`, `agent/runtime.py`) | `runtime_state.json` | pause, resume, set a cap, status, tick | supervised loop, through the file |
| backtest (`backtest/`) | portfolio, NAV and drawdown histories | champion's and challenger's decide, execute, mark, rebaseline; reports | nothing |
| abstention ledger (`agent/abstention`) | `abstentions.jsonl` | record, mark to market, summary | decision ticks of any process, dashboard, simulator |
| nonce manager, RPC pool (`agent/ops/nonce.py`, `rpc.py`) | reservations; endpoint health | sync, reserve, confirm, fail; call | BSC nodes; the pool also serves the BSC balance reads |
| `SpotExecutor` contract | owner, exchange subaccount | deposit, withdraw, market and limit order | exchange precompile |
| simulator (`agent/simulate.py`) | its own state, the shared files | reset, replay | the same receipt files |
| BSC books (`agent/ops/onchain.py`, `reconcile.py`, `execution/twak_backend.py`) | none; the wallet is on the chain | read one balance, overwrite the books, compare, swap | RPC pool, `twak` program, live loop |
| dashboard (`agent/web.py`) | none | overview, executions, replay, verify, feed, equity | the audit files the loop writes |
| live-trail script (`scripts/run_live_trail.py`) | none | a number of ticks | brain, guardrail, backend, `ledger.jsonl` |
| deployment (`deploy/`, `Dockerfile.*`, `railway.json`, `agent/identity/commit_publish.py`) | the data volume and its markers | keys, reseed, seed, spawn, wait, restart; publish the config's hash | loop and dashboard as children, the platform |
| cli, brain, data feeds, other scripts | no state that the others read | | |

What is hard here:

* **crashes and restarts**: an order is irrevocable once a node has it, and the
  process can die before, during and after the wait for it. The intent is staged
  on disk first and recovered by reconciling, never by sending again;
* **late answers**: the wait for a transaction and the call of a swap tool both
  time out while the trade may still happen; endpoints of one pool lag behind
  each other;
* **unlocked files**: receipts, executions, abstentions, runtime settings and the
  ledger are shared by processes that never lock them, and some are rewritten in place;
* **stale values**: a drawdown marked an hour ago, a config read at start, a
  pause flag read at the top of a loop, a portfolio value nobody updates;
* **numbers at a boundary**: cent rounding after a clamp, lots, dust under a
  dollar, orders under the minimum notional, a cap of zero;
* **several reads, one answer**: balances come one call at a time from nodes that
  may be behind, and a page of the dashboard is joined from files read one after
  the other while the loop writes them;
* **restarts by others**: the container is killed between any two commands of its
  entry point and started again by the platform, over the volume it left;
* **something must happen**: the STOP file must end the process, a staged intent
  must be resolved, the last rung of the ladder must end flat, an endpoint that is
  back must be found, an abstention must be marked, a dead child must be replaced.

`PROJECT.json` lists every component, and every hazard at its line with the
properties that would catch it going wrong.

## 2. Modules

| Module | Models | Composes |
|---|---|---|
| `AuditedTrader` | what the live loop promises: decide on the record, send at most one order per decision, knowing all earlier fills | |
| `LiveLoop` | watchdog, loop, tick, state file, trail, order path, chain, operator, crashes | refines `AuditedTrader` |
| `PolicyEngine` | `PolicyEngine.check` and `_finalise` with integer cents | |
| `Survival` | `survival.decide` | extends `PolicyEngine` |
| `Desk` | one account: reconcile, mark, decide, check, size, fill, book, with real amounts | extends `Survival` |
| `SupervisedLoop` | the supervised loop, any number of chats, the settings file | |
| `TrailScript` | the live-trail script as a third trader on the same ledger | extends `SupervisedLoop` |
| `ReceiptTrail` | any number of writers, the two logs, torn lines, the verifier, the simulator's reset | |
| `Dashboard` | the handlers that read several files while the loop writes them | extends `ReceiptTrail` |
| `AbstentionLedger` | the ledger of declined trades and its two calls in a tick, for any number of processes | |
| `NonceAllocator` | what a sender may rely on: increasing nonces, and a stop for good | |
| `RpcPool` | the endpoint pool with its cooldowns | |
| `ChainBooks` | the BSC books: balance reads, overwriting, twak swaps, dust and entries | extends `RpcPool` |
| `NonceManager` | reservations, lagging counts, the sender's reports, other senders | extends `RpcPool`, refines `NonceAllocator` |
| `SpotExecutor` | the contract, its exchange subaccount, the backend's sizing and its two balance reads | |
| `Backtest` | portfolio accounting, champion, challenger, hourly loop, reported drawdowns | |
| `Deployment` | the entry point over its data volume, restarts, which config runs, is shown and is published | |
| `MC_*` | the instances TLC checks | the module of the same name |
| `*_proofs` | theorems and proofs | the module of the same name and those it extends: `TrailScript_proofs` also holds those of `SupervisedLoop`, `Dashboard_proofs` those of `ReceiptTrail` and `Deployment`, `AbstentionLedger_proofs` those of `Backtest`, `ChainBooks_proofs` those of `NonceManager` |
| `Sums` | lemmas on induction over numbers and finite sets and on sums | nothing; used by `AbstentionLedger_proofs` and `SpotExecutor_proofs` |

### LiveLoop

The program is one sequential process; it is cut into steps where something
outside can see or intervene: a file access, a chain call, an await. `pc` names
the next step. `Launch`, `Exit` are `run()`; `WatchdogStart/Return/Restart/
Quit/GiveUp` are the branches of `run_with_watchdog`; `Boot` is the start of
`_loop_once_forever` (config and state read); `TickStart`, `LoopReturn` its
`while` test; `Reconcile`, `HoldOnReadFailure`, `RecoverPending` the three ways
through steps 1 and 2 of the loop; `Decide` and `DecideTorn` the receipt;
`Stage` the `persist` call; `SkipOrder`, `Broadcast`, `AwaitPlaced`,
`AwaitFailed` the backend; `Record` the execution log and the booking; `Finish`
the snapshot; `Wake` the end of the sleep. `Raise`, `Cancel`, `Crash` can strike
at any step; `Mine` and `Drop` are the chain; `TouchStop` and `EditConfig` the
operator. Balances and positions are represented by the set of this trader's
orders whose fills they contain (`view`); a receipt is its place in the trail,
which is also the cid of its order.

`CrashWhileSettling` says whether the process may die in the sleep between two
ticks while a transaction of its own is still unmined. It is FALSE where the
guarantee is stated, TRUE in `LiveLoop_refire`, which shows what happens otherwise. `Wake`
needs the mempool to be settled: the sleep between two ticks (minutes) is taken
to be longer than a transaction lives in the mempool.

### PolicyEngine, Survival, Desk

One account with one risky asset. Cash is in cents, holdings in whole lots, a
price is cents per lot, percentages are compared by cross multiplication. A tick
is one step: it reads a price (or none), a momentum and volatility reading, the
age of the data and the time since the last tick, reconciles (dust is dropped,
unknown holdings adopted), marks NAV, decides, checks, sizes and sends; the
outcome of the order is an input: filled, placed but not filled, failed, or
filled although the wait timed out. `trades_last_hour` is the constant 0 the code
passes. `Spread` is the distance between feed price and book.

### SupervisedLoop

Processes are the loop and the chats. `Command`, `Update`, `Open`, `Write` are
`runtime.update`: load, change, truncate, write; `BAD` is the file between the
last two, which `load` answers with its defaults. `LoopTop` reads the flag,
`Begin` the effective config and the high-water mark, `Decide` takes any amount
the brain may propose and applies the guardrail, `Execute` and `Record` are
separated by the await of the backend; `LostAnswer` is a swap that happened
behind an exception.

`TrailScript` adds the script, which reads its caps once for all its ticks
(`ScriptStart`), asks the brain up to three times (`BrainDown`), passes the same
guardrail with no drawdown (`ScriptDecide`), swaps and records in two steps, and
never looks at the pause. A scene says who is there, so that one run covers the
loop with a chat (`talk`), the loop as hours pass (`alone`) and everybody trading
at once (`crowd`) without their product.

### ReceiptTrail

A file is its complete lines and whether the last one is ended; `JUNK` is a line
that does not parse. A hash is the sequence of bodies it commits to, that is,
sha256 without collisions. A tick is `Decide` (head read), `AppendReceipt` or
`TornAppend`, `Execute`, `Log` or `TornLog`, and `Lose` where the process dies.
The verifier reads the receipts and the executions in two steps. A scene is the
writers that are there, and whether the simulator is started, the verifier run or
the dashboard open.

`Dashboard` adds the handlers of `web.py` that read more than one file:
`/api/executions` (`OpenExecutions`, `ShowExecutions`) and `/api/overview`, which
reads the equity curve twice; and `Replay`, what `/api/replay` finds of a receipt
by recomputing its hash and its link. Any step of the loop may come between two
reads. Feed and equity pass one file on and need no state.

### ChainBooks

A tick reads the balances one by one (`ReadBalance`, each a call of `RpcPool`, so
the endpoint can change in the middle), then overwrites the books (`Sync`) or
holds (`Hold`, `ReadFailed`). An endpoint answers with the balances of the block it
has reached (`seen`), which may lack the last swaps; it catches up at any time.
`Execute` is `twak`: broadcast or not, with a hash, without one, or past its time
limit; a hash is booked before the swap is mined, and the swap can still revert
(`Revert`). Swaps in flight are a queue, in the order of the account's nonces.
`Crash` strikes at any step, in the sleep after a tick too, where the container kills
the loop when the dashboard ends and starts it again at once: a swap sent in that tick
is then still in flight, its intent cleared, and the tick that follows may read the
balances before it is mined and even send a second one. `stray` observes this death,
until the tick after it is over. `Wake` needs an empty queue, for the reason given for
`LiveLoop`. A position's entry is `filled`
when this loop bought it and `adopted` when a read found it; prices move between
ticks and can be missing, which is how a holding becomes dust. `excused` observes
the reasons for which an entry may be lost.

### AbstentionLedger

A tick records a declined trade (`BeginRecord` reads the file, `AppendLine`
appends) or does not (`Trade`), and then marks what is old enough: `MarkRead`
reads and marks in memory, `OpenFile` empties the file, `WriteFile` fills it. A
tick whose read meets a broken line raises (`Raise`; in `BeginRecord` nothing has
happened yet, so that is no step). Processes interleave at every one of these
steps; what another process has put into the emptied file sticks out behind the
new text if it is longer. One token stands for all; when the feed has no price for
it, `MarkNothing`. Time is the age of a record up to `MinAge`. The identity of an
abstention, what was recorded and what was marked are observers.

### RpcPool, NonceManager

A call of the pool is one step, since the code is synchronous: the candidates
before the first that answers fail and start to cool down. `up` is which endpoints
give valid answers just now and changes at any time (`Flap`); `cooling` is what is
left of `unhealthy_until`. The pending count an endpoint answers is anything up to
the true one (`Counts`), so it may fall from one read to the next. `sync` is
`Poll`, and is part of `OnConfirmed`, `OnFailed` and `FirstReserve` as it is in
the code; when it raises, what the caller did before it stays done. Nothing in
the repository but the tests constructs the manager, so the sender is modelled
from the methods' contract: it reports what it was handed, confirms what is mined,
and may report a failure for a transaction that is not lost.

### SpotExecutor

The functions of the contract are actions on its bank balance and its subaccount;
a call that is not the owner's or that the exchange refuses has no effect.
`ExecuteSwap` sizes an order as `_size` does (quantity rounded down, worst price
away from the reference, neither if the tick sizes cannot be had) and leaves it in
`tx`; the loop goes on whether it is mined or not (`PlaceSpotMarketOrder`,
`Revert`). `Match` and `Expire` are the exchange: a market order ends with the block,
a limit order rests and keeps its margin out of the available balance. `ReadInj`
and `ReadUsdt` are the two calls of `read_subaccount_balances`, between blocks.
The two number formats are modelled with small scales that differ from each other.
Orders by hand, deposits and a transfer of the contract happen at any time.

### Backtest

The hourly loop decides up to `MaxTrades` times, each time with the drawdown
marked at the end of the previous tick, then marks the NAV (`NextHour`). A
position carries its cost, so the average entry price is cost / qty and no
division is needed to compare with it. What the history says is an input: the
asset the entry rule ranks best, its size, the asset with the strongest momentum;
before `Warm` hours of history there is none. A run starts at the first hour or,
as the weekly walk does, in the middle (`Starts`). `nav_history` and
`drawdown_history` are kept whole, since `rebaseline` overwrites the last drawdown
and the reports (`max_drawdown_pct`, `per_regime_drawdown`, `first_breach_hour`)
are functions of them. A purchase is filled at the price raised by the slippage
(`Fill`), in whole lots, rounded down; the lots in the instance are fine enough (58 or
more to the smallest trade) for that not to move a stop. `StrategyAssumption` is what
the champion's guarantee needs of its configuration, and what the committed one has: a
tick has a decision for every asset (four of each), and the slippage of a purchase
alone does not reach its stop. The challenger's cadence hour is a test on the clock, so the loop lets it buy
`MaxTrades` times in such an hour, where its comments say one fixed amount per
cadence and four buys a day; the model follows the code.

### Deployment

`phase` is the command of `entrypoint.railway.sh` that is next: `Keys`, `Reseed`,
`Mark`, `Seed`, `SeedState`, `Spawn`, `WaitExit`. The script has no `set -e`, so a
command that fails is passed over; `Kill` strikes between any two, and a copy it
strikes is left in part. The volume's files are absent, in part, from the image's
demo, or live. `LoopTick` is all of `LiveLoop`, seen from the volume; `LoopDies` and `DashDies`
are the children. `Restart` is the platform, a bounded number of times per
deployment, `Deploy` the operator with another environment, `TouchStop` the
operator's STOP. `LoopConfig`, `WebConfig` and `PublishedConfig` are the three
places that choose a strategy file from the environment; the publisher's chain comes
from its `--chain` argument, which counts before the backend (`ResolveChain`).

## 3. Runs

| Run | Checks | Instance, and why it is enough |
|---|---|---|
| `live_safety` | `StopBound`, `BooksAreReal`, `PolicyNotOlder`, `CrashesBounded`, `RecoverBeforeDecide`, `IntentNeverReissued`, refinement of `AuditedTrader`, `StopObeyed`, `IntentResolved` | 2 receipts, 2 launches, one restart, one edit of the config, under `FairSpec`: an order, its recovery and another order, with a crash at every step and a relaunch on either side |
| `desk_safety` | `ExposureBounded`, `NoRiskInDrawdown` | the committed Injective config, prices 10% apart, all four outcomes, stale and missing data, immediate relaunch |
| `desk_gate` | `SurvivalGate`, `Flattens` | falls of a fifth per tick, six buys, a tight book, orders that fill |
| `supervised` | `PauseBound`, `SettingsKept`, `RateBound`, `CapBinds` | the three scenes, one chat, two pairs, time-outs, caps lowered to nought, three half hours, four trades |
| `trail` | `ChainIntact`, `NoFalseAlarm`, `Rooted`, `OrdersBacked`, `ExecutionsBound`, `ReplayAgrees`, `BoardHonest` | three scenes: one writer with the simulator's reset and the verifier; one writer with the dashboard; two writers with different configs. Three receipts, every torn write |
| `abstention_keep` | `LinesGenuine`, `LedgerKept`, `EventuallyMarked` | two processes, two abstentions, a price above and one below the reference, one death at any step, the simulator's reset: an append inside a rewrite, a torn append, a mark before and after each |
| `nonce_pool` | `NoHole`, refinement of `NonceAllocator`, `PoolRecovers` | two endpoints, a cooldown of two ticks, three nonces, an account with and without history: a lagging answer after a fresh one, a foreign transaction between two reservations, all endpoints down inside a report |
| `backtest_safety` | `TickServiced`, `ReportsAgree` | both strategies, two assets, five hours from either start, crashes of a quarter; hold limit, cadence and cooldown of two hours so that each runs out; a regime boundary inside the hours |
| `executor_custody` | `BudgetKept`, `ReadWithinStake` | two orders, by the backend or by hand, two sends, one movement of funds or transfer, prices further apart than the slippage: a send mined in the middle of the next read, a partly filled limit order across a read |
| `books` | `BooksAnchored`, `EntryKept` | two endpoints, one risky token, two swaps, prices 0, 1 and 2 around a dust line of 2: a swap mined between the two balances of one read, a lagging endpoint after a fresh one, a holding that falls into dust and comes back, a death in the sleep over a swap in flight and a second swap sent behind it |
| `deployment` | `CarriedOver`, `ReseededOnce`, `PublishedIsRun`, `Revived` | three deployments with any of the environments, two restarts each, under `FairSpec`: a kill inside the reseed and one after it (a reseed cut short before its marker leaves the next deployment free to reseed, so the trail is overwritten at most once per deployment), a seed that does not decode and a later deployment without one, configs unset, empty and named, hashes published with and without `--chain`. A seed configured after the loop made its own state file occurs too; it is skipped and `CarriedOver` says nothing of it (see below) |
| `deployment_stop` | `StopStays`, violated | one environment, one restart: STOP is touched, the loop ends, the platform starts the container again, `run()` removes the file and the loop trades |

Deadlock is checked in `nonce_pool`, whose pool can always be called, and in
`executor_custody`, whose loop can always read. It is not in the others: the loop may be down with no launch left, the other
systems may use up their bounds, and a backtest ends.

The type invariants and the inductive invariants are not among the runs'
properties, because they are proved (section 4). Any of them can be added
to the configuration of its module's run, as `FundsInv`, `CapInv`, `ServiceInv`,
`PeakInv` and `DeployInv` were before their proofs (`ReadInv` too, with the integers
of its existential cut to -4 .. 4). So can `OrdersAuthorised`, `NoBlindOrder`,
`TornTrailHalts`, `NoNonceTwice`, `GapIsReal` and `FailClosed`, which are proved
and follow from the two refinements or stand beside them.

Each property is broken by a mutant of a modelled definition, a bug of the kind
that code invites (recovery that sends again, a counter that is not stored, the
first rung that matches instead of the last); the definitions with an underscore
in their name (`RecoverPending_Resend`) are these mutants and are used by nothing
else.

### Fairness

`LiveLoop`: weak fairness of the process's own steps, because every call it makes
returns or times out; weak fairness of the chain, which mines or forgets what it
holds; strong fairness of `RecoverPending`, a balance read that is retried every
tick and fails only now and then. Nothing is assumed of the operator, the
supervisor or the faults, which can still keep the process from anything but
ending. `Desk`: the loop ticks for ever. `NonceManager`: whoever uses the pool
calls it again, as a loop does every tick, and time passes; nothing is assumed of
the endpoints. `AbstentionLedger`: time passes and a process that ticks goes on
ticking; strong fairness of the priced mark, because the feed has a price for the
token now and then and every tick asks. `Deployment`: the script goes on to its next
command and the platform starts a container that exited, while it has restarts
left; nothing is assumed of the children or the operator. The other modules state
no liveness.

### What the code does not do

Besides `deployment_stop`, some configurations end with a violation in TLC and are
not in the list of runs: the property states what a comment or a document of the repository says
(quoted above its definition), and the trace is what the code does instead.

| Configuration | Property | What it shows |
|---|---|---|
| `Backtest_gate` | `EliminationReported` | the elimination check reads drawdowns from a high-water mark the strategy lowers, so two falls that together pass 6% go unreported |
| `LiveLoop_refire` | `NoBlindOrder` | an order whose wait timed out is taken for failed and its intent cleared; a process that dies in the sleep right after (`CrashWhileSettling`) can decide again before the order is mined |
| `ChainBooks_anchor` with the invariant added | `NeverDrifts` | the process dies in the sleep after a tick that sent a swap and is started again: the next tick reads the balances, the swap is mined, the tick decides on the old ones. `BooksAnchored` excepts that tick and no other |
| `Deployment_volume` with the invariant added | `LateSeedCarried` | a cutover snapshot configured after the loop has made its own state file is skipped: that deployment trades on the fresh state |
| `Deployment_volume` with the invariant added | `CommitMatchesRun` | without `STRATEGY_CONFIG`, a hash published for Injective (by `--chain injective` or by the backend) is that of the Injective config, while the loop runs `strategy.json` |
| `Desk_phantom` | `LadderFollowsLosses` | holdings under a dollar vanish from NAV while the high-water mark stays: at a constant price a desk of ten dollars enters stablecoin mode |
| `AbstentionLedger_break` | `BookkeepingHarmless` | a torn line in the ledger makes the mark raise after the order of the tick was sent, in every later tick |
| `LiveLoop_safety` with the property added | `GivesUpOnConsecutiveCrashes` | the restart counter is never reset; `CrashesBounded` is what holds instead |
| `LiveLoop_safety` with the invariant added | `ReceiptNamesConfigRan` | after an edit receipts name a config the loop does not run; `PolicyNotOlder` is what holds instead |
| `Desk_rate` | `TradesSpaced` | the exposure clamp returns before the rate limit |
| `Desk_stop` | `StopHonoured` | an exit that did not fill is adopted again at the fallen price |
| `Desk_flatten` | `Flattens` | with the bid under the feed price a full exit is sized past the holding and reverts, every tick |
| `TrailScript_pause` | `PauseHonoured` | a loop that wakes while the settings file is empty reads the defaults and trades |
| `TrailScript_cap` | `CapHonoured` | a cap of 0 lets the full amount through |
| `TrailScript_breaker` | `BreakerReal` | the drawdown breaker compares a value nobody updates |
| `TrailScript_control` with `Offset = 3` | `RateBound` | outside UTC the hour that is counted is shifted |
| `Dashboard_trail` with the invariant added | `ReportsBound` | a trade between the verifier's two reads is reported as unbound |

`RateBound` also says what several traders can do: each of them checks the ledger
before its order and records after it, so the hourly limit of the config is passed
by one trade per trader beyond the first. And `railway.json`, whose restart policy
`Deployment` takes, names `Dockerfile.display`, the image without the loop; the
entry point says of the live container too that Railway restarts it.

## 4. Proofs

TLAPS checks the theorems below for every value of the constants the named
assumptions allow: any restart limit, any number of chats, pairs and writers, any
ladder and caps, and any of the bounds.

**`LiveLoop_proofs`**, from `ConstantsAssumption`. `CoreInv` relates, step by
step, memory, state file, trail and chain: what the last receipt authorises when
an order is about to go out (`SendReady`, `AwaitReady`), how the pending intent in
memory and on disk differ at each step (`StepPending`), how many orders can
follow the STOP file (`StopCount`). Without it none of the guarantees is
inductive: that an order's receipt is unused depends on the step the loop is at.
`TypeCorrect`, `Binding`, `StopIsPrompt`, `NoPhantoms`, `TornTrailTheorem`,
`RecoveryFirst`, `IntentNumbers` follow from it. `RulesNamed` (no receipt names a
config older than the one that decided) and `RestartsBounded` rest on `RulesInv` and
`CountInv`, which tie the loaded config and the crash count to the step. `SettledInv` adds that nothing
is in flight from the reconcile to the order and needs the assumption
`CrashWhileSettling = FALSE`; from it follow `NoRefire` and `Implementation`, the
refinement of `AuditedTrader`.

**`Desk_proofs`**, from `PolicyAssumption`, `SurvivalAssumption`,
`DeskAssumption`. `DeskTypeCorrect`: cash and lots never go negative.
`ExposureTheorem`: the arithmetic from the engine's clamp over the cent rounding
to the lots that fill. `LadderTheorem`: the rung the engine saw forbids the side
that fills.

**`TrailScript_proofs`**, from `SupervisedAssumption` and, where the script takes
part, `ScriptAssumption` (finitely many chats, none of them named like the script).
Of the loop and the chats, `SupervisedTypeCorrect`;
`PauseTheorem` by the invariant `PauseInv` (trades since the pause plus pairs left
in the running tick never exceed the pairs); `SettingsTheorem` for one chat by
`SettingsInv` (what is in the file, in the draft and promised, at each step).
`TrailTypeCorrect`, `TrailPause` and `TrailSettings` carry the three over to the
system with the script in it, whose steps leave every variable those invariants
mention alone or only add to the history. `CapTheorem` by `CapInv`: the cap that
is compared with a trade is the one its trader holds when it trades, so a trader
past the check must be known to be within it. `RateTheorem`, with the hypothesis
`Offset <= 0` (the local clock is not ahead of UTC; `TrailScript_control` with
`Offset = 3` is the counterexample without it), is a counting argument over
`RateInv`. For every instant `t`, the trades since `t` are at most the ledger's
entries since `t` and the traders that have traded and not recorded yet; and while
any trader stands between its check and its trade, the trades of the last hour and
all such traders together are within the limit plus one per trader beyond the
first. The first is what makes a check of the ledger say something about trades,
the second is what a check establishes and every trade of another uses up by one.
`QuietInv` says that with no command the caps are the committed ones.

**`Dashboard_proofs`**, from `TrailAssumption` and `BoardAssumption`. Of the trail,
`CrewInv`: only a writer of the
scene is ever in a tick. `RootedTheorem` by `RootInv`:
any number of writers can fork the chain and do nothing worse. `ChainTheorem` and
`AlarmTheorem` by `ChainInv` for one writer: its draft extends the last line and
the verifier's half-read copy is a prefix. `OrdersTheorem` and `BoundTheorem` by
`OrderInv`: an order's receipt was a complete line before the order existed.
`BoardTheorem` is the step to the dashboard, which only reads: with it every
behaviour is one of the trail, and the theorems above hold of it. `ReplayTheorem`
and `HonestTheorem` hold for any number of writers and rest on `BoardInv`: a receipt's
number is the number of receipts its hash commits to (`WellMade`), so that in a
chain that verifies no two lines share a number and replay, which takes the first
line with a number, finds the right one; an execution's hash leads to a receipt that
allowed it (`SignedFor`), wherever the line now is; and what a handler has read and
not used yet is of that kind too (`PageInv`).

Of the deployment, from `DeploymentAssumption`: `DeployInvariant`, for any environments
and any number of restarts and deployments, and from it `CarriedTheorem`,
`ReseedTheorem` and `ConfigTheorem`. `SeedInv` reads the state file as evidence: if it
is absent or was made by the loop, no seed was configured when the script last found no
file (one that came later is not meant).
`ReseedInv` is about the moment between the copy and its marker: after an overwrite that
left no marker, the script has not passed the reseed again, so nothing is live that a
second overwrite could destroy. `ConfigInv` ties what ran and what was published to the
environment of this deployment, for either chain the publisher may be told; the three
rules for choosing a file are compared in one step from there.

**`AbstentionLedger_proofs`**, from `LedgerAssumption`. `LedgerTypeCorrect` and
`GenuineTheorem` for any number of writers, by an invariant in terms of sets: the
file is a sequence over the genuine records and `JUNK`, a draft is one over the
genuine records, and every step builds sequences over the same sets. The drafts
have to be in it, since a rewrite is made of what was read before. `KeptTheorem`:
one process that does not die in a write loses no abstention and changes no mark.
`LinesKept` states it of the file, and `HandInv` is what the process has in hand at
each step of its tick (the copy it read, or the copy with some lines marked), in
which everything is still to be found while the file is empty.
`LedgerTheorem` is the rest of `LedgerKept`, that the net the summary shows is that of
every mark ever made: the sum over the lines and the sum over the marks are of the
same amounts, because each line has its own number.

Of the backtest, from `BacktestAssumption` and `StrategyAssumption`:
`BacktestTypeCorrect` (no purchase overdraws the cash: the cost with its fee, both
rounded, against what is there). `ServiceTheorem` for any number of assets, any prices
and any signals, by `ServiceInv`: the decisions left in a tick are at least as many as
the exits that are due, which is why `N <= MaxTrades` is needed; every exit
uses up one of each, and a purchase never adds an exit in its own hour, which is where
the slippage comes in. `ReportsTheorem` for every NAV curve of any length
and any regime boundaries: the worst fall from a peak inside one regime and from a peak
carried into it give the worst of the curve, where `max_drawdown_pct` is a fold whose
state after n steps is characterised by an induction on n. What it says of the
challenger's elimination rests on `PeakInv`: the mark a drawdown was measured from is
the highest of the initial cash and the curve up to that hour.

**`Sums`** holds what those proofs and the next ones share. The library's induction
rules have an operator for a parameter; the ones here are stated with a set in its
place (`NumberInduction`, `SetInduction`), and proved from the well-foundedness of the
natural numbers. With them the recursive function under the library's sum is shown to
exist and to be unique, and from that the sum loses, gains and changes one term
(`SumTake`, `SumGrow`, `SumChange`), ignores terms that are zero (`SumOnPart`) and
keeps an inequality that holds term by term (`SumsWithin`).

**`ChainBooks_proofs`**, from `PoolAssumption` and `BooksAssumption`.
`BooksInvariant`, for any number of endpoints and tokens, and a process that may die
at any step. `AnchorTheorem`: when the loop decides on a read none of whose answers was
behind, and not in the tick after a death in the sleep over a swap in flight, the books
and the wallet differ by nothing the reconcile check would report. It needs that a swap
in flight is pending in memory and in the file unless it is stray (`FlightInv`) and that
a read in progress agrees with the wallet as far as it goes (`ReadInv`). The exception
is a condition of the property; no behaviour is excluded. `EntryTheorem`: a token's entry price is
only lost for one of the listed reasons; `EntryInv` compares memory with the file, since a
crash replaces one by the other, and adds that a token neither of them has is
`Absent`: not in the wallet, not on its way, not in an old or half-read answer.

Of the nonce manager, from `PoolAssumption` and `NonceAssumption`,
`NonceInvariant`: what was handed out is increasing and below `next`, and all from
the first nonce to `next` was handed out or is below the largest count read; the
gap flag is only set beside a failure or an early question. `NoReuse`, `HoleFree`,
`GapTheorem` are its parts, `ReadTheorem` and `FailTheorem` its steps, and
`AllocatorTheorem` the refinement, for any number of endpoints and any answers.

**`SpotExecutor_proofs`**, from `ExecutorAssumption`. `BudgetTheorem`: whatever
fills it, in parts or at once, a market buy costs at most the amount the policy
engine let through plus the slippage and one price tick per lot, and a market sell
is of lots worth at most that amount and brings at least the reference price less
the same, for any units, tick, slippage and prices. `OrdersInv` keeps the terms an
order was sized to (`Terms`: lots and worst price against amount and reference
price), from the backend's call through the transaction to the order log; `FillsInv`
keeps what its fills took within its lots and its price (`Within`). The lemmas under
it are about integer division: the floors as the code nests them, with the scale, the
lot and the tick.

`FundsTheorem`: no balance goes negative and what is available is there, through any
sequence of orders, partial fills, expiries, deposits and withdrawals, for any units.
The type invariant alone is not inductive, since a fill could take what another order
has locked; `FundsInv` says that balances are whole numbers of cents and lots and that
what is in the subaccount and not available is exactly the sum of what the orders lock.
`ReadTheorem` is `ReadWithinStake` for any number of orders between the two calls.
`ReadInv` says by how much the lots that were read are off in the middle of a read: by
one number per order at stake, which lies between what the order has already traded
and what it had locked (`Drift`), and by what was moved. When the second call comes,
each order's part of the error, its lots at the price and the cents it now locks
together, is at most all its lots at the highest price (`OrderOff`; a buy never pays
more, which is `CapInv`), and the sum of the parts is at most the sum of the bounds.
`ExecutorAssumption` asks for finitely many prices, without which there is no highest.

Only model-checked:

* `StopObeyed`, `IntentResolved`, `Flattens`, `PoolRecovers`, `EventuallyMarked`,
  `Revived`: liveness under fairness, out of the prover's reach.
* `SurvivalGate`: how deep a drawdown gets depends on how far prices fall between two
  ticks, which only the instance says; the rules do not bound it by themselves. With a
  fall of two fifths in place of one fifth TLC finds the gate passed by a single full
  position, and with smaller falls the exits count, which are capped by the size of a
  trade and spaced by the rate limit, beside dust that nobody sells.
* The configurations of section 3 that end with a violation.

## 5. Not modelled

* Formatting, HTTP, command lines, key handling, address encodings, the dashboard's
  HTML, the brain's prompt (its answer is an input), the skill's text generator, the
  recording scripts: straight-line programs with no state of their own.
* `Executor.execute` hands the amount on with six significant digits (`:g`), which
  loses cents above 9999 dollars; the amounts of the instances are far below, and
  `SpotExecutor` starts from the amount as it arrives. `sync_state_from_injective`
  values the cash at the feed's price of USDT when there is one; in `Desk` and in
  `ChainBooks` the quote token is worth 1.
* Two chat processes may overwrite each other's settings, and two traders lose each
  other's abstentions; both interleavings are in the models, and `SettingsKept` and
  `LedgerKept` are stated for one process because the code does not prevent it.
* The heartbeat and equity files, which the loop writes and never reads.
* `LiveLoop` and `Desk` read the subaccount in one step; `SpotExecutor` alone splits
  the read per token. Exchange fees, more than one subaccount, and a precompile that
  returns false instead of reverting are left out.
* A second nonce manager on the same account other than as `Foreign`, and latency
  and failure counts, which nothing reads.
* The synthetic price generator and the download of real prices (an input of
  `Backtest`), Sharpe, Calmar and the printed tables, which are statistics of the NAV
  curve.
* The `maria` backend beyond its contract: a call that answers, refuses, or times
  out after the swap happened.

## 6. Plan

1. Done: all the modules of section 2, each with its runs and its proofs. Every
   safety property of the runs but `SurvivalGate` is a theorem.
2. Left: `SurvivalGate` under an assumption that relates the falls of one tick to the
   ladder and the caps.
3. Left: compose `SpotExecutor` with the reconcile of `LiveLoop`, so that a read torn by a
   fill reaches a decision; `ReadTheorem` gives the bound such a decision would see.
