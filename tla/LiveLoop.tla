------------------------------ MODULE LiveLoop ------------------------------
(***************************************************************************)
(* The unattended live loop in live mode: the watchdog and the loop it     *)
(* restarts (agent/run_live.py, agent/ops/watchdog.py), the decision tick  *)
(* (agent/core.py), the state file (agent/ops/state.py), the receipt trail *)
(* and the execution log (agent/policy), and the order path of the         *)
(* Injective backend, against a chain that mines transactions when it      *)
(* pleases, an operator and a host that can kill the process anywhere.     *)
(*                                                                         *)
(* The program is one sequential process.  It is cut into steps at the     *)
(* places where something outside it can be seen or can intervene: a read  *)
(* or a write of a file, a call to the chain, an await.                    *)
(*                                                                         *)
(* Balances and positions are represented by the set of this trader's      *)
(* orders whose fills they contain (view), amounts and prices are left to  *)
(* PolicyEngine.  A receipt is named by its place in the trail, which is   *)
(* also the cid of the order it authorises: receipt hashes are taken to be *)
(* collision free.                                                         *)
(***************************************************************************)
EXTENDS Naturals, Sequences, FiniteSets

CONSTANTS
    MAX_RESTARTS,        \* run_live.MAX_RESTARTS
    MaxEdits,            \* bound: edits of the strategy config
    CrashWhileSettling,  \* may the process die in the sleep between two ticks
                         \* with a transaction of its own still unmined?
    MaxReceipts,         \* bound: receipts in the trail
    MaxLaunches          \* bound: process launches

ASSUME ConstantsAssumption ==
    /\ MAX_RESTARTS \in Nat
    /\ MaxEdits \in Nat
    /\ MaxReceipts \in Nat
    /\ MaxLaunches \in Nat
    /\ CrashWhileSettling \in BOOLEAN

VARIABLES
    \* the process
    pc,        \* the step it is about to take
    mem,       \* the loop's `state` dict
    loaded,    \* the config the loop read when it started
    outcome,   \* what executor.execute returned: "none", "placed" or "failed"
    restarts,  \* run_with_watchdog's counter
    \* files
    kill,      \* does the STOP file exist?
    disk,      \* live_state.json
    receipts,  \* receipts.jsonl
    torn,      \* does receipts.jsonl end in half a line?
    execs,     \* executions.jsonl
    policy,    \* the strategy config file
    \* the chain
    orders,    \* every order transaction handed to a node, in order
    mempool,   \* the one not mined yet (0: none)
    placed,    \* the ones mined with status 1
    filled,    \* the ones whose fill is in the subaccount
    \* observers: the program does not read these
    launches,  \* process launches so far
    crashes,   \* loop failures since the last completed tick of this process
    gaveUp,    \* has the watchdog ever exceeded MAX_RESTARTS?
    sinceStop  \* orders sent since the STOP file appeared

procVars  == <<pc, mem, loaded, outcome, restarts>>
fileVars  == <<kill, disk, receipts, torn, execs, policy>>
chainVars == <<orders, mempool, placed, filled>>
obsVars   == <<launches, crashes, gaveUp, sinceStop>>
vars      == <<procVars, fileVars, chainVars, obsVars>>

-----------------------------------------------------------------------------
(* State *)

PCs == {"down", "watch", "boot", "top", "reconcile", "decide", "stage",
        "send", "await", "record", "finish", "sleep", "raised"}

(* The part of the state dict that recovery depends on.  pending is the    *)
(* intent_seq of the pending intent, 0 when there is none.                 *)
State == [pending : Nat, intent_seq : Nat, view : SUBSET Nat]

DEFAULTS == [pending |-> 0, intent_seq |-> 0, view |-> {}]

(* The contents of the strategy config, named by the number of edits that  *)
(* made them.                                                              *)
Policies == 0 .. MaxEdits

(* "allow" stands for a trade the policy allowed or clamped, "reject" for  *)
(* a rejected trade, a hold or an abstention: no order follows.            *)
Receipt == [verdict : {"allow", "reject"}, policy : Policies, ran : Policies]

(* basis is the view the order was decided on. *)
Order == [cid : Nat, basis : SUBSET Nat]

(* executed=True is the result "placed". *)
ExecRecord == [cid : Nat, result : {"none", "placed", "failed"}]

Init ==
    /\ pc = "down" /\ mem = DEFAULTS /\ outcome = "none" /\ restarts = 0
    /\ policy = 0 /\ loaded = 0
    /\ kill \in BOOLEAN /\ disk = DEFAULTS
    /\ receipts = <<>> /\ torn = FALSE /\ execs = {}
    /\ orders = <<>> /\ mempool = 0 /\ placed = {} /\ filled = {}
    /\ launches = 0 /\ crashes = 0 /\ gaveUp = FALSE /\ sinceStop = 0

-----------------------------------------------------------------------------
(* The state file: a new one is completed beside it, then takes its place, *)
(* so that a crash leaves the old or the new, and what is read is whole.   *)
(* There is none at first, which reads as the defaults.                    *)

Load == disk

Write(state) == disk' = state

-----------------------------------------------------------------------------
(* run() and the watchdog *)

(* run(): the STOP file is removed before anything else. *)
Launch ==
    /\ pc = "down"
    /\ launches < MaxLaunches
    /\ pc' = "watch"
    /\ kill' = FALSE
    /\ restarts' = 0
    /\ launches' = launches + 1
    /\ crashes' = 0
    /\ sinceStop' = 0
    /\ UNCHANGED <<mem, loaded, outcome, disk, receipts, torn, execs, policy,
                   gaveUp>>
    /\ UNCHANGED chainVars

(* The process ends through run()'s finally: the STOP file is dropped. *)
Exit ==
    /\ pc' = "down"
    /\ kill' = TRUE
    /\ mem' = DEFAULTS
    /\ outcome' = "none"
    /\ UNCHANGED <<loaded, disk, receipts, torn, execs, policy>>
    /\ UNCHANGED chainVars

(* `while not Path(kill_path).exists()`: start the loop, or return. *)
WatchdogStart ==
    /\ pc = "watch"
    /\ ~kill
    /\ pc' = "boot"
    /\ UNCHANGED <<mem, loaded, outcome, restarts>>
    /\ UNCHANGED <<fileVars, chainVars, obsVars>>

WatchdogReturn ==
    /\ pc = "watch"
    /\ kill
    /\ Exit
    /\ UNCHANGED <<restarts, obsVars>>

(* Fault: a restart is not counted. *)
WatchdogRestart_Uncounted ==
    /\ pc = "raised"
    /\ restarts < MAX_RESTARTS
    /\ ~kill
    /\ pc' = "watch"
    /\ UNCHANGED <<mem, loaded, outcome, restarts>>
    /\ UNCHANGED <<fileVars, chainVars, obsVars>>

(* The except branch below the limit: count, and retry after the backoff,  *)
(* or return if the STOP file is there by now.                             *)
WatchdogRestart ==
    /\ pc = "raised"
    /\ restarts < MAX_RESTARTS
    /\ restarts' = restarts + 1
    /\ ~kill
    /\ pc' = "watch"
    /\ UNCHANGED <<mem, loaded, outcome>>
    /\ UNCHANGED <<fileVars, chainVars, obsVars>>

WatchdogQuit ==
    /\ pc = "raised"
    /\ restarts < MAX_RESTARTS
    /\ restarts' = restarts + 1
    /\ kill
    /\ Exit
    /\ UNCHANGED obsVars

(* The except branch at the limit: the exception leaves run(). *)
WatchdogGiveUp ==
    /\ pc = "raised"
    /\ restarts >= MAX_RESTARTS
    /\ restarts' = restarts + 1
    /\ gaveUp' = TRUE
    /\ Exit
    /\ UNCHANGED <<launches, crashes, sinceStop>>

-----------------------------------------------------------------------------
(* _loop_once_forever *)

(* The prologue: config and state file are read, once per loop start. *)
Boot ==
    /\ pc = "boot"
    /\ pc' = "top"
    /\ mem' = Load
    /\ loaded' = policy
    /\ UNCHANGED <<outcome, restarts>>
    /\ UNCHANGED <<fileVars, chainVars, obsVars>>

(* Fault: the STOP file is not looked at between ticks. *)
TickStart_NoStopCheck ==
    /\ pc = "top"
    /\ pc' = "reconcile"
    /\ UNCHANGED <<mem, loaded, outcome, restarts>>
    /\ UNCHANGED <<fileVars, chainVars, obsVars>>

(* `while not Path(KILL).exists()` *)
TickStart ==
    /\ pc = "top"
    /\ ~kill
    /\ pc' = "reconcile"
    /\ UNCHANGED <<mem, loaded, outcome, restarts>>
    /\ UNCHANGED <<fileVars, chainVars, obsVars>>

LoopReturn ==
    /\ pc = "top"
    /\ kill
    /\ Exit
    /\ UNCHANGED <<restarts, obsVars>>

(* The chain cannot be read: nothing is decided, the state is written back *)
(* as it is, pending intent included.                                      *)
HoldOnReadFailure ==
    /\ pc = "reconcile"
    /\ pc' = "sleep"
    /\ Write(mem)
    /\ UNCHANGED <<mem, loaded, outcome, restarts>>
    /\ UNCHANGED <<kill, receipts, torn, execs, policy>>
    /\ UNCHANGED <<chainVars, obsVars>>

(* Faults: recovery sends the interrupted order again; it leaves the       *)
(* intent pending.                                                         *)
RecoverAs(next, left) ==
    /\ pc = "reconcile"
    /\ mem.pending # 0
    /\ mem' = [pending |-> left, intent_seq |-> mem.intent_seq, view |-> filled]
    /\ Write(mem')
    /\ pc' = next
    /\ UNCHANGED <<loaded, outcome, restarts>>
    /\ UNCHANGED <<kill, receipts, torn, execs, policy>>
    /\ UNCHANGED <<chainVars, obsVars>>

RecoverPending_Resend == RecoverAs("send", 0)

RecoverPending_Holds == RecoverAs("sleep", mem.pending)

(* The books become what the chain holds now; a pending intent is cleared, *)
(* durably, and the rest of the tick is skipped.                           *)
RecoverPending ==
    /\ pc = "reconcile"
    /\ mem.pending # 0
    /\ mem' = [pending |-> 0, intent_seq |-> mem.intent_seq, view |-> filled]
    /\ Write(mem')
    /\ pc' = "sleep"
    /\ UNCHANGED <<loaded, outcome, restarts>>
    /\ UNCHANGED <<kill, receipts, torn, execs, policy>>
    /\ UNCHANGED <<chainVars, obsVars>>

(* Fault: the pending intent is not looked at. *)
Reconcile_IgnorePending ==
    /\ pc = "reconcile"
    /\ Len(receipts) < MaxReceipts
    /\ mem' = [pending |-> 0, intent_seq |-> mem.intent_seq, view |-> filled]
    /\ pc' = "decide"
    /\ UNCHANGED <<loaded, outcome, restarts>>
    /\ UNCHANGED <<fileVars, chainVars, obsVars>>

Reconcile ==
    /\ pc = "reconcile"
    /\ mem.pending = 0
    /\ Len(receipts) < MaxReceipts
    /\ mem' = [pending |-> 0, intent_seq |-> mem.intent_seq, view |-> filled]
    /\ pc' = "decide"
    /\ UNCHANGED <<loaded, outcome, restarts>>
    /\ UNCHANGED <<fileVars, chainVars, obsVars>>

(* Fault: the rules are read at every tick, their hash once. *)
Decide_HashKept(v) ==
    /\ pc = "decide"
    /\ ~torn
    /\ receipts' = Append(receipts,
                          [verdict |-> v, policy |-> loaded, ran |-> policy])
    /\ pc' = IF v = "allow" THEN "stage" ELSE "finish"
    /\ UNCHANGED <<mem, loaded, outcome, restarts>>
    /\ UNCHANGED <<kill, disk, torn, execs, policy>>
    /\ UNCHANGED <<chainVars, obsVars>>

(* core.tick up to the receipt: the loop decides by the config it loaded,  *)
(* the receipt names the config file as it is now.  Reading the head of a  *)
(* trail that ends in half a line raises.                                  *)
Decide(v) ==
    /\ pc = "decide"
    /\ ~torn
    /\ receipts' = Append(receipts,
                          [verdict |-> v, policy |-> policy, ran |-> loaded])
    /\ pc' = IF v = "allow" THEN "stage" ELSE "finish"
    /\ UNCHANGED <<mem, loaded, outcome, restarts>>
    /\ UNCHANGED <<kill, disk, torn, execs, policy>>
    /\ UNCHANGED <<chainVars, obsVars>>

(* The append fails half way (a full disk). *)
DecideTorn ==
    /\ pc = "decide"
    /\ ~torn
    /\ torn' = TRUE
    /\ pc' = "raised"
    /\ mem' = DEFAULTS
    /\ crashes' = crashes + 1
    /\ UNCHANGED <<loaded, outcome, restarts>>
    /\ UNCHANGED <<kill, disk, receipts, execs, policy>>
    /\ UNCHANGED <<chainVars, launches, gaveUp, sinceStop>>

(* Fault: the number is staged but the tick goes on with the old one. *)
Stage_NumberLost ==
    /\ pc = "stage"
    /\ Write([pending |-> mem.intent_seq + 1, intent_seq |-> mem.intent_seq + 1,
              view |-> mem.view])
    /\ mem' = [mem EXCEPT !.pending = 0]
    /\ pc' = "send"
    /\ UNCHANGED <<loaded, outcome, restarts>>
    /\ UNCHANGED <<kill, receipts, torn, execs, policy>>
    /\ UNCHANGED <<chainVars, obsVars>>

(* The intent is written to the state file before anything is sent. *)
Stage ==
    /\ pc = "stage"
    /\ LET seq == mem.intent_seq + 1 IN
         /\ Write([pending |-> seq, intent_seq |-> seq, view |-> mem.view])
         /\ mem' = [pending |-> 0, intent_seq |-> seq, view |-> mem.view]
    /\ pc' = "send"
    /\ UNCHANGED <<loaded, outcome, restarts>>
    /\ UNCHANGED <<kill, receipts, torn, execs, policy>>
    /\ UNCHANGED <<chainVars, obsVars>>

(* execute_swap returns without a transaction: below the minimum notional, *)
(* or _send_order failed before a node accepted it (a node also refuses a  *)
(* second transaction with the nonce of one it still holds).               *)
SkipOrder ==
    /\ pc = "send"
    /\ outcome' = "failed"
    /\ pc' = "record"
    /\ UNCHANGED <<mem, loaded, restarts>>
    /\ UNCHANGED <<fileVars, chainVars, obsVars>>

(* _send_order up to send_raw_transaction.  The nonce is the number of     *)
(* mined transactions, so an unmined earlier transaction is replaced.      *)
Broadcast ==
    /\ pc = "send"
    /\ orders' = Append(orders, [cid |-> Len(receipts), basis |-> mem.view])
    /\ mempool' = Len(orders')
    /\ sinceStop' = IF kill THEN sinceStop + 1 ELSE sinceStop
    /\ pc' = "await"
    /\ UNCHANGED <<mem, loaded, outcome, restarts>>
    /\ UNCHANGED <<fileVars, placed, filled, launches, crashes, gaveUp>>

(* wait_for_transaction_receipt returns a receipt with status 1. *)
AwaitPlaced ==
    /\ pc = "await"
    /\ Len(orders) \in placed
    /\ outcome' = "placed"
    /\ pc' = "record"
    /\ UNCHANGED <<mem, loaded, restarts>>
    /\ UNCHANGED <<fileVars, chainVars, obsVars>>

(* It times out, the node errs, or the status is 0: execute_swap catches   *)
(* the exception and reports executed=False.  Nothing is known about the   *)
(* transaction, it may still be mined.                                     *)
AwaitFailed ==
    /\ pc = "await"
    /\ outcome' = "failed"
    /\ pc' = "record"
    /\ UNCHANGED <<mem, loaded, restarts>>
    /\ UNCHANGED <<fileVars, chainVars, obsVars>>

(* Fault: a transaction that was sent is taken to be executed. *)
Record_AssumeExecuted ==
    /\ pc = "record"
    /\ execs' = execs \cup {[cid |-> Len(receipts), result |-> "placed"]}
    /\ mem' = [pending |-> 0, intent_seq |-> mem.intent_seq,
               view |-> mem.view \cup {Len(orders)}]
    /\ outcome' = "none"
    /\ pc' = "finish"
    /\ UNCHANGED <<loaded, restarts>>
    /\ UNCHANGED <<kill, disk, receipts, torn, policy>>
    /\ UNCHANGED <<chainVars, obsVars>>

(* The execution record (an append whose failure is swallowed), the fill   *)
(* in the books if the order was placed.                                   *)
Record ==
    /\ pc = "record"
    /\ \/ execs' = execs \cup {[cid |-> Len(receipts), result |-> outcome]}
       \/ UNCHANGED execs
    /\ \/ /\ outcome = "placed"
          /\ mem' = [pending |-> 0, intent_seq |-> mem.intent_seq,
                     view |-> mem.view \cup {Len(orders)}]
       \/ /\ outcome # "placed"
          /\ UNCHANGED mem
    /\ outcome' = "none"
    /\ pc' = "finish"
    /\ UNCHANGED <<loaded, restarts>>
    /\ UNCHANGED <<kill, disk, receipts, torn, policy>>
    /\ UNCHANGED <<chainVars, obsVars>>

(* The rest of tick and loop body: one snapshot, without a pending intent. *)
Finish ==
    /\ pc = "finish"
    /\ Write(mem)
    /\ crashes' = 0
    /\ pc' = "sleep"
    /\ UNCHANGED <<mem, loaded, outcome, restarts>>
    /\ UNCHANGED <<kill, receipts, torn, execs, policy>>
    /\ UNCHANGED <<chainVars, launches, gaveUp, sinceStop>>

(* The tick interval (half an hour) is longer than a transaction stays     *)
(* unmined.                                                                *)
Wake ==
    /\ pc = "sleep"
    /\ mempool = 0
    /\ pc' = "top"
    /\ UNCHANGED <<mem, loaded, outcome, restarts>>
    /\ UNCHANGED <<fileVars, chainVars, obsVars>>

(* Any call of the loop that is not guarded raises: market data, the state *)
(* file, the receipt trail, the order book, the abstention ledger.  The    *)
(* loop's locals are gone.                                                 *)
Raise ==
    /\ pc \in {"boot", "reconcile", "decide", "stage", "send", "finish"}
    /\ pc' = "raised"
    /\ mem' = DEFAULTS
    /\ crashes' = crashes + 1
    /\ UNCHANGED <<loaded, outcome, restarts>>
    /\ UNCHANGED <<fileVars, chainVars, launches, gaveUp, sinceStop>>

(* SIGINT: asyncio cancels the task at an await, and the finally runs. *)
Cancel ==
    /\ pc \in {"watch", "reconcile", "sleep"}
    /\ CrashWhileSettling \/ pc # "sleep" \/ mempool = 0
    /\ Exit
    /\ UNCHANGED <<restarts, obsVars>>

(* The host kills the process: no handler runs. *)
Crash ==
    /\ pc # "down"
    /\ CrashWhileSettling \/ pc # "sleep" \/ mempool = 0
    /\ pc' = "down"
    /\ mem' = DEFAULTS
    /\ outcome' = "none"
    /\ UNCHANGED <<loaded, restarts>>
    /\ UNCHANGED <<fileVars, chainVars, obsVars>>

-----------------------------------------------------------------------------
(* The operator and the chain *)

TouchStop ==
    /\ ~kill
    /\ kill' = TRUE
    /\ UNCHANGED <<disk, receipts, torn, execs, policy>>
    /\ UNCHANGED <<procVars, chainVars, obsVars>>

EditConfig ==
    /\ policy < MaxEdits
    /\ policy' = policy + 1
    /\ UNCHANGED <<kill, disk, receipts, torn, execs>>
    /\ UNCHANGED <<procVars, chainVars, obsVars>>

(* The transaction is mined with status 1 and the order is matched at the  *)
(* end of the block, fully or (the book moved away) not at all.            *)
Mine ==
    /\ mempool # 0
    /\ mempool' = 0
    /\ placed' = placed \cup {mempool}
    /\ filled' \in {filled, filled \cup {mempool}}
    /\ UNCHANGED orders
    /\ UNCHANGED <<procVars, fileVars, obsVars>>

(* It is mined with status 0, or the node forgets it. *)
Drop ==
    /\ mempool # 0
    /\ mempool' = 0
    /\ UNCHANGED <<orders, placed, filled>>
    /\ UNCHANGED <<procVars, fileVars, obsVars>>

-----------------------------------------------------------------------------
(* Specification *)

Watchdog ==
    \/ WatchdogStart \/ WatchdogReturn
    \/ WatchdogRestart \/ WatchdogQuit \/ WatchdogGiveUp

Tick ==
    \/ Boot \/ TickStart \/ LoopReturn
    \/ HoldOnReadFailure \/ RecoverPending \/ Reconcile
    \/ (\E v \in {"allow", "reject"} : Decide(v))
    \/ Stage \/ SkipOrder \/ Broadcast \/ AwaitPlaced \/ AwaitFailed
    \/ Record \/ Finish \/ Wake

Faults == DecideTorn \/ Raise \/ Cancel \/ Crash

Operator == Launch \/ TouchStop \/ EditConfig

Chain == Mine \/ Drop

Next == Watchdog \/ Tick \/ Faults \/ Operator \/ Chain

Spec == Init /\ [][Next]_vars

(* Every call the process makes returns or times out, so the process takes *)
(* its next step; the chain mines or drops what it holds; a read of the    *)
(* chain that is retried every tick succeeds sooner or later.  Nothing is  *)
(* assumed about the operator, the supervisor or the faults.               *)
Fairness ==
    /\ WF_vars(Watchdog \/ Tick \/ Raise)
    /\ WF_vars(Chain)
    /\ SF_vars(RecoverPending)

FairSpec == Spec /\ Fairness

-----------------------------------------------------------------------------
(* What the loop guarantees *)

DataOK ==
    /\ pc \in PCs /\ mem \in State /\ loaded \in Policies
    /\ outcome \in {"none", "placed", "failed"} /\ restarts \in Nat
    /\ disk \in State /\ receipts \in Seq(Receipt) /\ policy \in Policies
    /\ execs \subseteq ExecRecord
    /\ orders \in Seq(Order) /\ mempool \in 0 .. Len(orders)
    /\ placed \subseteq DOMAIN orders /\ filled \subseteq placed
    /\ launches \in Nat /\ crashes \in Nat /\ sinceStop \in Nat

FlagsOK == kill \in BOOLEAN /\ torn \in BOOLEAN /\ gaveUp \in BOOLEAN

(* The shape of the state; the chain's sets name orders that were sent. *)
TypeOK == DataOK /\ FlagsOK

(* Every order transaction ever sent, through any number of crashes and    *)
(* relaunches, carries the cid of a receipt that was already in the trail  *)
(* and let a trade through, and no receipt is used twice: the binding that *)
(* receipt_cid and core.tick's "receipt first, then order" set up.         *)
OrdersAuthorised ==
    \A i \in DOMAIN orders :
        /\ orders[i].cid \in DOMAIN receipts
        /\ receipts[orders[i].cid].verdict = "allow"
        /\ \A j \in DOMAIN orders : orders[j].cid = orders[i].cid => j = i

(* "never re-fire the same trade" (step 2 of the loop): an order that      *)
(* fills was decided on books that held every earlier fill, even when the  *)
(* process died between sending the earlier order and hearing of it.       *)
NoBlindOrder ==
    \A i, j \in filled : i < j => i \in orders[j].basis

(* A transaction whose fate the process has not learnt is covered by a     *)
(* pending intent in the state file, or the loop is sleeping it out; so no *)
(* restart can decide anything before it is settled.                       *)
InFlightIsPending ==
    mempool # 0 => disk.pending # 0 \/ pc = "sleep"

(* Once the STOP file is there the process sends at most the one order it  *)
(* was working on, whatever it was doing when the file appeared.           *)
StopBound == sinceStop <= 1

(* The books, in memory and on disk, never show a fill of an order the     *)
(* chain did not accept: "never on a live executed=False, which would      *)
(* record a phantom position".                                             *)
BooksAreReal == mem.view \cup disk.view \subseteq placed

(* verify_executions succeeds on what the loop writes, and a record that   *)
(* says executed names an order the chain accepted.                        *)
ExecLogTruthful ==
    \A e \in execs :
        /\ e.cid \in DOMAIN receipts
        /\ receipts[e.cid].verdict = "allow"
        /\ e.result = "placed" => \E i \in placed : orders[i].cid = e.cid

(* The loop obeys the config it read when it started, while a receipt      *)
(* names the one on disk at its tick.  After an edit the two differ, but   *)
(* the trail only ever names rules newer than those obeyed: no decision is *)
(* taken under rules that no receipt could have named yet.                 *)
PolicyNotOlder ==
    \A i \in DOMAIN receipts : receipts[i].ran <= receipts[i].policy

(* A loop that only fails is attempted MAX_RESTARTS + 1 times in one       *)
(* launch, whatever fails and however the failures mix with its orders.    *)
CrashesBounded == crashes <= MAX_RESTARTS + 1

(* Half a line at the end of receipts.jsonl stops trading for good: no     *)
(* order can follow, because no receipt can.                               *)
TornTrailHalts == [][torn => orders' = orders]_vars

(* While an earlier tick's intent is pending in the state file no decision *)
(* is committed: recovery comes first in every incarnation of the loop.    *)
RecoverBeforeDecide == [][receipts' # receipts => disk.pending = 0]_vars

(* An intent number is never issued twice, although the counter lives in a *)
(* file that is rewritten as a whole and re-read after each failure.       *)
IntentNeverReissued ==
    [][/\ disk'.intent_seq >= disk.intent_seq
       /\ disk.pending = 0 /\ disk'.pending # 0 =>
            /\ disk'.pending = disk'.intent_seq
            /\ disk'.intent_seq > disk.intent_seq]_vars

Audited == INSTANCE AuditedTrader
               WITH trail <- receipts, sent <- orders, Receipts <- Receipt

(* To somebody who sees only receipts, orders and fills the loop is a      *)
(* trader that decides, sends at most one order per decision and knows all *)
(* earlier fills when it does.                                             *)
ImplementsAuditedTrader == Audited!Spec

(* The STOP file is obeyed: the process ends. *)
StopObeyed == kill ~> pc = "down"

(* A staged intent does not stay pending: the loop clears it, or is down. *)
IntentResolved == disk.pending # 0 ~> (disk.pending = 0 \/ pc = "down")

-----------------------------------------------------------------------------
(* The inductive invariant behind the guarantees *)

(* At the two steps before an order goes out the last receipt authorises   *)
(* it and has not been used; the trail was readable a moment ago.          *)
SendReady ==
    pc \in {"stage", "send"} =>
        /\ receipts # <<>>
        /\ receipts[Len(receipts)].verdict = "allow"
        /\ \A i \in DOMAIN orders : orders[i].cid # Len(receipts)
        /\ ~torn

(* After that the loop still works for the same receipt, and knows of a    *)
(* placement only if the chain has it.                                     *)
AwaitReady ==
    /\ pc \in {"await", "record"} =>
          receipts # <<>> /\ receipts[Len(receipts)].verdict = "allow"
    /\ pc = "await" => orders # <<>> /\ orders[Len(orders)].cid = Len(receipts)
    /\ outcome = "placed" =>
          /\ pc = "record"
          /\ Len(orders) \in placed
          /\ orders[Len(orders)].cid = Len(receipts)

(* How memory and state file stand to each other at each step. *)
StepPending ==
    /\ pc \in {"top", "reconcile", "sleep"} => mem.pending = disk.pending
    /\ pc \in {"decide", "stage", "send", "await", "record", "finish"} =>
          mem.pending = 0
    /\ pc \in {"decide", "stage"} => disk.pending = 0
    /\ pc \in {"send", "await", "record"} => disk.pending # 0
    /\ pc \notin {"down", "watch", "boot", "raised"} =>
          mem.intent_seq = disk.intent_seq

(* No order is counted before the STOP file, and none is on its way out of *)
(* a tick that started after it.                                           *)
StopCount ==
    /\ ~kill => sinceStop = 0
    /\ pc \in {"reconcile", "decide", "stage", "send"} => sinceStop = 0

InFlightIsLatest ==
    mempool # 0 => mempool = Len(orders) /\ mempool \notin placed

(* From the reconcile to the order nothing is in flight and the books are  *)
(* current; what is in flight was decided on every fill there is.          *)
BooksCurrent ==
    /\ pc \in {"decide", "stage", "send"} => mempool = 0 /\ filled \subseteq mem.view
    /\ mempool # 0 => filled \subseteq orders[mempool].basis

CoreInv ==
    /\ DataOK /\ OrdersAuthorised /\ SendReady /\ AwaitReady /\ StepPending
    /\ StopCount /\ StopBound /\ BooksAreReal /\ ExecLogTruthful
    /\ InFlightIsLatest

(* Holds when the process does not die in the sleep while a transaction is *)
(* unsettled.                                                              *)
SettledInv == InFlightIsPending /\ BooksCurrent /\ NoBlindOrder

(* The config in memory is one the file has had. *)
RulesInv == loaded <= policy /\ PolicyNotOlder

(* What the watchdog has counted, by the step it is at. *)
CountInv ==
    /\ crashes <= MAX_RESTARTS + 1
    /\ pc # "down" => restarts <= MAX_RESTARTS
    /\ pc = "raised" => crashes <= restarts + 1
    /\ pc \notin {"down", "raised"} => crashes <= restarts

(* Each step of the loop leaves its files, its memory and the chain in     *)
(* agreement: what a restart finds is what the interrupted step assumed.   *)
IInv == CoreInv /\ FlagsOK /\ SettledInv

-----------------------------------------------------------------------------
(* What the comments claim and the loop does not do *)

(* run_live.py, MAX_RESTARTS: "Consecutive loop crashes before we fail     *)
(* closed and stop trading entirely": the watchdog gives up only after     *)
(* more than MAX_RESTARTS crashes with no completed tick between them.     *)
GivesUpOnConsecutiveCrashes ==
    [][gaveUp' /\ ~gaveUp => crashes > MAX_RESTARTS]_vars

(* canonical.py: receipts "reference the hash of the config it actually    *)
(* ran".                                                                   *)
ReceiptNamesConfigRan ==
    \A i \in DOMAIN receipts : receipts[i].policy = receipts[i].ran

=============================================================================
