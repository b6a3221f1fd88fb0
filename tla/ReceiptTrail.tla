---------------------------- MODULE ReceiptTrail ----------------------------
(***************************************************************************)
(* The audit trail: receipts.jsonl, a hash chain with one receipt per      *)
(* decision (agent/policy/receipt.py), executions.jsonl, which binds       *)
(* orders to receipts (agent/policy/execlog.py), the processes that write  *)
(* them (agent/core.py's tick in the live loop, in "cli tick" and in the   *)
(* simulator), and the public verifier (agent/policy/commit.py), which     *)
(* reads one file after the other while they are being written.            *)
(*                                                                         *)
(* A hash is the sequence of the bodies it commits to: sha256 without      *)
(* collisions.                                                             *)
(***************************************************************************)
EXTENDS Integers, Sequences

CONSTANTS
    Writers,      \* processes that tick
    Live,         \* those of them that send orders
    Config,       \* the policy hash each process, and "verifier", computes
    Verdicts,     \* what the policy engine answers
    Notes,        \* the rest of a decision: time, tokens, inputs
    Torn,         \* how a failing append can leave the file, see TornAppend
    Scenes,       \* who is there in one behaviour, see scene
    MaxReceipts,  \* bound: lines of receipts.jsonl
    MaxExecs      \* bound: lines of executions.jsonl

ASSUME TrailAssumption ==
    /\ Live \subseteq Writers
    /\ DOMAIN Config = Writers \cup {"verifier"}
    /\ Torn \subseteq {"cut", "unended"}
    /\ \A s \in Scenes :
         /\ s.crew \subseteq Writers
         /\ {s.resets, s.verifies, s.watched} \subseteq BOOLEAN
    /\ MaxReceipts \in Nat /\ MaxExecs \in Nat

VARIABLES
    scene,       \* the crew of writers; is the simulator started (at most
                 \* once), the verifier run, the dashboard open?
    receipts,    \* receipts.jsonl: its lines and whether the last one is ended
    executions,  \* executions.jsonl
    pc,          \* the step each writer is about to take
    draft,       \* the receipt it has in hand
    orders,      \* receipts (their hashes) for which the chain has an order
    half,        \* the verifier: the receipts it has read, or NotReading
    report,      \* its last report, or NoReport
    wiped        \* observer: were the receipts ever deleted, see Reset

vars == <<scene, receipts, executions, pc, draft, orders, half, report, wiped>>
verifier == <<half, report>>

-----------------------------------------------------------------------------
(* A file of lines *)

JUNK == [junk |-> TRUE]      \* a line that is not JSON

Empty == [lines |-> <<>>, ended |-> TRUE]

(* json.loads of every line succeeds. *)
Parses(f) == \A i \in DOMAIN f.lines : f.lines[i] # JUNK

(* What is appended to a line without an end becomes part of that line. *)
Joined(f, end) ==
    [lines |-> [f.lines EXCEPT ![Len(f.lines)] = JUNK], ended |-> end]

AppendLine(f, x) ==
    IF f.ended THEN [lines |-> Append(f.lines, x), ended |-> TRUE]
    ELSE Joined(f, TRUE)

(* A write that stops early: within the record, or before its newline. *)
AppendPart(f, x, kind) ==
    IF f.ended
    THEN [lines |-> Append(f.lines, IF kind = "cut" THEN JUNK ELSE x), ended |-> FALSE]
    ELSE Joined(f, FALSE)

-----------------------------------------------------------------------------
(* The chain *)

GENESIS == <<>>

Body(r) == [seq |-> r.seq, policy_hash |-> r.policy_hash, verdict |-> r.verdict,
            note |-> r.note]

ComputeHash(prev, body) == Append(prev, body)

(* 128 bits of the hash: still different for different hashes, but no hash. *)
ReceiptCid(hash) == [cid |-> hash]

(* Fault: the chain is always continued from its first receipt. *)
ChainHead_First(lines) ==
    IF lines = <<>> THEN [seq |-> 0, hash |-> GENESIS]
    ELSE [seq |-> lines[1].seq + 1, hash |-> lines[1].hash]

ChainHead(lines) ==
    IF lines = <<>> THEN [seq |-> 0, hash |-> GENESIS]
    ELSE LET last == lines[Len(lines)]
         IN [seq |-> last.seq + 1, hash |-> last.hash]

(* Fault: the hash is taken before prev_hash is set. *)
MakeReceipt_Early(w, head, verdict, note) ==
    LET body == [seq |-> head.seq, policy_hash |-> Config[w], verdict |-> verdict,
                 note |-> note]
    IN [seq |-> head.seq, policy_hash |-> Config[w], verdict |-> verdict,
        note |-> note, prev_hash |-> head.hash,
        hash |-> ComputeHash(GENESIS, body)]

(* The receipt append() makes of what it read and what it was given. *)
MakeReceipt(w, head, verdict, note) ==
    LET body == [seq |-> head.seq, policy_hash |-> Config[w], verdict |-> verdict,
                 note |-> note]
    IN [seq |-> head.seq, policy_hash |-> Config[w], verdict |-> verdict,
        note |-> note, prev_hash |-> head.hash,
        hash |-> ComputeHash(head.hash, body)]

(* Fault: the walk does not advance. *)
PrevHash_Genesis(recs, i) == GENESIS

PrevHash(recs, i) == IF i = 1 THEN GENESIS ELSE recs[i - 1].hash

(* verify_chain stops at the first receipt that is not linked. *)
Linked(recs, i) ==
    /\ recs[i].prev_hash = PrevHash(recs, i)
    /\ recs[i].hash = ComputeHash(recs[i].prev_hash, Body(recs[i]))

ChainOk(recs) == \A i \in DOMAIN recs : Linked(recs, i)

Allowed == {"allow", "clamp"}

(* verify_executions *)
Bound(execs, recs) ==
    \A i \in DOMAIN execs :
        /\ execs[i].cid = ReceiptCid(execs[i].receipt_hash)
        /\ \E j \in DOMAIN recs :
             /\ recs[j].hash = execs[i].receipt_hash
             /\ recs[j].verdict \in Allowed

VerifyLive(recs, execs) ==
    [chain_intact |-> ChainOk(recs),
     all_reference_committed_hash |->
         ChainOk(recs) /\ \A i \in DOMAIN recs : recs[i].policy_hash = Config["verifier"],
     executions_bound |-> Bound(execs, recs)]

-----------------------------------------------------------------------------
NoDraft == [none |-> TRUE]
NotReading == [none |-> TRUE]
NoReport == [none |-> TRUE]

Init ==
    /\ scene \in Scenes
    /\ receipts = Empty /\ executions = Empty
    /\ pc = [w \in Writers |-> "idle"]
    /\ draft = [w \in Writers |-> NoDraft]
    /\ orders = {}
    /\ half = NotReading /\ report = NoReport /\ wiped = "no"

Go(w, step) == pc' = [pc EXCEPT ![w] = step]

(* The tick is over, or its process is gone. *)
Done(w) ==
    /\ Go(w, "idle")
    /\ draft' = [draft EXCEPT ![w] = NoDraft]

(* append() reads the head; an unreadable file raises and the tick is      *)
(* lost.                                                                   *)
Decide(w, verdict, note) ==
    /\ pc[w] = "idle"
    /\ Len(receipts.lines) < MaxReceipts
    /\ Parses(receipts)
    /\ draft' = [draft EXCEPT ![w] = MakeReceipt(w, ChainHead(receipts.lines), verdict, note)]
    /\ Go(w, "append")
    /\ UNCHANGED <<receipts, executions, orders, verifier, wiped>>

(* Fault: a decision that was not allowed is executed. *)
AppendReceipt_Any(w) ==
    /\ pc[w] = "append"
    /\ receipts' = AppendLine(receipts, draft[w])
    /\ IF w \in Live THEN Go(w, "execute") /\ UNCHANGED draft ELSE Done(w)
    /\ UNCHANGED <<executions, orders, verifier, wiped>>

(* ... and writes the line.  Without an order to send, the tick is done. *)
AppendReceipt(w) ==
    /\ pc[w] = "append"
    /\ receipts' = AppendLine(receipts, draft[w])
    /\ IF w \in Live /\ draft[w].verdict \in Allowed
       THEN Go(w, "execute") /\ UNCHANGED draft
       ELSE Done(w)
    /\ UNCHANGED <<executions, orders, verifier, wiped>>

(* The process dies in the write, or the disk is full: the tick is over. *)
TornAppend(w, kind) ==
    /\ pc[w] = "append"
    /\ receipts' = AppendPart(receipts, draft[w], kind)
    /\ Done(w)
    /\ UNCHANGED <<executions, orders, verifier, wiped>>

(* The order goes out under the receipt's cid, and the chain may accept    *)
(* it; either answer is logged.                                            *)
Execute(w, accepted) ==
    /\ pc[w] = "execute"
    /\ orders' = IF accepted THEN orders \cup {draft[w].hash} ELSE orders
    /\ Go(w, "log")
    /\ UNCHANGED <<receipts, executions, draft, verifier, wiped>>

ExecutionRecord(w) ==
    [receipt_hash |-> draft[w].hash, cid |-> ReceiptCid(draft[w].hash)]

(* Fault: the record is keyed by the previous receipt. *)
Log_Prev(w) ==
    /\ pc[w] = "log"
    /\ Len(executions.lines) < MaxExecs
    /\ executions' = AppendLine(executions,
           [receipt_hash |-> draft[w].prev_hash, cid |-> ReceiptCid(draft[w].hash)])
    /\ Done(w)
    /\ UNCHANGED <<receipts, orders, verifier, wiped>>

Log(w) ==
    /\ pc[w] = "log"
    /\ Len(executions.lines) < MaxExecs
    /\ executions' = AppendLine(executions, ExecutionRecord(w))
    /\ Done(w)
    /\ UNCHANGED <<receipts, orders, verifier, wiped>>

(* A failure to log is not fatal, but what it wrote stays. *)
TornLog(w, kind) ==
    /\ pc[w] = "log"
    /\ executions' = AppendPart(executions, ExecutionRecord(w), kind)
    /\ Done(w)
    /\ UNCHANGED <<receipts, orders, verifier, wiped>>

(* The process dies, or the executor or the log raises. *)
Lose(w) ==
    /\ pc[w] # "idle"
    /\ Done(w)
    /\ UNCHANGED <<receipts, executions, orders, verifier, wiped>>

(* simulate(reset=True) unlinks receipts.jsonl, not executions.jsonl.  It  *)
(* may catch a writer between reading the head and writing its line.       *)
Reset ==
    /\ scene.resets
    /\ receipts' = Empty
    /\ wiped = "no"
    /\ wiped' = IF \E w \in Writers : pc[w] = "append" THEN "caught" ELSE "clean"
    /\ UNCHANGED <<executions, pc, draft, orders, verifier>>

-----------------------------------------------------------------------------
(* verify_live: the receipts first, then the executions. *)

ReadReceipts ==
    /\ scene.verifies
    /\ half = NotReading
    /\ Parses(receipts)
    /\ half' = [recs |-> receipts.lines]
    /\ UNCHANGED <<receipts, executions, pc, draft, orders, report, wiped>>

(* An unreadable execution log raises: no report. *)
ReadExecutions ==
    /\ half # NotReading
    /\ half' = NotReading
    /\ report' = IF Parses(executions) THEN VerifyLive(half.recs, executions.lines)
                 ELSE NoReport
    /\ UNCHANGED <<receipts, executions, pc, draft, orders, wiped>>

Tick(w) ==
    \/ \E verdict \in Verdicts, note \in Notes : Decide(w, verdict, note)
    \/ AppendReceipt(w)
    \/ \E accepted \in BOOLEAN : Execute(w, accepted)
    \/ Log(w) \/ Lose(w)
    \/ \E kind \in Torn : TornAppend(w, kind) \/ TornLog(w, kind)

Next ==
    /\ (\E w \in scene.crew : Tick(w)) \/ Reset \/ ReadReceipts \/ ReadExecutions
    /\ UNCHANGED scene

Spec == Init /\ [][Next]_vars

-----------------------------------------------------------------------------
(* What holds *)

Steps == {"idle", "append", "execute", "log"}

Bodies == [seq : Nat, policy_hash : {Config[w] : w \in Writers}, verdict : Verdicts,
           note : Notes]
Hashes == Seq(Bodies)
Receipts == [seq : Nat, policy_hash : {Config[w] : w \in Writers}, verdict : Verdicts,
             note : Notes, prev_hash : Hashes, hash : Hashes]
Records == [receipt_hash : Hashes, cid : [cid : Hashes]]
Files(S) == {f \in [lines : Seq(S \cup {JUNK}), ended : BOOLEAN] :
                f.lines = <<>> => f.ended}
Reports == [chain_intact : BOOLEAN, all_reference_committed_hash : BOOLEAN,
            executions_bound : BOOLEAN]

(* The state is what the steps say: a writer with a step to take has a     *)
(* receipt in hand whose hash covers its body and the one before it, and   *)
(* only the last line of a file may lack its end.                          *)
TypeOK ==
    /\ scene \in Scenes
    /\ receipts \in Files(Receipts) /\ executions \in Files(Records)
    /\ pc \in [Writers -> Steps]
    /\ draft \in [Writers -> Receipts \cup {NoDraft}]
    /\ orders \subseteq Hashes
    /\ half \in [recs : Seq(Receipts \cup {JUNK})] \cup {NotReading}
    /\ report \in Reports \cup {NoReport}
    /\ wiped \in {"no", "clean", "caught"}
    /\ \A w \in Writers :
         pc[w] # "idle" =>
            /\ draft[w] \in Receipts
            /\ draft[w].hash = ComputeHash(draft[w].prev_hash, Body(draft[w]))

OneWriter == \A v, w \in scene.crew : v = w

(* With one process writing, the chain verifies whenever the file can be   *)
(* read at all: crashes between reading the head and writing the line,     *)
(* torn lines, and deletions that do not catch the writer between the two, *)
(* never break a link.                                                     *)
ChainIntact ==
    OneWriter /\ wiped # "caught" /\ Parses(receipts) => ChainOk(receipts.lines)

(* The receipt that r builds on: none, or one of the first n lines. *)
HasRoot(lines, r, n) ==
    \/ r.prev_hash = GENESIS /\ r.seq = 0
    \/ \E j \in 1 .. n : lines[j].hash = r.prev_hash /\ lines[j].seq + 1 = r.seq

Tree(lines) ==
    \A i \in DOMAIN lines :
        /\ lines[i].hash = ComputeHash(lines[i].prev_hash, Body(lines[i]))
        /\ HasRoot(lines, lines[i], i - 1)

(* However many processes write, the receipts form a tree: each one's hash *)
(* covers its own body, and its predecessor is the genesis or a receipt on *)
(* an earlier line.  A fork is all that two writers can do to the chain.   *)
Rooted == wiped # "caught" /\ Parses(receipts) => Tree(receipts.lines)

Backed(lines, hash) ==
    \E j \in DOMAIN lines : lines[j].hash = hash /\ lines[j].verdict \in Allowed

(* As long as the receipts can be read, every order the chain has, logged  *)
(* or not, leads to a receipt that allowed it, through any crash.          *)
OrdersBacked ==
    wiped = "no" /\ Parses(receipts) => \A hash \in orders : Backed(receipts.lines, hash)

(* ... and at every moment the two files agree with each other.            *)
ExecutionsBound ==
    wiped = "no" /\ Parses(receipts) /\ Parses(executions) =>
        Bound(executions.lines, receipts.lines)

(* A verifier that runs beside a single writer never calls the chain       *)
(* broken.                                                                 *)
NoFalseAlarm == OneWriter /\ wiped # "caught" /\ report # NoReport => report.chain_intact

-----------------------------------------------------------------------------
(* The inductive invariant behind the guarantees: what a writer's receipt  *)
(* is to the file while it is on its way there and afterwards.             *)

RootInv ==
    /\ Rooted
    /\ wiped # "caught" /\ Parses(receipts) =>
         \A w \in Writers :
            pc[w] = "append" => HasRoot(receipts.lines, draft[w], Len(receipts.lines))

CrewInv == \A w \in Writers : pc[w] # "idle" => w \in scene.crew

ChainInv ==
    OneWriter /\ wiped # "caught" =>
        /\ Parses(receipts) =>
             /\ ChainOk(receipts.lines)
             /\ \A w \in Writers :
                  pc[w] = "append" => draft[w].prev_hash = ChainHead(receipts.lines).hash
        /\ half # NotReading => ChainOk(half.recs)
        /\ report # NoReport => report.chain_intact

OrderInv ==
    wiped = "no" /\ Parses(receipts) =>
        /\ \A hash \in orders : Backed(receipts.lines, hash)
        /\ \A w \in Writers :
             pc[w] \in {"execute", "log"} => Backed(receipts.lines, draft[w].hash)
        /\ \A i \in DOMAIN executions.lines :
             executions.lines[i] # JUNK =>
                /\ executions.lines[i].cid = ReceiptCid(executions.lines[i].receipt_hash)
                /\ Backed(receipts.lines, executions.lines[i].receipt_hash)

(* The receipt a writer carries fits the file it read, or the file is      *)
(* unreadable for good.                                                    *)
IInv == TypeOK /\ CrewInv /\ RootInv /\ ChainInv /\ OrderInv

-----------------------------------------------------------------------------
(* What the program says and does not do *)

(* commit.py: the third check of the verifier, "every executed order's cid *)
(* is the receipt hash prefix, and that receipt is a trade the policy      *)
(* allowed".                                                               *)
ReportsBound == report # NoReport => report.executions_bound

=============================================================================
