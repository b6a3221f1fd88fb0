----------------------------- MODULE Dashboard -----------------------------
(***************************************************************************)
(* The dashboard (agent/web.py) beside the processes that write the audit  *)
(* trail.  One handler runs at a time, but the loop is another process:    *)
(* between two files that a handler reads the loop may take any step.      *)
(*                                                                         *)
(* /api/overview reads the equity curve twice, and runs the verifier,      *)
(* which ReceiptTrail models; /api/executions reads the receipts and then  *)
(* the executions; /api/replay reads the receipts once.  A file that does  *)
(* not parse makes the handler fail: there is no answer.  /api/feed,       *)
(* /api/equity and the page itself show what one file holds.               *)
(***************************************************************************)
EXTENDS ReceiptTrail

CONSTANT StartNav    \* is START_NAV, the funded amount, in the environment?

ASSUME BoardAssumption == StartNav \in BOOLEAN

VARIABLES
    live,    \* does live_equity.jsonl have a point?
    page,    \* the handler that has read one file and not the next, or NoPage
    answer   \* the last answer

boardVars == <<live, page, answer>>

NoPage == [none |-> TRUE]
NoAnswer == [none |-> TRUE]

BoardInit == Init /\ live = FALSE /\ page = NoPage /\ answer = NoAnswer

-----------------------------------------------------------------------------
(* /api/replay/{seq}: the first receipt with that number, re-hashed, and   *)
(* checked against the line at its place less one.                         *)

(* Fault: the previous line is looked up one place too far. *)
PrevLine_Own(recs, seq) ==
    IF seq > 0 /\ seq + 1 <= Len(recs) THEN recs[seq + 1].hash ELSE GENESIS

PrevLine(recs, seq) == IF seq > 0 /\ seq <= Len(recs) THEN recs[seq].hash ELSE GENESIS

Replay(recs, seq) ==
    LET first == CHOOSE i \in DOMAIN recs :
                    recs[i].seq = seq /\ \A j \in 1 .. i - 1 : recs[j].seq # seq
        rec == recs[first]
    IN  [hash_match |-> rec.hash = ComputeHash(rec.prev_hash, Body(rec)),
         prev_link_ok |-> rec.prev_hash = PrevLine(recs, seq)]

-----------------------------------------------------------------------------
(* Each execution with the verdict of its receipt; "" when the receipts    *)
(* that were read do not have it.                                          *)
Verdict(recs, hash) ==
    IF \E j \in DOMAIN recs : recs[j].hash = hash
    THEN recs[CHOOSE j \in DOMAIN recs : recs[j].hash = hash].verdict
    ELSE ""

Rows(execs, recs) ==
    {[cid_ok |-> execs[i].cid = ReceiptCid(execs[i].receipt_hash),
      verdict |-> Verdict(recs, execs[i].receipt_hash)] : i \in DOMAIN execs}

OpenExecutions ==
    /\ scene.watched /\ page = NoPage
    /\ Parses(receipts)
    /\ page' = [recs |-> receipts.lines]
    /\ UNCHANGED <<vars, live, answer>>

ShowExecutions ==
    /\ "recs" \in DOMAIN page
    /\ page' = NoPage
    /\ answer' = IF Parses(executions) THEN [rows |-> Rows(executions.lines, page.recs)]
                 ELSE NoAnswer
    /\ UNCHANGED <<vars, live>>

(* /api/overview: _equity() takes the live curve if it has a point, else   *)
(* the simulated one.  Then the live curve is read again, to choose what   *)
(* the return is measured against.                                         *)
OpenOverview ==
    /\ scene.watched /\ page = NoPage
    /\ page' = [curve |-> IF live THEN "live" ELSE "simulated"]
    /\ UNCHANGED <<vars, live, answer>>

Base == IF live /\ StartNav THEN "funded" ELSE "first point"

ShowOverview ==
    /\ "curve" \in DOMAIN page
    /\ page' = NoPage
    /\ answer' = [curve |-> page.curve, base |-> Base]
    /\ UNCHANGED <<vars, live>>

(* _append_equity_point at the end of a tick of the live loop. *)
EquityPoint(w) ==
    /\ scene.watched /\ w \in Live /\ pc[w] = "idle"
    /\ receipts # Empty /\ ~live
    /\ live' = TRUE
    /\ UNCHANGED <<vars, page, answer>>

BoardNext ==
    \/ Next /\ UNCHANGED boardVars
    \/ \E w \in scene.crew : EquityPoint(w)
    \/ OpenExecutions \/ ShowExecutions \/ OpenOverview \/ ShowOverview

BoardSpec == BoardInit /\ [][BoardNext]_<<vars, boardVars>>

-----------------------------------------------------------------------------
(* What the page shows *)

(* The two verifiers agree: when verify_chain accepts the receipts, the    *)
(* replay of every receipt number is green, whoever wrote them and         *)
(* whatever was torn or deleted before.  (Not the other way round: of two  *)
(* receipts with one number, a fork, replay only looks at the first.)      *)
ReplayAgrees ==
    Parses(receipts) /\ ChainOk(receipts.lines) =>
        \A i \in DOMAIN receipts.lines :
            LET shown == Replay(receipts.lines, receipts.lines[i].seq)
            IN  shown.hash_match /\ shown.prev_link_ok

(* Whatever the loop does between the handler's two reads, no order is     *)
(* shown unbound or under a receipt that did not allow it (only, for a     *)
(* moment, under none), and a return on the live curve is measured against *)
(* the funded amount.                                                      *)
BoardHonest ==
    /\ "rows" \in DOMAIN answer =>
         \A row \in answer.rows : row.cid_ok /\ row.verdict \in Allowed \cup {""}
    /\ "curve" \in DOMAIN answer =>
         (answer.curve = "live" /\ StartNav => answer.base = "funded")

-----------------------------------------------------------------------------
(* The inductive invariant behind the page *)

(* A receipt's number is the number of receipts its hash commits to. *)
WellMade(r) ==
    r.hash = ComputeHash(r.prev_hash, Body(r)) /\ r.seq = Len(r.prev_hash)

(* The receipt behind this hash allowed its order. *)
SignedFor(hash) == hash # GENESIS /\ hash[Len(hash)].verdict \in Allowed

LineInv ==
    /\ \A i \in DOMAIN receipts.lines :
         receipts.lines[i] # JUNK => WellMade(receipts.lines[i])
    /\ \A w \in Writers :
         /\ pc[w] # "idle" => WellMade(draft[w])
         /\ pc[w] \in {"execute", "log"} => draft[w].verdict \in Allowed
    /\ \A i \in DOMAIN executions.lines :
         executions.lines[i] # JUNK =>
            /\ executions.lines[i].cid = ReceiptCid(executions.lines[i].receipt_hash)
            /\ SignedFor(executions.lines[i].receipt_hash)

(* A chain that verifies is numbered from 0, whatever happened before. *)
NumberInv ==
    Parses(receipts) /\ ChainOk(receipts.lines) =>
        \A i \in DOMAIN receipts.lines : receipts.lines[i].seq = i - 1

PageInv ==
    /\ page \in [recs : Seq(Receipts)] \cup [curve : {"live", "simulated"}] \cup {NoPage}
    /\ "recs" \in DOMAIN page => \A i \in DOMAIN page.recs : WellMade(page.recs[i])
    /\ "curve" \in DOMAIN page => (page.curve = "live" => live)

BoardInv == TypeOK /\ LineInv /\ NumberInv /\ PageInv /\ BoardHonest

=============================================================================
