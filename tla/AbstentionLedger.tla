-------------------------- MODULE AbstentionLedger --------------------------
(***************************************************************************)
(* The ledger of trades that were declined (agent/abstention/ledger.py)    *)
(* and the two calls a decision tick makes of it (agent/core.py): record   *)
(* appends a line, mark_to_market rewrites the whole file.  Processes that *)
(* tick (the loop, the cli, the simulator) share the file without a lock.  *)
(*                                                                         *)
(* A file is its lines and whether the last one is ended; JUNK is a line   *)
(* that does not parse, which makes every read of the file raise.  Time is *)
(* kept as the age of a record, up to the age at which it is marked.       *)
(***************************************************************************)
EXTENDS Integers, Sequences, FiniteSets, Functions

CONSTANTS
    Procs,        \* processes that run decision ticks
    Refs,         \* prices at which the token is declined
    Prices,       \* prices at which it is marked
    Size,         \* size_usd of a declined entry
    MinAge,       \* min_age_s
    Sends,        \* does a tick that trades send its order, or only try to?
    Resets,       \* does the simulator start with its reset?
    MaxMade,      \* bound: abstentions made or being made
    MaxDeaths     \* bound: processes that die

ASSUME LedgerAssumption ==
    /\ Refs \subseteq Nat \ {0} /\ Prices \subseteq Nat
    /\ Size \in Nat /\ MinAge \in Nat
    /\ Sends \subseteq BOOLEAN /\ Resets \in BOOLEAN
    /\ MaxMade \in Nat /\ MaxDeaths \in Nat

VARIABLES
    file,         \* abstentions.jsonl
    pc,           \* the step each process is about to take
    draft,        \* the lines it has read and will write
    ordered,      \* has the tick in progress sent an order?
    \* observers
    made,         \* the price of each abstention, in the order they were recorded
    marks,        \* the marks ever written, <<id, pnl>>
    active,       \* the processes that have used the ledger
    cut,          \* did a process die in a write, or the simulator reset?
    unbooked,     \* did a tick raise after its order was sent?
    deaths

seen == <<made, marks, active, cut, unbooked, deaths>>
vars == <<file, pc, draft, ordered, seen>>

JUNK == [junk |-> TRUE]

(* A record; id tells abstentions apart and is not in the file, pnl is     *)
(* hypothetical_pnl_usd, which is null before the mark.                    *)
Abstention ==
    [id : Nat, seq : Nat, ref : Refs, age : 0 .. MinAge, marked : BOOLEAN, pnl : Int]

Lines == Seq(Abstention \cup {JUNK})

Empty == [lines |-> <<>>, ended |-> TRUE]

Init ==
    /\ file = Empty
    /\ pc = [p \in Procs |-> "idle"]
    /\ draft = [p \in Procs |-> <<>>]
    /\ ordered = [p \in Procs |-> FALSE]
    /\ made = <<>> /\ marks = {} /\ active = {} /\ cut = FALSE
    /\ unbooked = FALSE /\ deaths = 0

Go(p, step) == pc' = [pc EXCEPT ![p] = step]

Read(p, ls) == draft' = [draft EXCEPT ![p] = ls]

(* _all() *)
Parses == \A i \in DOMAIN file.lines : file.lines[i] # JUNK

-----------------------------------------------------------------------------
(* The tick *)

(* A hold or a rejection is recorded: record() reads the file ... *)
BeginRecord(p) ==
    /\ pc[p] = "idle"
    /\ Len(made) + Cardinality({q \in Procs : pc[q] = "append"}) < MaxMade
    /\ Parses
    /\ Read(p, file.lines)
    /\ Go(p, "append")
    /\ active' = active \cup {p}
    /\ UNCHANGED <<file, ordered, made, marks, cut, unbooked, deaths>>

NextSeq(ls) == IF ls = <<>> THEN 0 ELSE ls[Len(ls)].seq + 1

NewLine(p, ref) ==
    [id |-> Len(made) + 1, seq |-> NextSeq(draft[p]), ref |-> ref, age |-> 0,
     marked |-> FALSE, pnl |-> 0]

(* A line put after one that is not ended spoils both. *)
Extended(f, line) ==
    IF f.ended THEN Append(f.lines, line) ELSE [f.lines EXCEPT ![Len(f.lines)] = JUNK]

(* ... and appends. *)
AppendLine(p, ref) ==
    /\ pc[p] = "append"
    /\ file' = [lines |-> Extended(file, NewLine(p, ref)), ended |-> TRUE]
    /\ made' = Append(made, ref)
    /\ Read(p, <<>>)
    /\ Go(p, "mark")
    /\ UNCHANGED <<ordered, marks, active, cut, unbooked, deaths>>

(* Nothing to record: a trade, sent or not, or no token with a price. *)
Trade(p, sends) ==
    /\ pc[p] = "idle"
    /\ ordered' = [ordered EXCEPT ![p] = sends]
    /\ Go(p, "mark")
    /\ active' = active \cup {p}
    /\ UNCHANGED <<file, draft, made, marks, cut, unbooked, deaths>>

(* The tick is over. *)
Return(p) ==
    /\ Go(p, "idle")
    /\ Read(p, <<>>)
    /\ ordered' = [ordered EXCEPT ![p] = FALSE]

(* The file does not parse: the tick raises, order sent or not. *)
Raise(p) ==
    /\ pc[p] = "mark"
    /\ ~Parses
    /\ Return(p)
    /\ unbooked' = (unbooked \/ ordered[p])
    /\ UNCHANGED <<file, made, marks, active, cut, deaths>>

-----------------------------------------------------------------------------
(* mark_to_market *)

(* What a declined buy would have made, in units small enough for whole    *)
(* numbers.                                                                *)
Pnl(ref, px) == ((px - ref) * Size) \div ref

(* Fault: the age is not asked for. *)
Due_Young(r) == ~r.marked

(* Fault: what is marked is marked again. *)
Due_Again(r) == r.age >= MinAge

Due(r) == ~r.marked /\ r.age >= MinAge

MarkAll(ls, px) ==
    [i \in DOMAIN ls |-> IF Due(ls[i]) THEN
                            [ls[i] EXCEPT !.marked = TRUE, !.pnl = Pnl(ls[i].ref, px)]
                         ELSE ls[i]]

(* Fault: the file is written only when every line was marked now. *)
SomeDue_All == \A i \in DOMAIN file.lines : Due(file.lines[i])

SomeDue == \E i \in DOMAIN file.lines : Due(file.lines[i])

(* All the lines are read and the due ones marked with the price ... *)
MarkRead(p, px) ==
    /\ pc[p] = "mark"
    /\ Parses
    /\ SomeDue
    /\ Read(p, MarkAll(file.lines, px))
    /\ Go(p, "open")
    /\ UNCHANGED <<file, ordered, seen>>

(* ... or there is none, or no price. *)
MarkNothing(p) ==
    /\ pc[p] = "mark"
    /\ Parses
    /\ Return(p)
    /\ UNCHANGED <<file, seen>>

(* _write: the file is emptied when it is opened ... *)
OpenFile(p) ==
    /\ pc[p] = "open"
    /\ file' = Empty
    /\ Go(p, "write")
    /\ UNCHANGED <<draft, ordered, seen>>

(* What another process has put there meanwhile and is longer sticks out   *)
(* behind the new text, as whole lines or as half a line.                  *)
Overwritten(f, ls) ==
    {ls} \cup {ls \o SubSeq(f.lines, Len(ls) + 1, Len(f.lines))}
         \cup {Append(ls, JUNK) : i \in DOMAIN f.lines}

(* ... and filled. *)
WriteFile(p) ==
    /\ pc[p] = "write"
    /\ \E ls \in Overwritten(file, draft[p]) : file' = [lines |-> ls, ended |-> TRUE]
    /\ marks' = marks \cup {<<r.id, r.pnl>> : r \in {draft[p][i] : i \in
                    {j \in DOMAIN draft[p] : draft[p][j].marked}}}
    /\ Return(p)
    /\ UNCHANGED <<made, active, cut, unbooked, deaths>>

-----------------------------------------------------------------------------
(* summary() *)

AvoidedLoss(ls) ==
    SumFunctionOnSet([i \in DOMAIN ls |-> -ls[i].pnl],
                     {i \in DOMAIN ls : ls[i].marked /\ ls[i].pnl < 0})

MissedGain(ls) ==
    SumFunctionOnSet([i \in DOMAIN ls |-> ls[i].pnl],
                     {i \in DOMAIN ls : ls[i].marked /\ ls[i].pnl > 0})

NetRestraint(ls) == AvoidedLoss(ls) - MissedGain(ls)

-----------------------------------------------------------------------------
(* What can go wrong *)

Die(p) ==
    /\ deaths < MaxDeaths
    /\ deaths' = deaths + 1
    /\ Return(p)
    /\ UNCHANGED <<marks, active, unbooked>>

(* A process dies before its write ... *)
DieIdle(p) ==
    /\ pc[p] \in {"append", "mark", "open"}
    /\ Die(p)
    /\ UNCHANGED <<file, made, cut>>

(* ... in an append, which leaves part of a line or all but its end ... *)
DieAppending(p, ref) ==
    /\ pc[p] = "append"
    /\ \E line \in {JUNK, NewLine(p, ref)} :
         file' = [lines |-> Extended(file, line), ended |-> FALSE]
    /\ made' = Append(made, ref)
    /\ cut' = TRUE
    /\ Die(p)

(* ... or in a rewrite, which leaves the first lines. *)
DieWriting(p) ==
    /\ pc[p] = "write"
    /\ \E k \in 0 .. Len(draft[p]) :
         \/ file' = [lines |-> SubSeq(draft[p], 1, k), ended |-> TRUE]
         \/ file' = [lines |-> Append(SubSeq(draft[p], 1, k), JUNK), ended |-> FALSE]
    /\ cut' = TRUE
    /\ Die(p)
    /\ UNCHANGED made

(* simulate.run(reset=True) removes the file. *)
Reset ==
    /\ Resets /\ file # Empty
    /\ file' = Empty
    /\ cut' = TRUE
    /\ UNCHANGED <<pc, draft, ordered, made, marks, active, unbooked, deaths>>

Older(ls) ==
    [i \in DOMAIN ls |-> IF ls[i] # JUNK /\ ls[i].age < MinAge
                         THEN [ls[i] EXCEPT !.age = @ + 1] ELSE ls[i]]

Clock ==
    /\ file' = [file EXCEPT !.lines = Older(@)]
    /\ draft' = [p \in Procs |-> Older(draft[p])]
    /\ UNCHANGED <<pc, ordered, seen>>

Tick(p) ==
    \/ BeginRecord(p) \/ (\E ref \in Refs : AppendLine(p, ref))
    \/ (\E sends \in Sends : Trade(p, sends))
    \/ (\E px \in Prices : MarkRead(p, px)) \/ MarkNothing(p) \/ Raise(p)
    \/ OpenFile(p) \/ WriteFile(p)

Fault(p) == DieIdle(p) \/ (\E ref \in Refs : DieAppending(p, ref)) \/ DieWriting(p)

Next == (\E p \in Procs : Tick(p) \/ Fault(p)) \/ Reset \/ Clock

Spec == Init /\ [][Next]_vars

(* Time passes and a process that ticks goes on ticking; the feed has a    *)
(* price for the token now and then.                                       *)
FairSpec ==
    /\ Spec
    /\ WF_vars(Clock)
    /\ \A p \in Procs :
         /\ WF_vars(p \in active /\ Tick(p))
         /\ WF_vars(p \in active /\ \E sends \in Sends : Trade(p, sends))
         /\ SF_vars(\E px \in Prices : MarkRead(p, px))

-----------------------------------------------------------------------------
(* What holds *)

(* The shape of the state. *)
TypeOK ==
    /\ file \in [lines : Lines, ended : BOOLEAN]
    /\ ~file.ended => file.lines # <<>>
    /\ pc \in [Procs -> {"idle", "append", "mark", "open", "write"}]
    /\ draft \in [Procs -> Seq(Abstention)]
    /\ ordered \in [Procs -> BOOLEAN]
    /\ made \in Seq(Refs) /\ marks \subseteq Nat \X Int
    /\ active \subseteq Procs /\ cut \in BOOLEAN /\ unbooked \in BOOLEAN
    /\ deaths \in Nat

(* What a record may say: an abstention that was made, at the price it was *)
(* made at, and a mark from a price at which it had aged.                  *)
Genuine(r, mk) ==
    /\ r.id \in 1 .. Len(mk)
    /\ r.ref = mk[r.id]
    /\ r.marked => r.age = MinAge /\ \E px \in Prices : r.pnl = Pnl(r.ref, px)

(* However many processes write, die and overwrite each other, a line that *)
(* parses is genuine: lines are lost, none is made up and none is marked   *)
(* before its time.                                                        *)
LinesGenuine ==
    \A i \in DOMAIN file.lines : file.lines[i] # JUNK => Genuine(file.lines[i], made)

Alone == Cardinality(active) <= 1 /\ ~cut

(* Every abstention has its line, in order and numbered from nought. *)
Numbered(ls, n) ==
    /\ Len(ls) = n
    /\ \A i \in DOMAIN ls : ls[i] # JUNK /\ ls[i].id = i /\ ls[i].seq = i - 1

MarksIn(ls) == {<<ls[i].id, ls[i].pnl>> : i \in {j \in DOMAIN ls : ls[j].marked}}

Settled == Alone /\ \A p \in Procs : pc[p] # "write"

(* One process that does not die in a write keeps every abstention it      *)
(* recorded through every rewrite, and every mark ever made is still there *)
(* and as it was made: none is marked again at a later price.              *)
LinesKept == Settled => Numbered(file.lines, Len(made)) /\ marks = MarksIn(file.lines)

(* What summary() then shows as net is the result of every mark ever made, *)
(* those that cost upside with those that avoided a loss.                  *)
LedgerKept ==
    /\ LinesKept
    /\ Settled => NetRestraint(file.lines) = SumFunction([m \in marks |-> -m[2]])

(* An abstention does not stay unmarked for ever while the ledger can be   *)
(* read and one process keeps it.                                          *)
EventuallyMarked ==
    \A i \in 1 .. MaxMade :
        (Len(made) >= i) ~> (~Alone \/ \E m \in marks : m[1] = i)

(* The inductive invariant behind LinesGenuine. *)
DraftsGenuine ==
    \A p \in Procs : \A i \in DOMAIN draft[p] : Genuine(draft[p][i], made)
IInv == TypeOK /\ LinesGenuine /\ DraftsGenuine

(* ... and behind LinesKept: what a process alone has in hand at each step *)
(* is what is in the file, or will be.                                     *)
HandInv(p) ==
    /\ pc[p] = "append" => draft[p] = file.lines
    /\ pc[p] = "open" => /\ Numbered(draft[p], Len(made))
                         /\ MarksIn(file.lines) \subseteq MarksIn(draft[p])
    /\ pc[p] = "write" => /\ file = Empty /\ Numbered(draft[p], Len(made))
                          /\ marks \subseteq MarksIn(draft[p])

KeptInv ==
    /\ IsFiniteSet(active) /\ \A p \in Procs : pc[p] # "idle" => p \in active
    /\ Alone => file.ended /\ LinesKept /\ \A p \in Procs : HandInv(p)

(* core.py says of it: "Bookkeeping must never break the trading loop".    *)
BookkeepingHarmless == ~unbooked

=============================================================================
