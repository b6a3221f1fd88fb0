--------------------------- MODULE AuditedTrader ---------------------------
(***************************************************************************)
(* What the live trader promises to somebody who can see only its public   *)
(* record: the decision receipts, the orders the chain was given and the   *)
(* fills that came of them.  There is no loop, no disk, no crash and no    *)
(* mempool here: a trader that decides, sends at most one order for the    *)
(* decision it has just committed, and knows every earlier fill when it    *)
(* does so.  LiveLoop is shown to implement this specification.            *)
(***************************************************************************)
EXTENDS Naturals, Sequences

CONSTANT Receipts    \* the receipts a decision can produce

VARIABLES trail,     \* the receipts committed so far
          sent,      \* the orders sent so far
          filled     \* indices in sent of the orders that filled

vars == <<trail, sent, filled>>

Init ==
    /\ trail = <<>>
    /\ sent = <<>>
    /\ filled = {}

(* A decision is committed to the trail before anything is done about it. *)
Commit ==
    /\ \E r \in Receipts : trail' = Append(trail, r)
    /\ UNCHANGED <<sent, filled>>

(* An order carries the number of the latest receipt, which lets a trade   *)
(* through and has no order yet, and rests on a view with all the fills.   *)
Send ==
    /\ trail # <<>>
    /\ trail[Len(trail)].verdict = "allow"
    /\ \A i \in DOMAIN sent : sent[i].cid # Len(trail)
    /\ \E known \in SUBSET DOMAIN sent :
         /\ filled \subseteq known
         /\ sent' = Append(sent, [cid |-> Len(trail), basis |-> known])
    /\ UNCHANGED <<trail, filled>>

(* Only the latest order is still open. *)
Fill ==
    /\ sent # <<>>
    /\ Len(sent) \notin filled
    /\ filled' = filled \cup {Len(sent)}
    /\ UNCHANGED <<trail, sent>>

Next == Commit \/ Send \/ Fill

Spec == Init /\ [][Next]_vars
=============================================================================
