---------------------------- MODULE NonceManager ----------------------------
(***************************************************************************)
(* Nonce reservation (agent/ops/nonce.py) over the endpoint pool: one      *)
(* manager, the sender that uses it, the account's pending transactions,   *)
(* and other processes that send from the same account.                    *)
(*                                                                         *)
(* An endpoint may lag: the pending count it answers is anything up to the *)
(* true one, and may be lower than an earlier answer.                      *)
(***************************************************************************)
EXTENDS RpcPool, Sequences

CONSTANTS
    History,     \* how many transactions the account may have at the start
    MaxNonce     \* bound: nonces below it are used

ASSUME NonceAssumption == History \subseteq Nat /\ MaxNonce \in Nat

VARIABLES
    mgr,         \* the manager's fields
    sent,        \* nonces of the transactions the network has
    handed,      \* what reserve() returned, in order
    \* observers
    best,        \* the largest pending count the manager has read
    early,       \* did it ask while a reservation was open?
    outcome      \* how the last call of the pool ended

nonceVars == <<healthy, cooling, up, mgr, sent, handed, best, early, outcome>>

(* _next_nonce = None *)
Unset == -1

Manager ==
    [next : Nat \cup {Unset}, reserved : SUBSET Nat, confirmed : SUBSET Nat,
     failed : SUBSET Nat, gapped : BOOLEAN]

NonceInit ==
    /\ PoolInit
    /\ mgr = [next |-> Unset, reserved |-> {}, confirmed |-> {}, failed |-> {},
              gapped |-> FALSE]
    /\ \E h \in History : sent = 0 .. h - 1
    /\ handed = <<>> /\ best = 0 /\ early = FALSE /\ outcome = "none"

Handed == {handed[i] : i \in 1 .. Len(handed)}

(* The pending counts a node that may lag can answer. *)
Counts == {x \in 0 .. MaxNonce : \A n \in 0 .. x - 1 : n \in sent}

-----------------------------------------------------------------------------
(* sync() when the pending count reads x *)

(* Fault: one past the count. *)
NonceSynced_Skip(m, x) ==
    IF m.next = Unset THEN [m EXCEPT !.next = x]
    ELSE IF x > m.next THEN [m EXCEPT !.next = x + 1]
    ELSE m

(* Fault: a chain that caught up clears the gap. *)
NonceSynced_Clear(m, x) ==
    IF m.next = Unset THEN [m EXCEPT !.next = x]
    ELSE [m EXCEPT !.next = IF x > @ THEN x ELSE @, !.gapped = @ /\ x < m.next]

NonceSynced(m, x) ==
    IF m.next = Unset THEN [m EXCEPT !.next = x]
    ELSE LET news == m.next .. x - 1
             next == IF x > m.next THEN x ELSE m.next
             left == m.reserved \ news
         IN  [m EXCEPT !.next = next,
                       !.confirmed = @ \cup news,
                       !.reserved = left,
                       !.gapped = @ \/ (/\ \E r \in left : r < next
                                        /\ \A r \in left : x <= r)]

(* The manager was left at m when it called sync(): the count is read, or  *)
(* the answer is no number and raises, or no endpoint answers.             *)
SyncNonce(m) ==
    /\ \/ \E e \in Endpoints, x \in Counts :
            /\ Answered(e)
            /\ mgr' = NonceSynced(m, x)
            /\ best' = IF x > best THEN x ELSE best
            /\ outcome' = "answered"
       \/ \E e \in Endpoints :
            Answered(e) /\ mgr' = m /\ outcome' = "answered" /\ UNCHANGED best
       \/ AllDown /\ mgr' = m /\ outcome' = "down" /\ UNCHANGED best
    /\ early' = (early \/ m.reserved # {})
    /\ UNCHANGED <<up, sent, handed>>

Poll == SyncNonce(mgr)

-----------------------------------------------------------------------------
(* reserve() *)

(* The first one reads the chain.  When that fails it raises, and has done *)
(* what Poll does.                                                         *)
FirstReserve ==
    /\ mgr.next = Unset /\ ~mgr.gapped
    /\ \E e \in Endpoints, x \in Counts :
         /\ x < MaxNonce
         /\ Answered(e)
         /\ mgr' = [mgr EXCEPT !.next = x + 1, !.reserved = @ \cup {x}]
         /\ handed' = Append(handed, x)
         /\ best' = IF x > best THEN x ELSE best
    /\ outcome' = "answered"
    /\ UNCHANGED <<up, sent, early>>

(* Every other takes the next one, without asking; a gap raises. *)
Reserve ==
    /\ mgr.next # Unset /\ ~mgr.gapped
    /\ mgr.next < MaxNonce
    /\ mgr' = [mgr EXCEPT !.next = @ + 1, !.reserved = @ \cup {mgr.next}]
    /\ handed' = Append(handed, mgr.next)
    /\ UNCHANGED <<healthy, cooling, up, sent, best, early, outcome>>

-----------------------------------------------------------------------------
(* The sender's reports.  A report whose sync raised may be made again, a  *)
(* transaction given up for lost may be confirmed later.                   *)

(* A transaction is mined when all before it are there. *)
OnConfirmed(n) ==
    /\ n \in Handed \cap sent
    /\ \A k \in 0 .. n : k \in sent
    /\ SyncNonce([mgr EXCEPT !.confirmed = @ \cup {n},
                             !.reserved = @ \ {n},
                             !.gapped = @ \/ \E r \in mgr.reserved \ {n} : r < n])

(* Refused, timed out or dropped; the sender cannot tell. *)
OnFailed(n) ==
    /\ n \in Handed \ mgr.confirmed
    /\ SyncNonce([mgr EXCEPT !.failed = @ \cup {n},
                             !.reserved = @ \ {n},
                             !.gapped = @ \/ mgr.next = Unset \/ n < mgr.next])

-----------------------------------------------------------------------------
(* The network *)

Broadcast(n) ==
    /\ n \in mgr.reserved \ sent
    /\ sent' = sent \cup {n}
    /\ UNCHANGED <<healthy, cooling, up, mgr, handed, best, early, outcome>>

(* Another process takes the first nonce that is free. *)
Foreign ==
    /\ \E n \in (0 .. MaxNonce - 1) \ sent :
         /\ \A k \in 0 .. n - 1 : k \in sent
         /\ sent' = sent \cup {n}
    /\ UNCHANGED <<healthy, cooling, up, mgr, handed, best, early, outcome>>

World ==
    \/ Foreign
    \/ (Elapse \/ Flap) /\ UNCHANGED <<mgr, sent, handed, best, early, outcome>>

NonceNext ==
    \/ Poll \/ FirstReserve \/ Reserve
    \/ \E n \in Handed : OnConfirmed(n) \/ OnFailed(n) \/ Broadcast(n)
    \/ World

NonceSpec == NonceInit /\ [][NonceNext]_nonceVars

(* Whoever uses the pool calls it again, as the loop does every tick, and  *)
(* time passes.                                                            *)
NonceFairSpec ==
    /\ NonceSpec
    /\ WF_nonceVars(Poll)
    /\ WF_nonceVars(Elapse /\ UNCHANGED <<mgr, sent, handed, best, early, outcome>>)

-----------------------------------------------------------------------------
(* What holds *)

(* The shape of the state; only numbers are handed out. *)
NonceTypeOK ==
    /\ PoolTypeOK
    /\ mgr \in Manager /\ sent \subseteq Nat /\ handed \in Seq(Nat)
    /\ best \in Nat /\ early \in BOOLEAN
    /\ outcome \in {"none", "answered", "down"}

(* No nonce is handed out twice, whatever the endpoints answer: two        *)
(* transactions with one nonce replace each other.                         *)
NoNonceTwice ==
    \A i, j \in 1 .. Len(handed) : handed[i] = handed[j] => i = j

(* No nonce is left out: every one from the first that was handed out was  *)
(* handed out too, or the chain has counted it.  A hole would keep all the *)
(* later transactions from being mined.                                    *)
NoHole ==
    handed # <<>> =>
        \A n \in handed[1] .. mgr.next - 1 : n \in Handed \/ n < best

(* A nonce the manager has read to be taken is not handed out, although a  *)
(* later answer was lower.                                                 *)
NeverBelowRead ==
    [][handed' # handed => best' <= handed'[Len(handed')]]_nonceVars

(* After a reported failure nothing is handed out any more, also when the  *)
(* call that follows the report raises.                                    *)
FailClosed == [][mgr.failed # {} => handed' = handed]_nonceVars

(* A sender that has one transaction open at a time and asks for the count *)
(* only in between is stopped by failures alone, never by a lagging node.  *)
GapIsReal == mgr.gapped => mgr.failed # {} \/ early

(* The manager implements the allocator. *)
Allocator == INSTANCE NonceAllocator WITH halted <- mgr.gapped
ImplementsAllocator == Allocator!Spec

(* An endpoint that works again is found again: if one stays up, calls     *)
(* keep being answered, however many failures there were before.           *)
PoolRecovers ==
    \A e \in Endpoints : <>[](e \in up) => []<>(outcome = "answered")

(* The inductive invariant. *)
Known ==
    /\ mgr.next = Unset =>
         handed = <<>> /\ mgr.reserved = {} /\ ~mgr.gapped /\ best = 0
    /\ mgr.next # Unset => best <= mgr.next
Ordered ==
    /\ \A i \in 1 .. Len(handed) : handed[i] < mgr.next
    /\ \A i, j \in 1 .. Len(handed) : i < j => handed[i] < handed[j]
Closed == mgr.failed # {} => mgr.gapped

NonceInv == NonceTypeOK /\ Known /\ Ordered /\ Closed /\ NoHole /\ GapIsReal

=============================================================================
