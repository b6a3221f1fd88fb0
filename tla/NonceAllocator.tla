--------------------------- MODULE NonceAllocator ---------------------------
(***************************************************************************)
(* What a sender may rely on: nonces are handed out in increasing order,   *)
(* and once the allocator has stopped it has stopped for good.             *)
(***************************************************************************)
EXTENDS Integers, Sequences

VARIABLES
    handed,   \* the nonces handed out, in order
    halted

Init == handed = <<>> /\ halted = FALSE

(* The nonce that was handed out last. *)
Newest(seq) == seq[Len(seq)]

Hand ==
    /\ ~halted
    /\ Len(handed') = Len(handed) + 1
    /\ Newest(handed') \in Nat
    /\ \A i \in 1 .. Len(handed) : handed[i] < Newest(handed')
    /\ handed' = Append(handed, Newest(handed'))
    /\ UNCHANGED halted

Halt == ~halted /\ halted' = TRUE /\ UNCHANGED handed

Next == Hand \/ Halt

Spec == Init /\ [][Next]_<<handed, halted>>

=============================================================================
