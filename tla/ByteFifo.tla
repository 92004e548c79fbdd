------------------------------ MODULE ByteFifo ------------------------------
(***************************************************************************)
(* What buffer.c promises the code around it: a bounded first-in first-out *)
(* queue of bytes.  `accepted' is every byte ever stored and `taken' every *)
(* byte ever handed on; what is queued is the rest of accepted.            *)
(***************************************************************************)
EXTENDS Integers, Sequences

CONSTANTS Capacity, Byte

VARIABLES accepted, taken

Queued == Len(accepted) - Len(taken)

Init == accepted = <<>> /\ taken = <<>>

(* Bytes enter at the end, never more than there is place for *)
Accept ==
    /\ taken' = taken
    /\ Len(accepted') > Len(accepted)
    /\ SubSeq(accepted', 1, Len(accepted)) = accepted
    /\ Len(accepted') - Len(taken) <= Capacity

(* Bytes leave in the order in which they came, each exactly once *)
Take ==
    /\ accepted' = accepted
    /\ Len(taken') > Len(taken)
    /\ Len(taken') <= Len(accepted)
    /\ taken' = SubSeq(accepted, 1, Len(taken'))

Next == Accept \/ Take

Spec == Init /\ [][Next]_<<accepted, taken>>
=============================================================================
