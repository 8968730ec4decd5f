----------------------------- MODULE ByteStream -----------------------------
(***************************************************************************)
(* What a pipe promises: a bounded stream of bytes.  Bytes are numbered in *)
(* the order in which writes put them in; a read takes some from the front *)
(* and hands them over in that order.  The last byte a read takes may fail *)
(* to reach it.  Whatever is inside when the pipe goes away is lost.       *)
(***************************************************************************)
EXTENDS Naturals, Sequences

CONSTANT Capacity

VARIABLES pending, nsent, got

vars == <<pending, nsent, got>>

Init == pending = <<>> /\ nsent = 0 /\ got = <<>>

Put ==
    \E k \in 1..Capacity - Len(pending) :
        /\ nsent' = nsent + k
        /\ pending' = pending \o [j \in 1..k |-> nsent + j]
        /\ UNCHANGED got

Take ==
    \E k \in 1..Len(pending) : \E handed \in {k - 1, k} :
        /\ got' = got \o SubSeq(pending, 1, handed)
        /\ pending' = SubSeq(pending, k + 1, Len(pending))
        /\ UNCHANGED nsent

Discard ==
    /\ pending' = <<>>
    /\ UNCHANGED <<nsent, got>>

Next == Put \/ Take \/ Discard

Spec == Init /\ [][Next]_vars
=============================================================================
