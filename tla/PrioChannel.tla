---------------------------- MODULE PrioChannel -----------------------------
(***************************************************************************)
(* What a prioritised pipe promises: a channel that holds a set of tasks   *)
(* and always hands out one of highest priority.  "Server processes client *)
(* requests in priority order" (README) is the statement made precise.     *)
(* Tasks of equal priority come out in any order.  A task whose write      *)
(* succeeded may still be discarded, but never twice handed out.           *)
(***************************************************************************)
EXTENDS Integers

CONSTANTS Prios

VARIABLES pending, nsent, got, dropped

vars == <<pending, nsent, got, dropped>>

Init == pending = {} /\ nsent = 0 /\ got = {} /\ dropped = {}

Put ==
    /\ nsent' = nsent + 1
    /\ \E prio \in Prios :
          pending' = pending \cup {[priority |-> prio, id |-> nsent']}
    /\ UNCHANGED <<got, dropped>>

Refuse ==
    /\ nsent' = nsent + 1
    /\ dropped' = dropped \cup {nsent'}
    /\ UNCHANGED <<pending, got>>

Take ==
    \E t \in pending :
        /\ \A u \in pending : t.priority >= u.priority
        /\ pending' = pending \ {t}
        /\ \/ got' = got \cup {t.id} /\ UNCHANGED dropped
           \/ dropped' = dropped \cup {t.id} /\ UNCHANGED got
        /\ UNCHANGED nsent

Discard ==
    /\ pending' = {}
    /\ dropped' = dropped \cup {t.id : t \in pending}
    /\ UNCHANGED <<nsent, got>>

Next == Put \/ Refuse \/ Take \/ Discard

Spec == Init /\ [][Next]_vars
=============================================================================
