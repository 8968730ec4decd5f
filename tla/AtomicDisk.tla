----------------------------- MODULE AtomicDisk ------------------------------
(***************************************************************************)
(* What kernel/log.c promises to the file system: the updates of the       *)
(* system calls between begin_op() and end_op() reach the disk together,   *)
(* and only when none of them is under way; a crash takes the file system  *)
(* back to what the disk held, never to half of a system call.             *)
(***************************************************************************)
CONSTANTS Procs, Blocks, Vals

VARIABLES
    durable,    \* what a crash leaves
    current,    \* what the file system reads
    active      \* processes between begin_op() and end_op()

vars == <<durable, current, active>>

Init ==
    /\ durable \in [Blocks -> Vals]
    /\ current = durable
    /\ active = {}

Begin(p) ==
    /\ p \notin active
    /\ active' = active \cup {p}
    /\ UNCHANGED <<durable, current>>

Write(p, b, v) ==
    /\ p \in active
    /\ current' = [current EXCEPT ![b] = v]
    /\ UNCHANGED <<durable, active>>

End(p) ==
    /\ p \in active
    /\ active' = active \ {p}
    /\ UNCHANGED <<durable, current>>

Commit ==
    /\ active = {}
    /\ durable' = current
    /\ UNCHANGED <<current, active>>

Crash ==
    /\ current' = durable
    /\ active' = {}
    /\ UNCHANGED durable

Next ==
    \/ \E p \in Procs : Begin(p) \/ End(p)
    \/ \E p \in Procs, b \in Blocks, v \in Vals : Write(p, b, v)
    \/ Commit
    \/ Crash

Spec == Init /\ [][Next]_vars
=============================================================================
