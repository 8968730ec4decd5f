----------------------------- MODULE MCSleepLock -----------------------------
(* Small instances, for TLC, of the buffer cache (module Bio) and of the    *)
(* sleep lock that each of its buffers has (module SleepLock).  A behaviour *)
(* is one of the former or of the latter: the other's state does not        *)
(* change.                                                                  *)
EXTENDS Bio

CONSTANT Contenders     \* the processes that use the sleep lock

(* pid 0, which releasesleep() stores, is no process.                       *)
ASSUME LockAssumption == NONE \notin Contenders

VARIABLES on, lk, locked, pid, plock, state, scan, pc

lockvars == <<lk, locked, pid, plock, state, scan, pc>>
allvars == <<vars, lockvars, on>>

S == INSTANCE SleepLock WITH Procs <- Contenders

InitAll == on \in {"lock", "cache"} /\ Init /\ S!Init

NextAll ==
    \/ on = "lock" /\ S!Next /\ UNCHANGED <<vars, on>>
    \/ on = "cache" /\ Next /\ UNCHANGED <<lockvars, on>>

SpecAll ==
    /\ InitAll /\ [][NextAll]_allvars
    /\ \A p \in Contenders :
          /\ WF_lockvars(on = "lock" /\ S!Step(p))
          /\ WF_lockvars(on = "lock" /\ S!Release(p))

(* acquiresleep() of sleeplock.c gives the lock to one process at a time.   *)
MutualExclusion == S!MutualExclusion

(* While processes want the lock, somebody gets it (sleeplock.c, proc.c).   *)
SomebodyGetsIt == S!SomebodyGetsIt
=============================================================================
