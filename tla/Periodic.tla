------------------------------ MODULE Periodic ------------------------------
(***************************************************************************)
(* Periodic tasks: setperiod() and wait_until_next_period() of             *)
(* proj3/kernel/periodic_tasks.c, the timers of proj3/kernel/timer.c and   *)
(* clockintr() of kernel/trap.c, which fires them, with sys_sleep(),       *)
(* which also waits for ticks.                                             *)
(*                                                                         *)
(* setperiod() writes the timer without a lock while clockintr(), on CPU   *)
(* 0, reads and writes it: every store of the one and every access of the  *)
(* other that matters is a step.  Time is kept as the number of ticks that *)
(* are left: left[p] is next_tick - ticks, and 0 once ticks >= next_tick.  *)
(***************************************************************************)
EXTENDS Integers

CONSTANTS
    NPROC,      \* slots of the process table
    Periods,    \* arguments of setperiod
    Sleeps,     \* arguments of sleep
    FAR         \* more ticks than are considered

ASSUME PeriodicAssumption ==
    /\ NPROC \in Nat \ {0} /\ FAR \in Nat \ {0}
    /\ Periods \subseteq 1..(FAR - 1) /\ Sleeps \subseteq 0..(FAR - 1)

VARIABLES
    state,      \* p->state; RUNNING stands for RUNNABLE and RUNNING
    killed,     \* p->killed
    pc,         \* where the process is
    arg,        \* the period setperiod was called with
    stores,     \* fields xv6timer_init has still to clear
    has,        \* p->timer != 0
    expiry,     \* p->timer->expiry
    left,       \* ticks until p->timer->next_tick
    callback,   \* p->timer->callback
    remaining,  \* ticks until sys_sleep's time has passed
    mine,       \* history: the process in the slot has called setperiod
    clk,        \* where clockintr is
    cur,        \* the slot clockintr is looking at
    loaded,     \* the expiry clockintr has read
    raced,      \* history: setperiod wrote p's timer while clockintr had
                \* an expiry in hand that it had read before
    crashed     \* the kernel has jumped to a wild address

proc == <<state, killed, pc, arg, stores, remaining, mine>>
timer == <<has, expiry, left, callback>>
clock == <<clk, cur, loaded>>
vars == <<proc, timer, clock, raced, crashed>>

Slots == 1..NPROC
Fields == {"expiry", "next_tick", "callback"}
PCs == {"user", "init", "register", "set_expiry", "set_next", "period", "ticks"}
InSetperiod(p) == pc[p] \in {"init", "register", "set_expiry", "set_next"}

Runs(p, l) == ~crashed /\ state[p] = "RUNNING" /\ pc[p] = l
Goto(p, l) == pc' = [pc EXCEPT ![p] = l]

-----------------------------------------------------------------------------
(* sys_setperiod().  A new timer is published in p->timer before it is     *)
(* initialized; kalloc() fills the page with the byte 5, so that next_tick *)
(* is far in the future and callback is not null.  A failing kalloc()      *)
(* leaves no trace.                                                        *)
setperiod(p, n) ==
    /\ Runs(p, "user") /\ ~killed[p]
    /\ arg' = [arg EXCEPT ![p] = n]
    /\ IF has[p]
       THEN Goto(p, "set_expiry") /\ UNCHANGED <<timer, stores>>
       ELSE /\ has' = [has EXCEPT ![p] = TRUE]
            /\ expiry' = [expiry EXCEPT ![p] = FAR]
            /\ left' = [left EXCEPT ![p] = FAR]
            /\ callback' = [callback EXCEPT ![p] = "junk"]
            /\ stores' = [stores EXCEPT ![p] = Fields]
            /\ Goto(p, "init")
    /\ UNCHANGED <<state, killed, remaining, clock, mine, raced, crashed>>

(* xv6timer_init(): three plain stores, which the compiler may reorder.    *)
(* Mutated form: the callback is not cleared.                              *)
xv6timer_init_KeepsCallback(p, f) ==
    /\ Runs(p, "init") /\ f \in stores[p]
    /\ stores' = [stores EXCEPT ![p] = @ \ {f}]
    /\ IF f = "expiry" THEN expiry' = [expiry EXCEPT ![p] = 0] ELSE UNCHANGED expiry
    /\ IF f = "next_tick" THEN left' = [left EXCEPT ![p] = 0] ELSE UNCHANGED left
    /\ IF stores'[p] = {} THEN Goto(p, "register") ELSE UNCHANGED pc
    /\ UNCHANGED <<state, killed, arg, remaining, has, callback, clock, mine, raced, crashed>>

xv6timer_init(p, f) ==
    /\ Runs(p, "init") /\ f \in stores[p]
    /\ stores' = [stores EXCEPT ![p] = @ \ {f}]
    /\ IF f = "expiry" THEN expiry' = [expiry EXCEPT ![p] = 0] ELSE UNCHANGED expiry
    /\ IF f = "next_tick" THEN left' = [left EXCEPT ![p] = 0] ELSE UNCHANGED left
    /\ IF f = "callback" THEN callback' = [callback EXCEPT ![p] = "null"] ELSE UNCHANGED callback
    /\ IF stores'[p] = {} THEN Goto(p, "register") ELSE UNCHANGED pc
    /\ UNCHANGED <<state, killed, arg, remaining, has, clock, mine, raced, crashed>>

xv6timer_register_callback(p) ==
    /\ Runs(p, "register")
    /\ callback' = [callback EXCEPT ![p] = "period_callback"]
    /\ Goto(p, "set_expiry")
    /\ UNCHANGED <<state, killed, arg, stores, remaining, has, expiry, left,
                   clock, mine, raced, crashed>>

(* xv6timer_forward(): expiry, then next_tick.  Mutated form of the second *)
(* store: it is missing.                                                   *)
xv6timer_forward_expiry(p) ==
    /\ Runs(p, "set_expiry")
    /\ expiry' = [expiry EXCEPT ![p] = arg[p]]
    /\ raced' = [raced EXCEPT ![p] = (clk = "store" /\ cur = p)]
    /\ Goto(p, "set_next")
    /\ UNCHANGED <<state, killed, arg, stores, remaining, has, left, callback,
                   clock, mine, crashed>>

xv6timer_forward_next_Missing(p) ==
    /\ Runs(p, "set_next")
    /\ arg' = [arg EXCEPT ![p] = 0]
    /\ mine' = [mine EXCEPT ![p] = TRUE]
    /\ Goto(p, "user")
    /\ UNCHANGED <<state, killed, stores, remaining, timer, clock, raced, crashed>>

xv6timer_forward_next(p) ==
    /\ Runs(p, "set_next")
    /\ left' = [left EXCEPT ![p] = arg[p]]
    /\ arg' = [arg EXCEPT ![p] = 0]
    /\ mine' = [mine EXCEPT ![p] = TRUE]
    /\ Goto(p, "user")
    /\ UNCHANGED <<state, killed, stores, remaining, has, expiry, callback,
                   clock, raced, crashed>>

(* kill() may come between the last look at p->killed and the moment when  *)
(* the process takes p->lock to sleep; it then sleeps in spite of it.      *)
KillMayLand(p) == killed' \in {killed, [killed EXCEPT ![p] = TRUE]}

(* sys_wait_until_next_period() sleeps without a channel and without a     *)
(* loop: whatever makes it RUNNABLE ends the wait.  Without a timer it     *)
(* returns at once.                                                        *)
wait_until_next_period(p) ==
    /\ Runs(p, "user") /\ ~killed[p] /\ has[p]
    /\ state' = [state EXCEPT ![p] = "SLEEPING"]
    /\ Goto(p, "period")
    /\ KillMayLand(p)
    /\ UNCHANGED <<arg, stores, remaining, timer, clock, mine, raced, crashed>>

PeriodBegins(p) ==
    /\ Runs(p, "period")
    /\ Goto(p, "user")
    /\ UNCHANGED <<state, killed, arg, stores, remaining, timer, clock, mine, raced, crashed>>

(* sys_sleep(n), with tickslock: clockintr holds it except when idle.      *)
sys_sleep(p, n) ==
    /\ Runs(p, "user") /\ ~killed[p] /\ clk = "idle"
    /\ remaining' = [remaining EXCEPT ![p] = n]
    /\ Goto(p, "ticks")
    /\ UNCHANGED <<state, killed, arg, stores, timer, clock, mine, raced, crashed>>

SleepReturns(p) ==
    /\ Runs(p, "ticks") /\ clk = "idle"
    /\ remaining[p] = 0 \/ killed[p]
    /\ remaining' = [remaining EXCEPT ![p] = 0]
    /\ Goto(p, "user")
    /\ UNCHANGED <<state, killed, arg, stores, timer, clock, mine, raced, crashed>>

SleepLoops(p) ==
    /\ Runs(p, "ticks") /\ clk = "idle"
    /\ remaining[p] > 0 /\ ~killed[p]
    /\ state' = [state EXCEPT ![p] = "SLEEPING"]
    /\ KillMayLand(p)
    /\ UNCHANGED <<pc, arg, stores, remaining, timer, clock, mine, raced, crashed>>

kill(p) ==
    /\ ~crashed /\ state[p] # "UNUSED"
    /\ killed' = [killed EXCEPT ![p] = TRUE]
    /\ state' = [state EXCEPT ![p] = "RUNNING"]
    /\ UNCHANGED <<pc, arg, stores, remaining, timer, clock, mine, raced, crashed>>

(* exit() and the parent's wait(): freeproc() leaves p->timer alone, and   *)
(* so does allocproc() when fork() uses the slot again.                    *)
freeproc(p) ==
    /\ Runs(p, "user")
    /\ state' = [state EXCEPT ![p] = "UNUSED"]
    /\ killed' = [killed EXCEPT ![p] = FALSE]
    /\ mine' = [mine EXCEPT ![p] = FALSE]
    /\ raced' = [raced EXCEPT ![p] = FALSE]
    /\ UNCHANGED <<pc, arg, stores, remaining, timer, clock, crashed>>

allocproc(p) ==
    /\ ~crashed /\ state[p] = "UNUSED"
    /\ state' = [state EXCEPT ![p] = "RUNNING"]
    /\ UNCHANGED <<killed, pc, arg, stores, remaining, timer, clock, mine, raced, crashed>>

-----------------------------------------------------------------------------
(* clockintr() on CPU 0: ticks++, then one timer after the other.          *)
Less(n) == IF n \in {0, FAR} THEN n ELSE n - 1

clockintr ==
    /\ ~crashed /\ clk = "idle"
    /\ left' = [p \in Slots |-> Less(left[p])]
    /\ remaining' = [p \in Slots |-> Less(remaining[p])]
    /\ clk' = "scan"
    /\ UNCHANGED <<state, killed, pc, arg, stores, has, expiry, callback,
                   cur, loaded, mine, raced, crashed>>

(* The tests on a slot.  A timer that is due is fired when its callback is *)
(* not null; calling what kalloc() left there sends the kernel off.        *)
Due(p) == state[p] # "UNUSED" /\ has[p] /\ left[p] = 0 /\ callback[p] # "null"

ClockTests ==
    /\ ~crashed /\ clk = "scan" /\ cur <= NPROC
    /\ IF Due(cur)
       THEN clk' = "fire" /\ crashed' = (callback[cur] = "junk") /\ UNCHANGED cur
       ELSE cur' = cur + 1 /\ UNCHANGED <<clk, crashed>>
    /\ UNCHANGED <<proc, timer, loaded, raced>>

(* period_callback(): a process that sleeps, for whatever reason, becomes  *)
(* RUNNABLE; for one that does not, the period passes unnoticed.           *)
(* Mutated form: the callback wakes nobody.                                *)
period_callback_NoWakeup ==
    /\ ~crashed /\ clk = "fire"
    /\ clk' = "load"
    /\ UNCHANGED <<proc, timer, cur, loaded, raced, crashed>>

period_callback ==
    /\ ~crashed /\ clk = "fire"
    /\ state' = [state EXCEPT ![cur] = IF @ = "SLEEPING" THEN "RUNNING" ELSE @]
    /\ clk' = "load"
    /\ UNCHANGED <<killed, pc, arg, stores, remaining, timer, cur, loaded, mine, raced, crashed>>

(* next_tick = ticks + expiry: a load and a store.                         *)
ClockLoads ==
    /\ ~crashed /\ clk = "load"
    /\ loaded' = expiry[cur]
    /\ clk' = "store"
    /\ UNCHANGED <<proc, timer, cur, raced, crashed>>

ClockStores ==
    /\ ~crashed /\ clk = "store"
    /\ left' = [left EXCEPT ![cur] = loaded]
    /\ clk' = "scan" /\ cur' = cur + 1 /\ loaded' = 0
    /\ UNCHANGED <<proc, has, expiry, callback, raced, crashed>>

(* wakeup(&ticks), then release of tickslock.                              *)
ClockWakes ==
    /\ ~crashed /\ clk = "scan" /\ cur > NPROC
    /\ state' = [p \in Slots |-> IF state[p] = "SLEEPING" /\ pc[p] = "ticks"
                                 THEN "RUNNING" ELSE state[p]]
    /\ clk' = "idle" /\ cur' = 1
    /\ UNCHANGED <<killed, pc, arg, stores, remaining, timer, loaded, mine, raced, crashed>>

Halted == crashed /\ UNCHANGED vars

-----------------------------------------------------------------------------
Init ==
    /\ state = [p \in Slots |-> "UNUSED"]
    /\ killed = [p \in Slots |-> FALSE]
    /\ pc = [p \in Slots |-> "user"]
    /\ arg = [p \in Slots |-> 0]
    /\ stores = [p \in Slots |-> {}]
    /\ has = [p \in Slots |-> FALSE]
    /\ expiry = [p \in Slots |-> 0]
    /\ left = [p \in Slots |-> 0]
    /\ callback = [p \in Slots |-> "null"]
    /\ remaining = [p \in Slots |-> 0]
    /\ mine = [p \in Slots |-> FALSE]
    /\ clk = "idle" /\ cur = 1 /\ loaded = 0
    /\ raced = [p \in Slots |-> FALSE]
    /\ crashed = FALSE

InKernel(p) ==
    \/ \E f \in Fields : xv6timer_init(p, f)
    \/ xv6timer_register_callback(p)
    \/ xv6timer_forward_expiry(p) \/ xv6timer_forward_next(p)
    \/ PeriodBegins(p)
    \/ SleepReturns(p) \/ SleepLoops(p)

ClockStep ==
    clockintr \/ ClockTests \/ period_callback \/ ClockLoads \/ ClockStores \/ ClockWakes

Next ==
    \/ \E p \in Slots :
          \/ \E n \in Periods : setperiod(p, n)
          \/ \E n \in Sleeps : sys_sleep(p, n)
          \/ wait_until_next_period(p)
          \/ kill(p) \/ freeproc(p) \/ allocproc(p)
          \/ InKernel(p)
    \/ ClockStep
    \/ Halted

Spec == Init /\ [][Next]_vars

(* Clock interrupts keep coming and clockintr runs to its end; a process   *)
(* inside a system call is scheduled, and gets tickslock, which is free    *)
(* again and again, in the end (strong fairness).                          *)
Fairness == WF_vars(ClockStep) /\ \A p \in Slots : SF_vars(InKernel(p))

FairSpec == Spec /\ Fairness

-----------------------------------------------------------------------------
(* Every variable keeps its type, timers included: no timer is set further *)
(* ahead than the longest period, unless it has not been initialized.      *)
TypeOK ==
    /\ state \in [Slots -> {"UNUSED", "RUNNING", "SLEEPING"}]
    /\ killed \in [Slots -> BOOLEAN]
    /\ pc \in [Slots -> PCs]
    /\ arg \in [Slots -> Periods \cup {0}]
    /\ stores \in [Slots -> SUBSET Fields]
    /\ has \in [Slots -> BOOLEAN]
    /\ expiry \in [Slots -> 0..FAR]
    /\ left \in [Slots -> 0..FAR]
    /\ callback \in [Slots -> {"null", "junk", "period_callback"}]
    /\ remaining \in [Slots -> 0..FAR]
    /\ mine \in [Slots -> BOOLEAN]
    /\ clk \in {"idle", "scan", "fire", "load", "store"}
    /\ cur \in 1..(NPROC + 1) /\ loaded \in 0..FAR
    /\ raced \in [Slots -> BOOLEAN] /\ crashed \in BOOLEAN

(* A process in wait_until_next_period has a timer that will wake it: its  *)
(* callback is registered, its period is positive, and it is due within    *)
(* the longest period, however setperiod and clockintr interleaved.        *)
WaiterHasTimer ==
    \A p \in Slots :
        pc[p] = "period" => /\ has[p] /\ callback[p] = "period_callback"
                            /\ expiry[p] \in Periods
                            /\ left[p] < FAR

(* The only callback that is not period_callback which clockintr can call  *)
(* is the junk in a page that the process on another CPU is just turning   *)
(* into a timer: once xv6timer_init is over, and for every later owner of  *)
(* the slot, what is called was registered.                                *)
CrashOnlyInInit == crashed => pc[cur] = "init" /\ stores[cur] # {}

(* Once setperiod has returned to the process that called it, the timer    *)
(* triggers next after one to expiry ticks, except where setperiod changed *)
(* the expiry after clockintr had read the old one and before it stored    *)
(* next_tick.                                                              *)
NextWithinPeriod ==
    \A p \in Slots :
        mine[p] /\ ~InSetperiod(p) /\ clk = "idle" =>
            left[p] \in 1..expiry[p] \/ raced[p]

(* Waiting for time comes to an end: a process in wait_until_next_period   *)
(* is made RUNNABLE by its timer, and a sleep(n) counts its ticks, woken by *)
(* each and by whatever else wakes it, unless the kernel has crashed.      *)
WaitsEnd ==
    \A p \in Slots :
        /\ (pc[p] = "period" /\ state[p] = "SLEEPING") ~> (state[p] # "SLEEPING" \/ crashed)
        /\ (pc[p] = "ticks") ~> (pc[p] # "ticks" \/ crashed)
=============================================================================
