--------------------------- MODULE PeriodicProofs ---------------------------
(***************************************************************************)
(* Proofs about the timers of module Periodic, for any number of slots and *)
(* any set of periods.                                                     *)
(***************************************************************************)
EXTENDS Periodic, TLAPS

(* How far setperiod() has come with the timer of a slot.  What kalloc()   *)
(* left there goes field by field; the callback is registered and the      *)
(* expiry positive before the call returns, and remain so for every later  *)
(* owner of the slot.                                                      *)
SlotOK(p) ==
    /\ mine[p] => state[p] # "UNUSED" /\ has[p]
    /\ pc[p] = "init" => /\ has[p] /\ stores[p] # {} /\ callback[p] # "period_callback"
                         /\ "expiry" \in stores[p] \/ expiry[p] = 0
    /\ pc[p] = "register" => has[p] /\ expiry[p] = 0 /\ callback[p] = "null"
    /\ InSetperiod(p) => arg[p] \in Periods
    /\ pc[p] = "set_next" => expiry[p] = arg[p]
    /\ pc[p] \in {"set_expiry", "set_next", "period"} => has[p]
    /\ callback[p] = "junk" => pc[p] = "init" /\ "callback" \in stores[p]
    /\ has[p] /\ pc[p] \notin {"init", "register"} =>
          /\ callback[p] = "period_callback" /\ expiry[p] \in Periods \cup {0}
          /\ pc[p] # "set_expiry" => expiry[p] \in Periods
    /\ has[p] /\ ~InSetperiod(p) => left[p] < FAR

SlotsOK == \A p \in Slots : SlotOK(p)

(* clockintr() fires registered callbacks only, and stores what it read    *)
(* from expiry, which is still there unless setperiod() has raced with it. *)
ClockOK ==
    /\ clk = "idle" => cur = 1
    /\ clk \in {"fire", "load", "store"} =>
          /\ cur \in Slots /\ has[cur]
          /\ ~crashed => callback[cur] = "period_callback"
    /\ clk = "store" =>
          /\ loaded \in Periods \cup {0}
          /\ ~raced[cur] /\ (mine[cur] \/ pc[cur] = "set_next") => loaded = expiry[cur]

(* A timer whose time has come is one that clockintr() has still to reach. *)
Timely(p) ==
    mine[p] /\ ~InSetperiod(p) /\ ~raced[p] =>
        /\ left[p] <= expiry[p]
        /\ left[p] = 0 => clk # "idle" /\ cur <= p

TimersTimely == \A p \in Slots : Timely(p)

IInv == TypeOK /\ SlotsOK /\ ClockOK /\ CrashOnlyInInit /\ TimersTimely

(* What the assumption says of the numbers of ticks.                       *)
LEMMA Ticks ==
  /\ 0 \in 0..FAR /\ FAR \in 0..FAR
  /\ \A t \in Periods \cup Sleeps : t \in 0..FAR /\ t < FAR
  BY PeriodicAssumption

LEMMA InitIInv == Init => IInv
<1> SUFFICES ASSUME Init PROVE IInv
  OBVIOUS
<1>1. TypeOK
  <2>1. cur \in 1..(NPROC + 1)
    BY PeriodicAssumption DEF Init
  <2> QED BY <2>1, Ticks, Zenon DEF Init, TypeOK, PCs
<1>2. SlotsOK /\ ClockOK /\ TimersTimely
  BY DEF Init, SlotsOK, SlotOK, ClockOK, TimersTimely, Timely, InSetperiod
<1> QED BY <1>1, <1>2 DEF Init, IInv, CrashOnlyInInit

(* Every action keeps the types; one step for each.                        *)
LEMMA TypeOKStep ==
  ASSUME TypeOK, ClockOK, [Next]_vars
  PROVE  TypeOK'
<1>1. ASSUME NEW p \in Slots, NEW n \in Periods, setperiod(p, n) PROVE TypeOK'
  <2>1. CASE has[p]
    BY <1>1, <2>1, Ticks DEF setperiod, Goto, timer, clock, TypeOK, PCs
  <2>2. CASE ~has[p]
    <3>1. expiry' \in [Slots -> 0..FAR] /\ left' \in [Slots -> 0..FAR]
      BY <1>1, <2>2, Ticks DEF setperiod, TypeOK
    <3>2. /\ has' \in [Slots -> BOOLEAN] /\ stores' \in [Slots -> SUBSET Fields]
          /\ callback' \in [Slots -> {"null", "junk", "period_callback"}]
      <4>1. /\ has' = [has EXCEPT ![p] = TRUE] /\ stores' = [stores EXCEPT ![p] = Fields]
            /\ callback' = [callback EXCEPT ![p] = "junk"]
        BY <1>1, <2>2, Zenon DEF setperiod
      <4>2. has' \in [Slots -> BOOLEAN]
        BY <4>1, Zenon DEF TypeOK
      <4>3. stores' \in [Slots -> SUBSET Fields]
        BY <4>1, Zenon DEF TypeOK
      <4>4. callback' \in [Slots -> {"null", "junk", "period_callback"}]
        BY <4>1, Zenon DEF TypeOK
      <4> QED BY <4>2, <4>3, <4>4, Zenon
    <3>3. pc' \in [Slots -> PCs] /\ arg' \in [Slots -> Periods \cup {0}]
      BY <1>1, <2>2 DEF setperiod, Goto, TypeOK, PCs
    <3> QED BY <1>1, <3>1, <3>2, <3>3 DEF setperiod, clock, TypeOK
  <2> QED BY <2>1, <2>2
<1>2. ASSUME NEW p \in Slots, NEW n \in Sleeps, sys_sleep(p, n) PROVE TypeOK'
  BY <1>2, Ticks DEF sys_sleep, Goto, timer, clock, TypeOK, PCs
<1>3. ASSUME NEW p \in Slots, wait_until_next_period(p) PROVE TypeOK'
  BY <1>3, Zenon
     DEF wait_until_next_period, Runs, Goto, KillMayLand, timer, clock, TypeOK,
         PCs
<1>4. ASSUME NEW p \in Slots, kill(p) PROVE TypeOK'
  BY <1>4
     DEF kill, timer, clock, TypeOK, PCs
<1>5. ASSUME NEW p \in Slots, freeproc(p) PROVE TypeOK'
  BY <1>5
     DEF freeproc, Runs, timer, clock, TypeOK, PCs
<1>6. ASSUME NEW p \in Slots, allocproc(p) PROVE TypeOK'
  BY <1>6
     DEF allocproc, timer, clock, TypeOK, PCs
<1>7. ASSUME NEW p \in Slots, NEW f \in Fields, xv6timer_init(p, f) PROVE TypeOK'
  <2>1. expiry' \in [Slots -> 0..FAR] /\ left' \in [Slots -> 0..FAR]
    BY <1>7, Ticks DEF xv6timer_init, TypeOK
  <2>2. callback' \in [Slots -> {"null", "junk", "period_callback"}]
    BY <1>7 DEF xv6timer_init, TypeOK
  <2>3. pc' \in [Slots -> PCs] /\ stores' \in [Slots -> SUBSET Fields]
    BY <1>7 DEF xv6timer_init, Goto, TypeOK, PCs
  <2> QED BY <1>7, <2>1, <2>2, <2>3 DEF xv6timer_init, clock, TypeOK
<1>8. ASSUME NEW p \in Slots, xv6timer_register_callback(p) PROVE TypeOK'
  BY <1>8
     DEF xv6timer_register_callback, Runs, Goto, clock, TypeOK, PCs
<1>9. ASSUME NEW p \in Slots, xv6timer_forward_expiry(p) PROVE TypeOK'
  <2>1. expiry' \in [Slots -> 0..FAR]
    BY <1>9, Ticks DEF xv6timer_forward_expiry, TypeOK
  <2>2. raced' \in [Slots -> BOOLEAN]
    <3>1. (clk = "store" /\ cur = p) \in BOOLEAN
      OBVIOUS
    <3> QED BY <1>9, <3>1 DEF xv6timer_forward_expiry, TypeOK
  <2>3. pc' \in [Slots -> PCs]
    BY <1>9 DEF xv6timer_forward_expiry, Goto, TypeOK, PCs
  <2> QED BY <1>9, <2>1, <2>2, <2>3 DEF xv6timer_forward_expiry, clock, TypeOK
<1>10. ASSUME NEW p \in Slots, xv6timer_forward_next(p) PROVE TypeOK'
  <2>1. left' \in [Slots -> 0..FAR]
    <3>1. arg[p] \in 0..FAR
      BY Ticks DEF TypeOK
    <3> QED BY <1>10, <3>1 DEF xv6timer_forward_next, TypeOK
  <2>2. pc' \in [Slots -> PCs] /\ arg' \in [Slots -> Periods \cup {0}]
    BY <1>10 DEF xv6timer_forward_next, Goto, TypeOK, PCs
  <2>3. mine' \in [Slots -> BOOLEAN]
    BY <1>10 DEF xv6timer_forward_next, TypeOK
  <2> QED BY <1>10, <2>1, <2>2, <2>3 DEF xv6timer_forward_next, clock, TypeOK
<1>11. ASSUME NEW p \in Slots, PeriodBegins(p) PROVE TypeOK'
  BY <1>11
     DEF PeriodBegins, Runs, Goto, timer, clock, TypeOK, PCs
<1>12. ASSUME NEW p \in Slots, SleepReturns(p) PROVE TypeOK'
  BY <1>12, Ticks DEF SleepReturns, Goto, timer, clock, TypeOK, PCs
<1>13. ASSUME NEW p \in Slots, SleepLoops(p) PROVE TypeOK'
  BY <1>13, Zenon
     DEF SleepLoops, Runs, KillMayLand, timer, clock, TypeOK, PCs
<1>14. CASE clockintr
  <2>1. \A t \in 0..FAR : Less(t) \in 0..FAR
    BY PeriodicAssumption DEF Less
  <2>2. left' \in [Slots -> 0..FAR] /\ remaining' \in [Slots -> 0..FAR]
    BY <1>14, <2>1 DEF clockintr, TypeOK
  <2> QED BY <1>14, <2>2 DEF clockintr, TypeOK
<1>15. CASE ClockTests
  <2>1. crashed' \in BOOLEAN
    BY <1>15, Zenon DEF ClockTests, TypeOK
  <2>2. cur' \in 1..(NPROC + 1) /\ clk' \in {"scan", "fire"}
    BY <1>15, PeriodicAssumption DEF ClockTests, TypeOK
  <2> QED BY <1>15, <2>1, <2>2 DEF ClockTests, proc, timer, TypeOK
<1>16. CASE period_callback
  BY <1>16, Zenon
     DEF period_callback, timer, TypeOK, PCs
<1>17. CASE ClockLoads
  BY <1>17
     DEF ClockLoads, proc, timer, TypeOK, ClockOK
<1>18. CASE ClockStores
  <2>1. cur' \in 1..(NPROC + 1)
    BY <1>18, PeriodicAssumption DEF ClockStores, ClockOK, Slots
  <2>2. left' \in [Slots -> 0..FAR] /\ loaded' \in 0..FAR
    BY <1>18, Ticks, Zenon DEF ClockStores, TypeOK
  <2> QED BY <1>18, <2>1, <2>2 DEF ClockStores, proc, TypeOK
<1>19. CASE ClockWakes
  BY <1>19, PeriodicAssumption
     DEF ClockWakes, timer, TypeOK
<1>20. CASE UNCHANGED vars
  BY <1>20
     DEF vars, proc, timer, clock, TypeOK, PCs
<1> QED
  BY <1>1, <1>2, <1>3, <1>4, <1>5, <1>6, <1>7, <1>8, <1>9, <1>10, <1>11, <1>12,
     <1>13, <1>14, <1>15, <1>16, <1>17, <1>18, <1>19, <1>20
     DEF Next, InKernel, ClockStep, Halted

(* Every action keeps the stages of setperiod().                           *)
LEMMA SlotsStep ==
  ASSUME TypeOK, SlotsOK, ClockOK, [Next]_vars
  PROVE  SlotsOK'
<1>1. ASSUME NEW p \in Slots, NEW n \in Periods, setperiod(p, n) PROVE SlotsOK'
  <2>1. CASE has[p]
    BY <1>1, <2>1 DEF setperiod, Runs, Goto, timer, TypeOK, SlotsOK, SlotOK, InSetperiod
  <2>2. CASE ~has[p]
    <3>1. \A q \in Slots : q # p => SlotOK(q)'
      BY <1>1, <2>2 DEF setperiod, Goto, TypeOK, SlotsOK, SlotOK, InSetperiod
    <3>2. SlotOK(p)'
      BY <1>1, <2>2 DEF setperiod, Runs, Goto, TypeOK, SlotsOK, SlotOK, InSetperiod, Fields
    <3> QED BY <3>1, <3>2, Zenon DEF SlotsOK
  <2> QED BY <2>1, <2>2
<1>2. ASSUME NEW p \in Slots, NEW n \in Sleeps, sys_sleep(p, n) PROVE SlotsOK'
  BY <1>2, PeriodicAssumption
     DEF sys_sleep, Runs, Goto, timer, clock, TypeOK, SlotsOK, SlotOK, ClockOK,
         InSetperiod
<1>3. ASSUME NEW p \in Slots, wait_until_next_period(p) PROVE SlotsOK'
  <2>1. UNCHANGED <<has, mine, arg, expiry, callback, left, stores>>
    BY <1>3, Zenon DEF wait_until_next_period, timer
  <2>2. \A q \in Slots : q # p => SlotOK(q)'
    BY <1>3, <2>1 DEF wait_until_next_period, Goto, TypeOK, SlotsOK, SlotOK, InSetperiod
  <2>3. /\ pc[p] = "user" /\ has[p]
        /\ pc'[p] = "period" /\ state'[p] = "SLEEPING"
    BY <1>3, Zenon DEF wait_until_next_period, Runs, Goto, TypeOK
  <2>4. SlotOK(p)'
    BY <2>1, <2>3, Zenon DEF SlotsOK, SlotOK, InSetperiod
  <2> QED BY <2>2, <2>4, Zenon DEF SlotsOK
<1>4. ASSUME NEW p \in Slots, kill(p) PROVE SlotsOK'
  BY <1>4, PeriodicAssumption
     DEF kill, timer, clock, TypeOK, SlotsOK, SlotOK, ClockOK, InSetperiod
<1>5. ASSUME NEW p \in Slots, freeproc(p) PROVE SlotsOK'
  BY <1>5, PeriodicAssumption
     DEF freeproc, Runs, timer, clock, TypeOK, SlotsOK, SlotOK, ClockOK,
         InSetperiod
<1>6. ASSUME NEW p \in Slots, allocproc(p) PROVE SlotsOK'
  BY <1>6, PeriodicAssumption
     DEF allocproc, timer, clock, TypeOK, SlotsOK, SlotOK, ClockOK, InSetperiod
<1>7. ASSUME NEW p \in Slots, NEW f \in Fields, xv6timer_init(p, f) PROVE SlotsOK'
  <2>1. \A q \in Slots : q # p => SlotOK(q)'
    BY <1>7 DEF xv6timer_init, Goto, TypeOK, SlotsOK, SlotOK, InSetperiod
  <2>2. SlotOK(p) /\ pc[p] = "init" /\ stores'[p] = stores[p] \ {f}
    BY <1>7 DEF xv6timer_init, Runs, TypeOK, SlotsOK
  <2>3. UNCHANGED <<state, has, mine, arg>>
    BY <1>7, Zenon DEF xv6timer_init
  <2>4. "expiry" \in stores'[p] \/ expiry'[p] = 0
    BY <1>7, <2>2, Zenon DEF xv6timer_init, SlotOK, TypeOK
  <2>5. callback'[p] = "null" \/ (callback'[p] = "junk" /\ "callback" \in stores'[p])
    BY <1>7, <2>2 DEF xv6timer_init, SlotOK, TypeOK
  <2>6. \/ pc'[p] = "init" /\ stores'[p] # {}
        \/ pc'[p] = "register" /\ stores'[p] = {}
    BY <1>7, <2>2, Zenon DEF xv6timer_init, Goto, TypeOK
  <2>7. SlotOK(p)'
    BY <2>2, <2>3, <2>4, <2>5, <2>6, Zenon DEF SlotOK, InSetperiod
  <2> QED BY <2>1, <2>7, Zenon DEF SlotsOK
<1>8. ASSUME NEW p \in Slots, xv6timer_register_callback(p) PROVE SlotsOK'
  <2>1. \A q \in Slots : q # p => SlotOK(q)'
    BY <1>8 DEF xv6timer_register_callback, Goto, TypeOK, SlotsOK, SlotOK, InSetperiod
  <2>2. SlotOK(p)'
    BY <1>8, Zenon DEF xv6timer_register_callback, Runs, Goto, TypeOK, SlotsOK, SlotOK, InSetperiod
  <2> QED BY <2>1, <2>2 DEF SlotsOK
<1>9. ASSUME NEW p \in Slots, xv6timer_forward_expiry(p) PROVE SlotsOK'
  BY <1>9, PeriodicAssumption
     DEF xv6timer_forward_expiry, Runs, Goto, clock, TypeOK, SlotsOK, SlotOK,
         ClockOK, InSetperiod
<1>10. ASSUME NEW p \in Slots, xv6timer_forward_next(p) PROVE SlotsOK'
  <2>1. \A q \in Slots : q # p => SlotOK(q)'
    BY <1>10 DEF xv6timer_forward_next, Goto, TypeOK, SlotsOK, SlotOK, InSetperiod
  <2>2. SlotOK(p) /\ pc[p] = "set_next" /\ arg[p] \in Periods
    BY <1>10 DEF xv6timer_forward_next, Runs, SlotsOK, SlotOK
  <2>3. left'[p] = arg[p] /\ left'[p] < FAR
    <3>1. arg[p] < FAR
      BY <2>2, Ticks
    <3>2. left'[p] = arg[p]
      BY <1>10, Zenon DEF xv6timer_forward_next, TypeOK
    <3> QED BY <3>1, <3>2
  <2>4. SlotOK(p)'
    BY <1>10, <2>2, <2>3, Zenon DEF xv6timer_forward_next, Runs, Goto, TypeOK, SlotOK, InSetperiod
  <2> QED BY <2>1, <2>4 DEF SlotsOK
<1>11. ASSUME NEW p \in Slots, PeriodBegins(p) PROVE SlotsOK'
  BY <1>11, PeriodicAssumption
     DEF PeriodBegins, Runs, Goto, timer, clock, TypeOK, SlotsOK, SlotOK,
         ClockOK, InSetperiod
<1>12. ASSUME NEW p \in Slots, SleepReturns(p) PROVE SlotsOK'
  BY <1>12, PeriodicAssumption
     DEF SleepReturns, Runs, Goto, timer, clock, TypeOK, SlotsOK, SlotOK,
         ClockOK, InSetperiod
<1>13. ASSUME NEW p \in Slots, SleepLoops(p) PROVE SlotsOK'
  BY <1>13, PeriodicAssumption
     DEF SleepLoops, Runs, KillMayLand, timer, clock, TypeOK, SlotsOK, SlotOK,
         ClockOK, InSetperiod
<1>14. CASE clockintr
  BY <1>14, PeriodicAssumption
     DEF clockintr, Less, TypeOK, SlotsOK, SlotOK, ClockOK, InSetperiod
<1>15. CASE ClockTests
  BY <1>15, PeriodicAssumption, Zenon
     DEF ClockTests, Due, proc, timer, TypeOK, SlotsOK, SlotOK, ClockOK,
         InSetperiod
<1>16. CASE period_callback
  BY <1>16, PeriodicAssumption
     DEF period_callback, timer, TypeOK, SlotsOK, SlotOK, ClockOK, InSetperiod
<1>17. CASE ClockLoads
  BY <1>17, PeriodicAssumption, Zenon
     DEF ClockLoads, proc, timer, TypeOK, SlotsOK, SlotOK, ClockOK, InSetperiod
<1>18. CASE ClockStores
  BY <1>18, PeriodicAssumption
     DEF ClockStores, proc, TypeOK, SlotsOK, SlotOK, ClockOK, InSetperiod
<1>19. CASE ClockWakes
  BY <1>19, PeriodicAssumption, Zenon
     DEF ClockWakes, timer, TypeOK, SlotsOK, SlotOK, ClockOK, InSetperiod
<1>20. CASE UNCHANGED vars
  BY <1>20, Zenon
     DEF vars, proc, timer, clock, TypeOK, SlotsOK, SlotOK, ClockOK,
         InSetperiod
<1> QED
  BY <1>1, <1>2, <1>3, <1>4, <1>5, <1>6, <1>7, <1>8, <1>9, <1>10, <1>11, <1>12,
     <1>13, <1>14, <1>15, <1>16, <1>17, <1>18, <1>19, <1>20
     DEF Next, InKernel, ClockStep, Halted

(* Every action keeps what clockintr() relies on.                          *)
LEMMA ClockStepOK ==
  ASSUME TypeOK, SlotsOK, ClockOK, [Next]_vars
  PROVE  ClockOK'
<1>1. ASSUME NEW p \in Slots, NEW n \in Periods, setperiod(p, n) PROVE ClockOK'
  <2>1. CASE has[p]
    BY <1>1, <2>1, Zenon DEF setperiod, Goto, timer, clock, TypeOK, ClockOK
  <2>2. CASE ~has[p]
    BY <1>1, <2>2 DEF setperiod, Goto, clock, TypeOK, ClockOK
  <2> QED BY <2>1, <2>2, Zenon
<1>2. ASSUME NEW p \in Slots, NEW n \in Sleeps, sys_sleep(p, n) PROVE ClockOK'
  BY <1>2, PeriodicAssumption, Zenon
     DEF sys_sleep, Runs, Goto, timer, clock, TypeOK, SlotsOK, SlotOK, ClockOK,
         Slots
<1>3. ASSUME NEW p \in Slots, wait_until_next_period(p) PROVE ClockOK'
  BY <1>3, PeriodicAssumption, Zenon
     DEF wait_until_next_period, Runs, Goto, KillMayLand, timer, clock, TypeOK,
         SlotsOK, SlotOK, ClockOK, Slots
<1>4. ASSUME NEW p \in Slots, kill(p) PROVE ClockOK'
  BY <1>4, PeriodicAssumption, Zenon
     DEF kill, timer, clock, TypeOK, SlotsOK, SlotOK, ClockOK, Slots
<1>5. ASSUME NEW p \in Slots, freeproc(p) PROVE ClockOK'
  BY <1>5, PeriodicAssumption, Zenon
     DEF freeproc, Runs, timer, clock, TypeOK, SlotsOK, SlotOK, ClockOK, Slots
<1>6. ASSUME NEW p \in Slots, allocproc(p) PROVE ClockOK'
  BY <1>6, PeriodicAssumption
     DEF allocproc, timer, clock, TypeOK, SlotsOK, SlotOK, ClockOK, Slots
<1>7. ASSUME NEW p \in Slots, NEW f \in Fields, xv6timer_init(p, f) PROVE ClockOK'
  <2>1. clk \in {"fire", "load", "store"} => cur \in Slots /\ cur # p
    BY <1>7 DEF xv6timer_init, Runs, SlotsOK, SlotOK, ClockOK
  <2>2. \A q \in Slots : q # p =>
           callback'[q] = callback[q] /\ expiry'[q] = expiry[q] /\ pc'[q] = pc[q]
    BY <1>7 DEF xv6timer_init, Goto, TypeOK
  <2>3. UNCHANGED <<has, mine, raced, crashed, clk, cur, loaded>>
    BY <1>7 DEF xv6timer_init, clock
  <2> QED BY <2>1, <2>2, <2>3 DEF ClockOK
<1>8. ASSUME NEW p \in Slots, xv6timer_register_callback(p) PROVE ClockOK'
  BY <1>8, PeriodicAssumption, Zenon
     DEF xv6timer_register_callback, Runs, Goto, clock, TypeOK, SlotsOK,
         SlotOK, ClockOK, Slots
<1>9. ASSUME NEW p \in Slots, xv6timer_forward_expiry(p) PROVE ClockOK'
  BY <1>9, PeriodicAssumption
     DEF xv6timer_forward_expiry, Runs, Goto, clock, TypeOK, SlotsOK, SlotOK,
         ClockOK, Slots
<1>10. ASSUME NEW p \in Slots, xv6timer_forward_next(p) PROVE ClockOK'
  BY <1>10, PeriodicAssumption, Zenon
     DEF xv6timer_forward_next, Runs, Goto, clock, TypeOK, SlotsOK, SlotOK,
         ClockOK, Slots
<1>11. ASSUME NEW p \in Slots, PeriodBegins(p) PROVE ClockOK'
  BY <1>11, PeriodicAssumption, Zenon
     DEF PeriodBegins, Runs, Goto, timer, clock, TypeOK, SlotsOK, SlotOK,
         ClockOK, Slots
<1>12. ASSUME NEW p \in Slots, SleepReturns(p) PROVE ClockOK'
  BY <1>12, PeriodicAssumption, Zenon
     DEF SleepReturns, Runs, Goto, timer, clock, TypeOK, SlotsOK, SlotOK,
         ClockOK, Slots
<1>13. ASSUME NEW p \in Slots, SleepLoops(p) PROVE ClockOK'
  BY <1>13, PeriodicAssumption, Zenon
     DEF SleepLoops, Runs, KillMayLand, timer, clock, TypeOK, SlotsOK, SlotOK,
         ClockOK, Slots
<1>14. CASE clockintr
  BY <1>14, PeriodicAssumption, Zenon
     DEF clockintr, Less, TypeOK, SlotsOK, SlotOK, ClockOK, Slots
<1>15. CASE ClockTests
  BY <1>15, PeriodicAssumption
     DEF ClockTests, Due, proc, timer, TypeOK, SlotsOK, SlotOK, ClockOK, Slots
<1>16. CASE period_callback
  BY <1>16, PeriodicAssumption
     DEF period_callback, timer, TypeOK, SlotsOK, SlotOK, ClockOK, Slots
<1>17. CASE ClockLoads
  BY <1>17, PeriodicAssumption, Zenon
     DEF ClockLoads, proc, timer, TypeOK, SlotsOK, SlotOK, ClockOK, Slots
<1>18. CASE ClockStores
  BY <1>18, PeriodicAssumption, Zenon
     DEF ClockStores, proc, TypeOK, SlotsOK, SlotOK, ClockOK, Slots
<1>19. CASE ClockWakes
  BY <1>19, PeriodicAssumption, Zenon
     DEF ClockWakes, timer, TypeOK, SlotsOK, SlotOK, ClockOK, Slots
<1>20. CASE UNCHANGED vars
  BY <1>20, Zenon
     DEF vars, proc, timer, clock, TypeOK, SlotsOK, SlotOK, ClockOK, Slots
<1> QED
  BY <1>1, <1>2, <1>3, <1>4, <1>5, <1>6, <1>7, <1>8, <1>9, <1>10, <1>11, <1>12,
     <1>13, <1>14, <1>15, <1>16, <1>17, <1>18, <1>19, <1>20
     DEF Next, InKernel, ClockStep, Halted

(* Only ClockTests can crash the kernel, and nothing happens afterwards.   *)
LEMMA CrashStep ==
  ASSUME TypeOK, SlotsOK, CrashOnlyInInit, [Next]_vars
  PROVE  CrashOnlyInInit'
<1>1. ASSUME NEW p \in Slots, NEW n \in Periods, setperiod(p, n) PROVE CrashOnlyInInit'
  BY <1>1, Zenon
     DEF setperiod, Runs, Goto, timer, clock, CrashOnlyInInit
<1>2. ASSUME NEW p \in Slots, NEW n \in Sleeps, sys_sleep(p, n) PROVE CrashOnlyInInit'
  BY <1>2, Zenon
     DEF sys_sleep, Runs, Goto, timer, clock, CrashOnlyInInit
<1>3. ASSUME NEW p \in Slots, wait_until_next_period(p) PROVE CrashOnlyInInit'
  BY <1>3
     DEF wait_until_next_period, Runs, Goto, KillMayLand, timer, clock,
         CrashOnlyInInit
<1>4. ASSUME NEW p \in Slots, kill(p) PROVE CrashOnlyInInit'
  BY <1>4
     DEF kill, timer, clock, CrashOnlyInInit
<1>5. ASSUME NEW p \in Slots, freeproc(p) PROVE CrashOnlyInInit'
  BY <1>5, Zenon
     DEF freeproc, Runs, timer, clock, CrashOnlyInInit
<1>6. ASSUME NEW p \in Slots, allocproc(p) PROVE CrashOnlyInInit'
  BY <1>6, Zenon
     DEF allocproc, timer, clock, CrashOnlyInInit
<1>7. ASSUME NEW p \in Slots, NEW f \in Fields, xv6timer_init(p, f) PROVE CrashOnlyInInit'
  BY <1>7, Zenon
     DEF xv6timer_init, Runs, Goto, Fields, clock, CrashOnlyInInit
<1>8. ASSUME NEW p \in Slots, xv6timer_register_callback(p) PROVE CrashOnlyInInit'
  BY <1>8, Zenon
     DEF xv6timer_register_callback, Runs, Goto, clock, CrashOnlyInInit
<1>9. ASSUME NEW p \in Slots, xv6timer_forward_expiry(p) PROVE CrashOnlyInInit'
  BY <1>9, Zenon
     DEF xv6timer_forward_expiry, Runs, Goto, clock, CrashOnlyInInit
<1>10. ASSUME NEW p \in Slots, xv6timer_forward_next(p) PROVE CrashOnlyInInit'
  BY <1>10, Zenon
     DEF xv6timer_forward_next, Runs, Goto, clock, CrashOnlyInInit
<1>11. ASSUME NEW p \in Slots, PeriodBegins(p) PROVE CrashOnlyInInit'
  BY <1>11
     DEF PeriodBegins, Runs, Goto, timer, clock, CrashOnlyInInit
<1>12. ASSUME NEW p \in Slots, SleepReturns(p) PROVE CrashOnlyInInit'
  BY <1>12, Zenon
     DEF SleepReturns, Runs, Goto, timer, clock, CrashOnlyInInit
<1>13. ASSUME NEW p \in Slots, SleepLoops(p) PROVE CrashOnlyInInit'
  BY <1>13, Zenon
     DEF SleepLoops, Runs, KillMayLand, timer, clock, CrashOnlyInInit
<1>14. CASE clockintr
  BY <1>14
     DEF clockintr, Less, CrashOnlyInInit
<1>15. CASE ClockTests
  <2>1. CASE ~Due(cur)
    BY <1>15, <2>1, Zenon DEF ClockTests, CrashOnlyInInit
  <2>2. CASE Due(cur) /\ callback[cur] = "junk"
    <3>1. cur \in Slots
      BY <1>15, PeriodicAssumption DEF ClockTests, TypeOK, Slots
    <3>2. pc[cur] = "init" /\ stores[cur] # {}
      BY <2>2, <3>1 DEF SlotsOK, SlotOK
    <3> QED BY <1>15, <2>2, <3>2 DEF ClockTests, proc, CrashOnlyInInit
  <2>3. CASE Due(cur) /\ callback[cur] # "junk"
    BY <1>15, <2>3, Zenon DEF ClockTests, CrashOnlyInInit
  <2> QED BY <2>1, <2>2, <2>3, Zenon
<1>16. CASE period_callback
  BY <1>16
     DEF period_callback, timer, CrashOnlyInInit
<1>17. CASE ClockLoads
  BY <1>17
     DEF ClockLoads, proc, timer, CrashOnlyInInit
<1>18. CASE ClockStores
  BY <1>18
     DEF ClockStores, proc, CrashOnlyInInit
<1>19. CASE ClockWakes
  BY <1>19
     DEF ClockWakes, timer, CrashOnlyInInit
<1>20. CASE UNCHANGED vars
  BY <1>20
     DEF vars, proc, timer, clock, CrashOnlyInInit
<1> QED
  BY <1>1, <1>2, <1>3, <1>4, <1>5, <1>6, <1>7, <1>8, <1>9, <1>10, <1>11, <1>12,
     <1>13, <1>14, <1>15, <1>16, <1>17, <1>18, <1>19, <1>20
     DEF Next, InKernel, ClockStep, Halted

(* Every action keeps the timers timely: clockintr() brings one to zero    *)
(* only before it has reached it, and does not pass it by.                 *)
LEMMA TimelyStep ==
  ASSUME IInv, [Next]_vars
  PROVE  TimersTimely'
<1>1. ASSUME NEW p \in Slots, NEW n \in Periods, setperiod(p, n) PROVE TimersTimely'
  <2>1. InSetperiod(p)'
    BY <1>1 DEF setperiod, Goto, IInv, TypeOK, InSetperiod
  <2>2. ASSUME NEW q \in Slots, q # p PROVE Timely(q)'
    <3>1. /\ left'[q] = left[q] /\ expiry'[q] = expiry[q] /\ pc'[q] = pc[q]
          /\ UNCHANGED <<mine, raced, clk, cur>>
      BY <1>1, <2>2 DEF setperiod, Goto, timer, clock, IInv, TypeOK
    <3> QED BY <3>1, Zenon DEF IInv, TimersTimely, Timely, InSetperiod
  <2> QED BY <2>1, <2>2, Zenon DEF TimersTimely, Timely
<1>2. ASSUME NEW p \in Slots, NEW n \in Sleeps, sys_sleep(p, n) PROVE TimersTimely'
  BY <1>2, PeriodicAssumption, Zenon
     DEF sys_sleep, Runs, Goto, timer, clock, IInv, TypeOK, SlotsOK, SlotOK,
         ClockOK, TimersTimely, Timely, InSetperiod, Slots
<1>3. ASSUME NEW p \in Slots, wait_until_next_period(p) PROVE TimersTimely'
  BY <1>3, PeriodicAssumption
     DEF wait_until_next_period, Runs, Goto, KillMayLand, timer, clock, IInv,
         TypeOK, SlotsOK, SlotOK, ClockOK, TimersTimely, Timely, InSetperiod,
         Slots
<1>4. ASSUME NEW p \in Slots, kill(p) PROVE TimersTimely'
  BY <1>4, PeriodicAssumption, Zenon
     DEF kill, timer, clock, IInv, TypeOK, SlotsOK, SlotOK, ClockOK,
         TimersTimely, Timely, InSetperiod, Slots
<1>5. ASSUME NEW p \in Slots, freeproc(p) PROVE TimersTimely'
  BY <1>5, PeriodicAssumption, Zenon
     DEF freeproc, Runs, timer, clock, IInv, TypeOK, SlotsOK, SlotOK, ClockOK,
         TimersTimely, Timely, InSetperiod, Slots
<1>6. ASSUME NEW p \in Slots, allocproc(p) PROVE TimersTimely'
  BY <1>6, PeriodicAssumption
     DEF allocproc, timer, clock, IInv, TypeOK, SlotsOK, SlotOK, ClockOK,
         TimersTimely, Timely, InSetperiod, Slots
<1>7. ASSUME NEW p \in Slots, NEW f \in Fields, xv6timer_init(p, f) PROVE TimersTimely'
  <2>1. InSetperiod(p)'
    BY <1>7 DEF xv6timer_init, Runs, Goto, IInv, TypeOK, InSetperiod
  <2>2. ASSUME NEW q \in Slots, q # p PROVE Timely(q)'
    <3>1. /\ left'[q] = left[q] /\ expiry'[q] = expiry[q] /\ pc'[q] = pc[q]
          /\ UNCHANGED <<mine, raced, clk, cur>>
      BY <1>7, <2>2, Zenon DEF xv6timer_init, Goto, clock, IInv, TypeOK
    <3> QED BY <3>1, Zenon DEF IInv, TimersTimely, Timely, InSetperiod
  <2> QED BY <2>1, <2>2, Zenon DEF TimersTimely, Timely
<1>8. ASSUME NEW p \in Slots, xv6timer_register_callback(p) PROVE TimersTimely'
  BY <1>8, PeriodicAssumption
     DEF xv6timer_register_callback, Runs, Goto, clock, IInv, TypeOK, SlotsOK,
         SlotOK, ClockOK, TimersTimely, Timely, InSetperiod, Slots
<1>9. ASSUME NEW p \in Slots, xv6timer_forward_expiry(p) PROVE TimersTimely'
  BY <1>9, PeriodicAssumption
     DEF xv6timer_forward_expiry, Runs, Goto, clock, IInv, TypeOK, SlotsOK,
         SlotOK, ClockOK, TimersTimely, Timely, InSetperiod, Slots
<1>10. ASSUME NEW p \in Slots, xv6timer_forward_next(p) PROVE TimersTimely'
  BY <1>10, PeriodicAssumption
     DEF xv6timer_forward_next, Runs, Goto, clock, IInv, TypeOK, SlotsOK,
         SlotOK, ClockOK, TimersTimely, Timely, InSetperiod, Slots
<1>11. ASSUME NEW p \in Slots, PeriodBegins(p) PROVE TimersTimely'
  BY <1>11, PeriodicAssumption
     DEF PeriodBegins, Runs, Goto, timer, clock, IInv, TypeOK, SlotsOK, SlotOK,
         ClockOK, TimersTimely, Timely, InSetperiod, Slots
<1>12. ASSUME NEW p \in Slots, SleepReturns(p) PROVE TimersTimely'
  BY <1>12, PeriodicAssumption
     DEF SleepReturns, Runs, Goto, timer, clock, IInv, TypeOK, SlotsOK, SlotOK,
         ClockOK, TimersTimely, Timely, InSetperiod, Slots
<1>13. ASSUME NEW p \in Slots, SleepLoops(p) PROVE TimersTimely'
  BY <1>13, PeriodicAssumption
     DEF SleepLoops, Runs, KillMayLand, timer, clock, IInv, TypeOK, SlotsOK,
         SlotOK, ClockOK, TimersTimely, Timely, InSetperiod, Slots
<1>14. CASE clockintr
  BY <1>14, PeriodicAssumption
     DEF clockintr, Less, IInv, TypeOK, SlotsOK, SlotOK, ClockOK, TimersTimely,
         Timely, InSetperiod, Slots
<1>15. CASE ClockTests
  <2>1. cur \in Slots /\ cur \in Int /\ clk = "scan"
    BY <1>15, PeriodicAssumption DEF ClockTests, IInv, TypeOK, Slots
  <2>2. UNCHANGED <<mine, pc, raced, left, expiry>>
    BY <1>15, Zenon DEF ClockTests, proc, timer
  <2>3. CASE Due(cur)
    BY <1>15, <2>2, <2>3 DEF ClockTests, IInv, TimersTimely, Timely, InSetperiod
  <2>4. CASE ~Due(cur)
    <3>1. cur' = cur + 1 /\ clk' = "scan"
      BY <1>15, <2>1, <2>4, Zenon DEF ClockTests
    <3>2. ASSUME mine[cur], ~InSetperiod(cur) PROVE left[cur] # 0
      BY <2>1, <2>4, <3>2, Zenon DEF Due, IInv, SlotsOK, SlotOK, InSetperiod
    <3>3. ASSUME NEW q \in Slots PROVE Timely(q)'
      <4>1. q \in Int /\ (q # cur /\ cur <= q => cur + 1 <= q)
        BY <2>1 DEF Slots
      <4> QED BY <2>1, <2>2, <3>1, <3>2, <4>1 DEF IInv, TimersTimely, Timely, InSetperiod
    <3> QED BY <3>3 DEF TimersTimely
  <2> QED BY <2>3, <2>4
<1>16. CASE period_callback
  BY <1>16, PeriodicAssumption, Zenon
     DEF period_callback, timer, IInv, TypeOK, SlotsOK, SlotOK, ClockOK,
         TimersTimely, Timely, InSetperiod, Slots
<1>17. CASE ClockLoads
  BY <1>17, PeriodicAssumption, Zenon
     DEF ClockLoads, proc, timer, IInv, TypeOK, SlotsOK, SlotOK, ClockOK,
         TimersTimely, Timely, InSetperiod, Slots
<1>18. CASE ClockStores
  <2>1. /\ cur \in Slots /\ clk = "store" /\ cur' = cur + 1 /\ clk' = "scan"
        /\ left' = [left EXCEPT ![cur] = loaded]
        /\ UNCHANGED <<mine, pc, raced, expiry, has, callback>>
        /\ loaded \in Periods \cup {0}
    BY <1>18, Zenon DEF ClockStores, proc, IInv, ClockOK
  <2>2. ASSUME NEW q \in Slots, mine'[q], ~InSetperiod(q)', ~raced'[q]
        PROVE  left'[q] <= expiry'[q] /\ (left'[q] = 0 => clk' # "idle" /\ cur' <= q)
    <3>0. mine[q] /\ ~InSetperiod(q) /\ ~raced[q]
      BY <2>1, <2>2, Zenon DEF InSetperiod
    <3>1. CASE q = cur
      <4>1. has[q] /\ expiry[q] \in Periods /\ left'[q] = loaded /\ loaded = expiry[q]
        BY <1>18, <2>1, <3>0, <3>1, Zenon
           DEF ClockStores, IInv, TypeOK, SlotsOK, SlotOK, ClockOK, InSetperiod
      <4> QED BY <2>1, <4>1, PeriodicAssumption
    <3>2. CASE q # cur
      <4>1. left[q] <= expiry[q] /\ (left[q] = 0 => cur <= q)
        BY <3>0, Zenon DEF IInv, TimersTimely, Timely
      <4>2. left'[q] = left[q] /\ expiry'[q] = expiry[q]
        BY <2>1, <3>2, Zenon DEF IInv, TypeOK
      <4> QED BY <2>1, <3>2, <4>1, <4>2 DEF Slots
    <3> QED BY <3>1, <3>2, Zenon
  <2> QED BY <2>2, Zenon DEF TimersTimely, Timely
<1>19. CASE ClockWakes
  BY <1>19, PeriodicAssumption
     DEF ClockWakes, timer, IInv, TypeOK, SlotsOK, SlotOK, ClockOK,
         TimersTimely, Timely, InSetperiod, Slots
<1>20. CASE UNCHANGED vars
  BY <1>20
     DEF vars, proc, timer, clock, IInv, TypeOK, SlotsOK, SlotOK, ClockOK,
         TimersTimely, Timely, InSetperiod, Slots
<1> QED
  BY <1>1, <1>2, <1>3, <1>4, <1>5, <1>6, <1>7, <1>8, <1>9, <1>10, <1>11, <1>12,
     <1>13, <1>14, <1>15, <1>16, <1>17, <1>18, <1>19, <1>20
     DEF Next, InKernel, ClockStep, Halted

LEMMA StepIInv == IInv /\ [Next]_vars => IInv'
  BY TypeOKStep, SlotsStep, ClockStepOK, CrashStep, TimelyStep DEF IInv

(* The timers of all slots and the walk of clockintr() are as IInv says.   *)
THEOREM Invariance == Spec => []IInv
  BY InitIInv, StepIInv, PTL DEF Spec

(* A process that sleeps in wait_until_next_period() has a timer which     *)
(* clockintr() will find due and whose callback wakes it, however many     *)
(* slots there are and whatever setperiod() has raced with.                *)
THEOREM WaiterHasTimerHolds == Spec => [](TypeOK /\ WaiterHasTimer)
<1>1. IInv => TypeOK /\ WaiterHasTimer
  BY DEF IInv, SlotsOK, SlotOK, InSetperiod, WaiterHasTimer
<1> QED BY <1>1, Invariance, PTL

(* clockintr() calls what nobody registered only while setperiod() is      *)
(* still clearing the page.                                                *)
THEOREM CrashOnlyInInitHolds == Spec => []CrashOnlyInInit
<1>1. IInv => CrashOnlyInInit
  BY Zenon DEF IInv
<1> QED BY <1>1, Invariance, PTL

(* Between two interrupts a timer is due within its period, unless         *)
(* setperiod() changed the expiry between clockintr()'s load and store.    *)
THEOREM NextWithinPeriodHolds == Spec => []NextWithinPeriod
<1>1. IInv => NextWithinPeriod
  <2> SUFFICES ASSUME IInv, NEW p \in Slots, mine[p], ~InSetperiod(p), clk = "idle", ~raced[p]
               PROVE  left[p] \in 1..expiry[p]
    BY Zenon DEF NextWithinPeriod
  <2>1. left[p] \in 0..FAR /\ expiry[p] \in 0..FAR
    BY DEF IInv, TypeOK
  <2>2. left[p] <= expiry[p] /\ left[p] # 0
    BY DEF IInv, TimersTimely, Timely
  <2> QED BY <2>1, <2>2, PeriodicAssumption
<1> QED BY <1>1, Invariance, PTL
=============================================================================
