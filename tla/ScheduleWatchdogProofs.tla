----------------------- MODULE ScheduleWatchdogProofs -----------------------
(***************************************************************************)
(* Proofs about ScheduleWatchdog: for any number of schedules and resets,  *)
(* any stop times and any time at which the clock is set.                  *)
(***************************************************************************)
EXTENDS ScheduleWatchdog, TLAPS

-----------------------------------------------------------------------------
(* The inductive invariant *)

cloud == pc["cloud"]
wq    == pc["wq"]

Bits == /\ clock \in BOOLEAN /\ active \in BOOLEAN /\ work \in BOOLEAN
        /\ flag \in BOOLEAN /\ early \in BOOLEAN /\ calm \in BOOLEAN

ArmSteps == {"arm_stop", "arm_ram", "arm_active", "arm_flag", "arm_rec",
             "arm_timer"}

(* Where the threads are; one that arms has a schedule to arm.             *)
Places ==
  /\ pc \in [{"cloud", "wq"} -> CloudSteps \cup WorkSteps]
  /\ cloud \in CloudSteps /\ wq \in WorkSteps
  /\ cur \in Sched \cup {NoSched} /\ next \in 1 .. MaxSched + 1
  /\ cur < next
  /\ cloud \in ArmSteps => cur \in Sched

Records ==
  /\ rec \in Sched \cup {NoSched} /\ nvsRec \in Sched \cup {NoSched}
  /\ rec < next /\ nvsRec < next
  /\ cloud \in {"arm_stop", "arm_ram"} => rec # cur
  /\ cloud \in ArmSteps \ {"arm_timer"} => nvsRec # cur

Times ==
  /\ now \in 0 .. MaxTime
  /\ stopAt \in [Sched -> 0 .. MaxTime]
  /\ timer \in NoTimer .. MaxTime + Epoch

Counts ==
  /\ crashes \in 0 .. MaxCrash
  /\ fired \in [Sched -> Nat]
  /\ kept \subseteq Sched /\ gone \subseteq Sched /\ erased \subseteq Sched

(* After a reset nothing is left in RAM.                                   *)
OffIsEmpty ==
  cloud = "off" => /\ wq = "idle" /\ rec = NoSched
                   /\ ~ active /\ ~ work /\ timer = NoTimer

(* What may still be dispatched in this boot has not been dispatched in    *)
(* it; what has been is zeroed before the work queue looks again.          *)
Budget ==
  /\ FiredOncePerReset
  /\ cloud = "off" => \A s \in Sched : fired[s] <= crashes
  /\ wq = "idle" /\ rec \in Sched => fired[rec] <= crashes
  /\ \A s \in Sched : s >= next => fired[s] = 0
  /\ cloud \in {"arm_stop", "arm_ram"} => fired[cur] = 0

(* Where the work item may come between two steps of the cloud thread.     *)
Outer == {"idle", "arm_stop", "cancel", "cancel_stop"}

(* While calm lasts the work item runs from its start to its end, and only *)
(* where the timer is not yet stopped.                                     *)
OneAtATime ==
  calm =>
    /\ cloud # "dead"
    /\ cloud # "off" => clock
    /\ wq # "idle" => /\ wq \in {"cancel", "clear_flag", "clear_rec", "clear_ram"}
                      /\ ~ active /\ ~ work /\ timer = NoTimer
                      /\ cloud \in Outer
    /\ timer # NoTimer \/ work => active /\ cloud \in Outer
    /\ work => timer = NoTimer
    /\ cloud \in {"boot_flag", "boot_rec", "cancel_flag", "cancel_rec",
                  "cancel_ram"} => ~ active

(* What flash and RAM agree on at each step of arming and cancelling.      *)
FlashFollows ==
  calm =>
    /\ cloud \in Outer /\ active =>
         /\ rec # NoSched /\ flag /\ nvsRec = rec
         /\ timer # NoTimer \/ work
    /\ cloud \in Outer /\ ~ active /\ wq \notin {"cancel", "clear_flag"} => ~ flag
    /\ cloud \in {"boot_rec", "cancel_rec", "cancel_ram"} => ~ flag
    /\ cloud \in {"arm_active", "arm_flag", "arm_rec", "arm_timer"} => rec = cur
    /\ cloud \in {"arm_flag", "arm_rec", "arm_timer"} => active
    /\ cloud \in {"arm_rec", "arm_timer"} => flag
    /\ cloud = "arm_timer" => nvsRec = rec

(* The timer runs to the stop time, or expires at once after it.           *)
TimerTrue ==
  calm =>
    /\ timer # NoTimer => stopAt[rec] <= now + timer
    /\ timer > 1 => now + timer = stopAt[rec]
    /\ work => stopAt[rec] <= now

(* An erased schedule is neither armed nor in flash, nor being armed.      *)
ErasedIsNowhere ==
  calm => \A s \in erased : /\ s < next /\ nvsRec # s
                            /\ active => rec # s
                            /\ cloud \in ArmSteps => cur # s

(* What a thread is about to clear in flash was dispatched, or is what it  *)
(* cancels: what NeverDropped needs at the steps that clear the flag.      *)
ClearsItsOwn ==
  calm /\ nvsRec # NoSched =>
    /\ cloud = "boot_flag" => fired[nvsRec] > 0
    /\ wq \in {"cancel", "clear_flag"} => fired[nvsRec] > 0
    /\ cloud = "cancel_flag" /\ flag => nvsRec = rec

-----------------------------------------------------------------------------
(* Types *)

(* Every flag stays one.                                                   *)
LEMMA BitsStep == Bits /\ [Next]_vars => Bits'
<1> SUFFICES ASSUME Bits, [Next]_vars PROVE Bits'
  OBVIOUS
<1> USE DEF Bits
<1>1. CASE Tick \/ TimerExpiry \/ ClockSync
  BY <1>1, Zenon DEF Tick, TimerExpiry, ClockSync, ram, flash, seen
<1>2. CASE Crash
  BY <1>2, Zenon DEF Crash, ram, flash, seen
<1>3. CASE BootFails \/ BootNothing \/ BootEmpty
  BY <1>3, Zenon DEF BootFails, BootNothing, BootEmpty, Goto, Registers, ram, flash,
     seen
<1>4. CASE BootRearm
  BY <1>4, Zenon DEF BootRearm, Goto, Registers, ram, flash, seen
<1>5. CASE BootExpired \/ BootClear
  BY <1>5, Zenon DEF BootExpired, BootClear, Goto, Registers, Dispatch, ClearFlag,
     ClearRec, ram, flash, seen
<1>6. CASE StartCommand \/ StopCommand
  BY <1>6, Zenon DEF StartCommand, StopCommand, CloudRuns, Goto, ram, flash, seen
<1>7. CASE ArmStop \/ ArmRam \/ ArmActive
  BY <1>7, Zenon DEF ArmStop, ArmRam, ArmActive, CloudRuns, Goto, ram, flash, seen
<1>8. CASE ArmFlag \/ ArmRec
  BY <1>8, Zenon DEF ArmFlag, ArmRec, CloudRuns, Goto, ram, flash, seen
<1>9. CASE ArmTimer
  BY <1>9, Zenon DEF ArmTimer, CloudRuns, Goto, Delay, ram, flash, seen
<1>10. ASSUME NEW p \in {"cloud", "wq"},
             CancelNothing(p) \/ CancelBegin(p) \/ CancelStop(p)
      PROVE  Bits'
  BY <1>10, Zenon DEF CancelNothing, CancelBegin, CancelStop, MayRun, CloudRuns,
     Goto, After, ram, flash, seen
<1>11. ASSUME NEW p \in {"cloud", "wq"},
             CancelFlag(p) \/ CancelRec(p) \/ CancelRam(p)
      PROVE  Bits'
  BY <1>11, Zenon DEF CancelFlag, CancelRec, CancelRam, MayRun, CloudRuns, Goto,
     After, ram, flash, seen
<1>12. CASE HandlerIdle \/ HandlerFire
  BY <1>12, Zenon DEF HandlerIdle, HandlerFire, Goto, Dispatch, ram, flash, seen
<1>13. CASE HandlerClear \/ HandlerRam
  BY <1>13, Zenon DEF HandlerClear, HandlerRam, ClearFlag, ClearRec, Goto, ram,
     flash, seen
<1>14. CASE UNCHANGED vars
  BY <1>14, Zenon DEF vars, ram, flash, seen
<1> QED
  BY <1>1, <1>2, <1>3, <1>4, <1>5, <1>6, <1>7, <1>8, <1>9, <1>10, <1>11,
     <1>12, <1>13, <1>14 DEF Next, Boot, Arm, Handler, Cancel

(* The threads go from step to step.                                       *)
LEMMA PlacesStep == Places /\ [Next]_vars => Places'
<1> SUFFICES ASSUME Places, [Next]_vars PROVE Places'
  OBVIOUS
<1> USE WatchdogBounds DEF Sched, NoSched, NoTimer, cloud, wq, Places,
   CloudSteps, WorkSteps, ArmSteps
<1>1. CASE Tick \/ TimerExpiry \/ ClockSync
  BY <1>1 DEF Tick, TimerExpiry, ClockSync, ram, flash, seen
<1>2. CASE Crash
  BY <1>2 DEF Crash, ram, flash, seen
<1>3. CASE BootFails \/ BootNothing \/ BootEmpty
  BY <1>3 DEF BootFails, BootNothing, BootEmpty, Goto, Registers, ram, flash,
     seen
<1>4. CASE BootRearm
  BY <1>4 DEF BootRearm, Goto, Registers, ram, flash, seen
<1>5. CASE BootExpired \/ BootClear
  BY <1>5 DEF BootExpired, BootClear, Goto, Registers, Dispatch, ClearFlag,
     ClearRec, ram, flash, seen
<1>6. CASE StartCommand \/ StopCommand
  BY <1>6 DEF StartCommand, StopCommand, CloudRuns, Goto, ram, flash, seen
<1>7. CASE ArmStop \/ ArmRam \/ ArmActive
  BY <1>7 DEF ArmStop, ArmRam, ArmActive, CloudRuns, Goto, ram, flash, seen
<1>8. CASE ArmFlag \/ ArmRec
  BY <1>8 DEF ArmFlag, ArmRec, CloudRuns, Goto, ram, flash, seen
<1>9. CASE ArmTimer
  BY <1>9 DEF ArmTimer, CloudRuns, Goto, Delay, ram, flash, seen
<1>10. ASSUME NEW p \in {"cloud", "wq"},
             CancelNothing(p) \/ CancelBegin(p) \/ CancelStop(p)
      PROVE  Places'
  BY <1>10 DEF CancelNothing, CancelBegin, CancelStop, MayRun, CloudRuns,
     Goto, After, ram, flash, seen
<1>11. ASSUME NEW p \in {"cloud", "wq"},
             CancelFlag(p) \/ CancelRec(p) \/ CancelRam(p)
      PROVE  Places'
  BY <1>11 DEF CancelFlag, CancelRec, CancelRam, MayRun, CloudRuns, Goto,
     After, ram, flash, seen
<1>12. CASE HandlerIdle \/ HandlerFire
  BY <1>12 DEF HandlerIdle, HandlerFire, Goto, Dispatch, ram, flash, seen
<1>13. CASE HandlerClear \/ HandlerRam
  BY <1>13 DEF HandlerClear, HandlerRam, ClearFlag, ClearRec, Goto, ram,
     flash, seen
<1>14. CASE UNCHANGED vars
  BY <1>14 DEF vars, ram, flash, seen
<1> QED
  BY <1>1, <1>2, <1>3, <1>4, <1>5, <1>6, <1>7, <1>8, <1>9, <1>10, <1>11,
     <1>12, <1>13, <1>14 DEF Next, Boot, Arm, Handler, Cancel

(* What is in the records has been started.                                *)
LEMMA RecordsStep == Places /\ Records /\ [Next]_vars => Records'
<1> SUFFICES ASSUME Places, Records, [Next]_vars PROVE Records'
  OBVIOUS
<1> USE WatchdogBounds DEF Sched, NoSched, NoTimer, cloud, wq, Places,
   Records, CloudSteps, WorkSteps, ArmSteps
<1>1. CASE Tick \/ TimerExpiry \/ ClockSync
  BY <1>1 DEF Tick, TimerExpiry, ClockSync, ram, flash, seen
<1>2. CASE Crash
  BY <1>2 DEF Crash, ram, flash, seen
<1>3. CASE BootFails \/ BootNothing \/ BootEmpty
  BY <1>3 DEF BootFails, BootNothing, BootEmpty, Goto, Registers, ram, flash,
     seen
<1>4. CASE BootRearm
  BY <1>4 DEF BootRearm, Goto, Registers, ram, flash, seen
<1>5. CASE BootExpired \/ BootClear
  BY <1>5 DEF BootExpired, BootClear, Goto, Registers, Dispatch, ClearFlag,
     ClearRec, ram, flash, seen
<1>6. CASE StartCommand \/ StopCommand
  BY <1>6 DEF StartCommand, StopCommand, CloudRuns, Goto, ram, flash, seen
<1>7. CASE ArmStop \/ ArmRam \/ ArmActive
  BY <1>7 DEF ArmStop, ArmRam, ArmActive, CloudRuns, Goto, ram, flash, seen
<1>8. CASE ArmFlag \/ ArmRec
  BY <1>8 DEF ArmFlag, ArmRec, CloudRuns, Goto, ram, flash, seen
<1>9. CASE ArmTimer
  BY <1>9 DEF ArmTimer, CloudRuns, Goto, Delay, ram, flash, seen
<1>10. ASSUME NEW p \in {"cloud", "wq"},
             CancelNothing(p) \/ CancelBegin(p) \/ CancelStop(p)
      PROVE  Records'
  BY <1>10 DEF CancelNothing, CancelBegin, CancelStop, MayRun, CloudRuns,
     Goto, After, ram, flash, seen
<1>11. ASSUME NEW p \in {"cloud", "wq"},
             CancelFlag(p) \/ CancelRec(p) \/ CancelRam(p)
      PROVE  Records'
  BY <1>11 DEF CancelFlag, CancelRec, CancelRam, MayRun, CloudRuns, Goto,
     After, ram, flash, seen
<1>12. CASE HandlerIdle \/ HandlerFire
  BY <1>12 DEF HandlerIdle, HandlerFire, Goto, Dispatch, ram, flash, seen
<1>13. CASE HandlerClear \/ HandlerRam
  BY <1>13 DEF HandlerClear, HandlerRam, ClearFlag, ClearRec, Goto, ram,
     flash, seen
<1>14. CASE UNCHANGED vars
  BY <1>14 DEF vars, ram, flash, seen
<1> QED
  BY <1>1, <1>2, <1>3, <1>4, <1>5, <1>6, <1>7, <1>8, <1>9, <1>10, <1>11,
     <1>12, <1>13, <1>14 DEF Next, Boot, Arm, Handler, Cancel

(* A delay is at least 1 and reaches no further than from 1970 to the      *)
(* last instant.                                                           *)
LEMMA TimesStep == Places /\ Records /\ Times /\ [Next]_vars => Times'
<1> SUFFICES ASSUME Places, Records, Times, [Next]_vars PROVE Times'
  OBVIOUS
<1>1. ASSUME UNCHANGED <<now, stopAt>>, timer' \in {timer, NoTimer}
      PROVE  Times'
  BY <1>1, WatchdogBounds DEF Times, NoTimer
<1>2. CASE Tick
  BY <1>2, WatchdogBounds DEF Tick, Times, NoTimer
<1>3. CASE TimerExpiry \/ ClockSync \/ Crash
  BY <1>1, <1>3 DEF TimerExpiry, ClockSync, Crash, ram
<1>4. CASE BootFails \/ BootNothing \/ BootEmpty \/ BootExpired \/ BootClear
  BY <1>1, <1>4 DEF BootFails, BootNothing, BootEmpty, BootExpired, BootClear,
     ClearFlag, ClearRec, ram
<1>5. CASE BootRearm
  BY <1>5, WatchdogBounds, SMTT(30) DEF BootRearm, Records, Times, Sched,
     NoSched, NoTimer
<1>6. CASE StartCommand
  BY <1>6 DEF StartCommand, ram, Times
<1>7. CASE StopCommand \/ ArmStop \/ ArmRam \/ ArmActive \/ ArmFlag \/ ArmRec
  BY <1>1, <1>7 DEF StopCommand, ArmStop, ArmRam, ArmActive, ArmFlag, ArmRec,
     ram
<1>8. CASE ArmTimer
  <2>1. cur \in Sched
    BY <1>8 DEF ArmTimer, Goto, Places, cloud, ArmSteps
  <2> QED
    BY <1>8, <2>1, WatchdogBounds, SMTT(30) DEF ArmTimer, Delay, Times, NoTimer, Sched
<1>9. ASSUME NEW q \in {"cloud", "wq"}, Cancel(q) PROVE Times'
  BY <1>1, <1>9 DEF Cancel, CancelNothing, CancelBegin, CancelStop, CancelFlag,
     CancelRec, CancelRam, ram
<1>10. CASE HandlerIdle \/ HandlerFire \/ HandlerClear \/ HandlerRam
  BY <1>1, <1>10 DEF HandlerIdle, HandlerFire, HandlerClear, HandlerRam,
     ClearFlag, ClearRec, ram
<1>11. CASE UNCHANGED vars
  BY <1>1, <1>11 DEF vars, ram
<1> QED
  BY <1>2, <1>3, <1>4, <1>5, <1>6, <1>7, <1>8, <1>9, <1>10, <1>11
     DEF Next, Boot, Arm, Handler

(* A dispatch counts, that of an empty record does not.                    *)
LEMMA DispatchCounts ==
  ASSUME NEW s \in Sched \cup {NoSched}, Dispatch(s)
  PROVE  fired' = fired \/ (s \in Sched /\ fired' = [fired EXCEPT ![s] = @ + 1])
BY DEF Dispatch

(* The counters and the history keep their types.                          *)
LEMMA CountsStep == Places /\ Records /\ Counts /\ [Next]_vars => Counts'
<1> SUFFICES ASSUME Places, Records, Counts, [Next]_vars PROVE Counts'
  OBVIOUS
<1> USE WatchdogBounds DEF Sched, NoSched, NoTimer, cloud, wq, Places,
   Records, Counts, CloudSteps, WorkSteps, ArmSteps
<1>1. CASE Tick \/ TimerExpiry \/ ClockSync
  BY <1>1 DEF Tick, TimerExpiry, ClockSync, ram, flash, seen
<1>2. CASE Crash
  BY <1>2 DEF Crash, ram, flash, seen
<1>3. CASE BootFails \/ BootNothing \/ BootEmpty
  BY <1>3 DEF BootFails, BootNothing, BootEmpty, Goto, Registers, ram, flash,
     seen
<1>4. CASE BootRearm
  BY <1>4 DEF BootRearm, Goto, Registers, ram, flash, seen
<1>5. CASE BootClear
  BY <1>5 DEF BootClear, ClearFlag, ClearRec, Goto, ram, flash, seen
<1>6. CASE StartCommand \/ StopCommand
  BY <1>6 DEF StartCommand, StopCommand, CloudRuns, Goto, ram, flash, seen
<1>7. CASE ArmStop \/ ArmRam \/ ArmActive
  BY <1>7 DEF ArmStop, ArmRam, ArmActive, CloudRuns, Goto, ram, flash, seen
<1>8. CASE ArmFlag \/ ArmRec
  BY <1>8 DEF ArmFlag, ArmRec, CloudRuns, Goto, ram, flash, seen
<1>9. CASE ArmTimer
  BY <1>9 DEF ArmTimer, CloudRuns, Goto, Delay, ram, flash, seen
<1>10. ASSUME NEW p \in {"cloud", "wq"},
             CancelNothing(p) \/ CancelBegin(p) \/ CancelStop(p)
      PROVE  Counts'
  BY <1>10 DEF CancelNothing, CancelBegin, CancelStop, MayRun, CloudRuns,
     Goto, After, ram, flash, seen
<1>11. ASSUME NEW p \in {"cloud", "wq"},
             CancelFlag(p) \/ CancelRec(p) \/ CancelRam(p)
      PROVE  Counts'
  BY <1>11 DEF CancelFlag, CancelRec, CancelRam, MayRun, CloudRuns, Goto,
     After, ram, flash, seen
<1>12. CASE HandlerIdle
  BY <1>12 DEF HandlerIdle, Goto, ram, flash, seen
<1>13. CASE HandlerClear \/ HandlerRam
  BY <1>13 DEF HandlerClear, HandlerRam, ClearFlag, ClearRec, Goto, ram,
     flash, seen
<1>14. CASE UNCHANGED vars
  BY <1>14 DEF vars, ram, flash, seen
<1>15. CASE BootExpired \/ HandlerFire
  <2>1. fired' = fired \/ \E s \in Sched : fired' = [fired EXCEPT ![s] = @ + 1]
    BY <1>15, DispatchCounts DEF BootExpired, HandlerFire
  <2>2. UNCHANGED <<crashes, kept, gone, erased>>
    BY <1>15 DEF BootExpired, HandlerFire
  <2> QED
    BY <2>1, <2>2, SMTT(30)
<1> QED
  BY <1>1, <1>2, <1>3, <1>4, <1>5, <1>6, <1>7, <1>8, <1>9, <1>10, <1>11,
     <1>12, <1>13, <1>14, <1>15 DEF Next, Boot, Arm, Handler, Cancel


(* A reset empties the RAM, and before the boot nothing runs.              *)
LEMMA OffStep == Places /\ OffIsEmpty /\ [Next]_vars => OffIsEmpty'
<1> SUFFICES ASSUME Places, OffIsEmpty, [Next]_vars PROVE OffIsEmpty'
  OBVIOUS
<1> USE WatchdogBounds DEF Sched, NoSched, NoTimer, cloud, wq, CloudSteps,
   WorkSteps, Places, OffIsEmpty
<1>1. CASE Tick \/ TimerExpiry \/ ClockSync
  BY <1>1 DEF Tick, TimerExpiry, ClockSync, ram, flash, seen
<1>2. CASE Crash
  BY <1>2 DEF Crash, ram, flash, seen
<1>3. CASE BootFails \/ BootNothing \/ BootEmpty
  BY <1>3 DEF BootFails, BootNothing, BootEmpty, Goto, Registers, ram, flash,
     seen
<1>4. CASE BootRearm
  BY <1>4 DEF BootRearm, Goto, Registers, ram, flash, seen
<1>5. CASE BootExpired \/ BootClear
  BY <1>5 DEF BootExpired, BootClear, Goto, Registers, Dispatch, ClearFlag,
     ClearRec, ram, flash, seen
<1>6. CASE StartCommand \/ StopCommand
  BY <1>6 DEF StartCommand, StopCommand, CloudRuns, Goto, ram, flash, seen
<1>7. CASE ArmStop \/ ArmRam \/ ArmActive
  BY <1>7 DEF ArmStop, ArmRam, ArmActive, CloudRuns, Goto, ram, flash, seen
<1>8. CASE ArmFlag \/ ArmRec
  BY <1>8 DEF ArmFlag, ArmRec, CloudRuns, Goto, ram, flash, seen
<1>9. CASE ArmTimer
  BY <1>9 DEF ArmTimer, CloudRuns, Goto, Delay, ram, flash, seen
<1>10. ASSUME NEW p \in {"cloud", "wq"},
             CancelNothing(p) \/ CancelBegin(p) \/ CancelStop(p)
      PROVE  OffIsEmpty'
  BY <1>10 DEF CancelNothing, CancelBegin, CancelStop, MayRun, CloudRuns,
     Goto, After, ram, flash, seen
<1>11. ASSUME NEW p \in {"cloud", "wq"},
             CancelFlag(p) \/ CancelRec(p) \/ CancelRam(p)
      PROVE  OffIsEmpty'
  BY <1>11 DEF CancelFlag, CancelRec, CancelRam, MayRun, CloudRuns, Goto,
     After, ram, flash, seen
<1>12. CASE HandlerIdle \/ HandlerFire
  BY <1>12 DEF HandlerIdle, HandlerFire, Goto, Dispatch, ram, flash, seen
<1>13. CASE HandlerClear \/ HandlerRam
  BY <1>13 DEF HandlerClear, HandlerRam, ClearFlag, ClearRec, Goto, ram,
     flash, seen
<1>14. CASE UNCHANGED vars
  BY <1>14 DEF vars, ram, flash, seen
<1> QED
  BY <1>1, <1>2, <1>3, <1>4, <1>5, <1>6, <1>7, <1>8, <1>9, <1>10, <1>11,
     <1>12, <1>13, <1>14 DEF Next, Boot, Arm, Handler, Cancel

(* The work queue fires what is in RAM and a boot what is in flash, each   *)
(* once, and neither finds the schedule again before the next reset.       *)
LEMMA BudgetStep ==
  Places /\ Records /\ Counts /\ OffIsEmpty /\ Budget /\ [Next]_vars =>
     Budget'
<1> SUFFICES ASSUME Places, Records, Counts, OffIsEmpty, Budget, [Next]_vars
   PROVE Budget'
  OBVIOUS
<1>0. ASSUME UNCHANGED <<fired, crashes, next>>,
             cloud' = "off" => cloud = "off",
             wq' = "idle" /\ rec' \in Sched => wq = "idle" /\ rec' = rec,
             cloud' \in {"arm_stop", "arm_ram"} =>
               cloud \in {"arm_stop", "arm_ram"} /\ cur' = cur
      PROVE  Budget'
  BY <1>0 DEF Budget, FiredOncePerReset
<1>m. ASSUME NEW p \in {"cloud", "wq"}, NEW from, NEW to, Goto(p, from, to)
      PROVE  /\ pc[p] = from /\ pc'[p] = to
             /\ \A q \in {"cloud", "wq"} : q # p => pc'[q] = pc[q]
  BY <1>m DEF Goto, Places
<1>1. CASE Tick \/ TimerExpiry \/ ClockSync
  BY <1>0, <1>1 DEF Tick, TimerExpiry, ClockSync, ram, seen, cloud, wq
<1>2. CASE Crash
  <2>1. /\ crashes' = crashes + 1 /\ fired' = fired /\ next' = next
        /\ rec' = NoSched /\ cloud' = "off"
    BY <1>2 DEF Crash, seen, cloud
  <2> QED
    BY <2>1 DEF Budget, FiredOncePerReset, Counts, Sched, NoSched
<1>3. CASE BootFails \/ BootNothing \/ BootEmpty
  <2>1. PICK to \in {"dead", "idle", "boot_flag"} : Goto("cloud", "off", to)
    BY <1>3 DEF BootFails, BootNothing, BootEmpty
  <2> QED
    BY <1>0, <1>3, <1>m, <2>1 DEF BootFails, BootNothing, BootEmpty, ram, seen,
       cloud, wq
<1>4. CASE BootRearm
  <2>1. /\ fired' = fired /\ crashes' = crashes /\ next' = next
        /\ rec' = nvsRec /\ cloud = "off" /\ cloud' = "idle"
    BY <1>4, <1>m DEF BootRearm, seen, cloud
  <2> QED
    BY <2>1 DEF Budget, FiredOncePerReset
<1>5. CASE BootClear
  <2>1. PICK from \in {"boot_flag", "boot_rec"}, to \in {"boot_rec", "idle"} :
          Goto("cloud", from, to)
    BY <1>5 DEF BootClear, ClearFlag, ClearRec
  <2> QED
    BY <1>0, <1>5, <1>m, <2>1 DEF BootClear, ClearFlag, ClearRec, ram, seen,
       cloud, wq
<1>6. CASE StartCommand
  <2>1. /\ fired' = fired /\ crashes' = crashes /\ rec' = rec /\ cur' = next
        /\ next' = next + 1 /\ next \in Sched /\ wq' = wq /\ cloud' # "off"
    BY <1>6, <1>m DEF StartCommand, ram, seen, cloud, wq, Places, Sched
  <2> QED
    BY <2>1 DEF Budget, FiredOncePerReset, Sched
<1>7. CASE ArmRam
  <2>1. /\ fired' = fired /\ crashes' = crashes /\ next' = next /\ rec' = cur
        /\ cloud = "arm_ram" /\ cloud' = "arm_active"
    BY <1>7, <1>m DEF ArmRam, seen, cloud
  <2>2. fired[cur] = 0 /\ crashes \in Nat
    BY <2>1 DEF Budget, Counts
  <2> QED
    BY <2>1, <2>2 DEF Budget, FiredOncePerReset
<1>8. CASE StopCommand \/ ArmStop \/ ArmActive
  <2>1. PICK from \in {"idle", "arm_stop", "arm_active"},
             to \in {"cancel", "arm_ram", "arm_flag"} :
          Goto("cloud", from, to) /\ (to = "arm_ram" => from = "arm_stop")
    BY <1>8 DEF StopCommand, ArmStop, ArmActive
  <2> QED
    BY <1>0, <1>8, <1>m, <2>1 DEF StopCommand, ArmStop, ArmActive, ram, seen,
       cloud, wq
<1>9. CASE ArmFlag \/ ArmRec \/ ArmTimer
  <2>1. PICK from \in {"arm_flag", "arm_rec", "arm_timer"},
             to \in {"arm_rec", "arm_timer", "idle"} : Goto("cloud", from, to)
    BY <1>9 DEF ArmFlag, ArmRec, ArmTimer
  <2> QED
    BY <1>0, <1>9, <1>m, <2>1 DEF ArmFlag, ArmRec, ArmTimer, ram, seen, cloud,
       wq
<1>10. ASSUME NEW p \in {"cloud", "wq"},
             CancelNothing(p) \/ CancelBegin(p) \/ CancelStop(p)
               \/ CancelFlag(p) \/ CancelRec(p)
      PROVE  Budget'
  <2>1. PICK from \in {"cancel", "cancel_stop", "cancel_flag", "cancel_rec"},
             to \in {"cancel_stop", "cancel_flag", "cancel_rec", "cancel_ram",
                     After(p)} : Goto(p, from, to)
    BY <1>10 DEF CancelNothing, CancelBegin, CancelStop, CancelFlag, CancelRec
  <2>2. UNCHANGED <<fired, crashes, next, rec, cur>>
    BY <1>10 DEF CancelNothing, CancelBegin, CancelStop, CancelFlag, CancelRec,
       ram, seen
  <2> QED
    BY <1>0, <1>m, <2>1, <2>2 DEF After, cloud, wq
<1>11. ASSUME NEW p \in {"cloud", "wq"}, CancelRam(p) PROVE Budget'
  BY <1>0, <1>11, <1>m DEF CancelRam, After, seen, cloud, wq, Sched, NoSched
<1>12. CASE HandlerIdle
  BY <1>0, <1>12, <1>m DEF HandlerIdle, seen, cloud, wq
<1>13. CASE HandlerClear \/ HandlerRam
  <2>1. PICK from \in {"clear_flag", "clear_rec", "clear_ram"},
             to \in {"clear_rec", "clear_ram", "idle"} :
          Goto("wq", from, to) /\ (to = "idle" => HandlerRam)
    BY <1>13 DEF HandlerClear, HandlerRam, ClearFlag, ClearRec
  <2>2. UNCHANGED <<fired, crashes, next, cur>> /\ rec' \in {rec, NoSched}
    BY <1>13 DEF HandlerClear, HandlerRam, ClearFlag, ClearRec, ram, seen
  <2> QED
    BY <1>0, <1>m, <2>1, <2>2 DEF HandlerRam, cloud, wq, Sched, NoSched
<1>14. CASE UNCHANGED vars
  BY <1>0, <1>14 DEF vars, ram, seen, cloud, wq
<1> USE WatchdogBounds DEF Sched, NoSched, NoTimer, cloud, wq, CloudSteps,
   WorkSteps, ArmSteps, Places, Records, Counts, OffIsEmpty, Budget,
   FiredOncePerReset
<1>15. CASE BootExpired
  <2>1. /\ nvsRec \in Sched /\ nvsRec < next
        /\ fired' = [fired EXCEPT ![nvsRec] = @ + 1]
    BY <1>15, DispatchCounts DEF BootExpired, Dispatch
  <2>2. /\ cloud = "off" /\ pc' = [pc EXCEPT !["cloud"] = "boot_flag"]
        /\ UNCHANGED <<crashes, next, cur, rec>>
    BY <1>15 DEF BootExpired, Goto, ram
  <2> QED
    BY <2>1, <2>2
<1>16. CASE HandlerFire
  <2>1. \/ fired' = fired
        \/ rec \in Sched /\ fired' = [fired EXCEPT ![rec] = @ + 1]
    BY <1>16, DispatchCounts DEF HandlerFire
  <2>2. /\ wq = "idle" /\ pc' = [pc EXCEPT !["wq"] = "cancel"] /\ cloud # "off"
        /\ UNCHANGED <<crashes, next, cur, rec>>
    BY <1>16 DEF HandlerFire, Goto
  <2> QED
    BY <2>1, <2>2
<1> QED
  BY <1>1, <1>2, <1>3, <1>4, <1>5, <1>6, <1>7, <1>8, <1>9, <1>10, <1>11,
     <1>12, <1>13, <1>14, <1>15, <1>16, Zenon DEF Next, Boot, Arm, Handler,
     Cancel

(* At most once more per reset: whatever the order of arming, cancelling,  *)
(* firing and resetting, for any number of schedules and of resets.        *)
THEOREM OncePerReset == Spec => []FiredOncePerReset
<1> DEFINE IInv == Places /\ Records /\ Counts /\ OffIsEmpty /\ Budget
<1>1. Init => IInv
  BY WatchdogBounds DEF Init, Places, Records, Counts, OffIsEmpty, Budget,
     FiredOncePerReset, cloud, wq, Sched, NoSched, NoTimer, CloudSteps, WorkSteps,
     ArmSteps
<1>2. IInv /\ [Next]_vars => IInv'
  BY PlacesStep, RecordsStep, CountsStep, OffStep, BudgetStep
<1>3. IInv => FiredOncePerReset
  BY DEF Budget
<1> HIDE DEF IInv
<1> QED
  BY <1>1, <1>2, <1>3, PTL DEF Spec

-----------------------------------------------------------------------------
(* While calm lasts                                                        *)

(* The work item starts only where the timer may expire, and the cloud     *)
(* thread waits for its end.                                               *)
LEMMA OneAtATimeStep ==
  Places /\ Times /\ OffIsEmpty /\ OneAtATime /\ FlashFollows /\ [Next]_vars
     => OneAtATime'
<1> SUFFICES ASSUME Places, Times, OffIsEmpty, OneAtATime, FlashFollows,
   [Next]_vars PROVE OneAtATime'
  OBVIOUS
<1> USE WatchdogBounds DEF Sched, NoSched, NoTimer, cloud, wq, Outer, Places,
   CloudSteps, WorkSteps, OffIsEmpty, OneAtATime, FlashFollows, Times
<1>1. CASE Tick
  BY <1>1 DEF Tick, ram, flash, seen
<1>2. CASE TimerExpiry
  BY <1>2 DEF TimerExpiry, ram, flash, seen
<1>3. CASE ClockSync
  BY <1>3 DEF ClockSync, ram, flash, seen
<1>4. CASE Crash
  BY <1>4 DEF Crash, ram, flash, seen
<1>5. CASE BootFails \/ BootNothing \/ BootEmpty
  BY <1>5 DEF BootFails, BootNothing, BootEmpty, Goto, Registers, ram, flash,
     seen
<1>6. CASE BootRearm
  BY <1>6 DEF BootRearm, Goto, Registers, ram, flash, seen
<1>7. CASE BootExpired \/ BootClear
  BY <1>7 DEF BootExpired, BootClear, Goto, Registers, Dispatch, ClearFlag,
     ClearRec, ram, flash, seen
<1>8. CASE StartCommand \/ StopCommand
  BY <1>8 DEF StartCommand, StopCommand, CloudRuns, Goto, ram, flash, seen
<1>9. CASE ArmStop
  BY <1>9 DEF ArmStop, CloudRuns, Goto, ram, flash, seen
<1>10. CASE ArmRam
  BY <1>10 DEF ArmRam, CloudRuns, Goto, ram, flash, seen
<1>11. CASE ArmActive
  BY <1>11 DEF ArmActive, CloudRuns, Goto, ram, flash, seen
<1>12. CASE ArmFlag \/ ArmRec
  BY <1>12 DEF ArmFlag, ArmRec, CloudRuns, Goto, ram, flash, seen
<1>13. CASE ArmTimer
  BY <1>13 DEF ArmTimer, CloudRuns, Goto, Delay, ram, flash, seen
<1>14. ASSUME NEW p \in {"cloud", "wq"},
             CancelNothing(p) \/ CancelBegin(p) \/ CancelStop(p)
      PROVE  OneAtATime'
  BY <1>14 DEF CancelNothing, CancelBegin, CancelStop, MayRun, CloudRuns,
     Goto, After, ram, flash, seen
<1>15. ASSUME NEW p \in {"cloud", "wq"},
             CancelFlag(p) \/ CancelRec(p) \/ CancelRam(p)
      PROVE  OneAtATime'
  BY <1>15 DEF CancelFlag, CancelRec, CancelRam, MayRun, CloudRuns, Goto,
     After, ram, flash, seen
<1>16. CASE HandlerIdle \/ HandlerFire
  BY <1>16 DEF HandlerIdle, HandlerFire, Goto, Dispatch, ram, flash, seen
<1>17. CASE HandlerClear \/ HandlerRam
  BY <1>17 DEF HandlerClear, HandlerRam, ClearFlag, ClearRec, Goto, ram,
     flash, seen
<1>18. CASE UNCHANGED vars
  BY <1>18 DEF vars, ram, flash, seen
<1> QED
  BY <1>1, <1>2, <1>3, <1>4, <1>5, <1>6, <1>7, <1>8, <1>9, <1>10, <1>11,
     <1>12, <1>13, <1>14, <1>15, <1>16, <1>17, <1>18 DEF Next, Boot, Arm,
     Handler, Cancel

(* The timer is not started for less than one.                             *)
LEMMA DelayPositive ==
  ASSUME Times, NEW s \in Sched PROVE Delay(s) \in Nat \ {0}
BY WatchdogBounds DEF Times, Delay

(* Flash follows RAM before the timer starts, and before a cancel ends.    *)
LEMMA FlashFollowsStep ==
  Places /\ Records /\ Times /\ OffIsEmpty /\ OneAtATime /\ FlashFollows /\
     [Next]_vars => FlashFollows'
<1> SUFFICES ASSUME Places, Records, Times, OffIsEmpty, OneAtATime,
   FlashFollows, [Next]_vars PROVE FlashFollows'
  OBVIOUS
<1> USE WatchdogBounds DEF Sched, NoSched, NoTimer, cloud, wq, Outer, Places,
   CloudSteps, WorkSteps, ArmSteps, Records, Times, OffIsEmpty, OneAtATime,
   FlashFollows
<1>1. CASE Tick
  BY <1>1 DEF Tick, ram, flash, seen
<1>2. CASE TimerExpiry
  BY <1>2 DEF TimerExpiry, ram, flash, seen
<1>3. CASE ClockSync
  BY <1>3 DEF ClockSync, ram, flash, seen
<1>4. CASE Crash
  BY <1>4 DEF Crash, ram, flash, seen
<1>5. CASE BootFails \/ BootNothing \/ BootEmpty
  BY <1>5 DEF BootFails, BootNothing, BootEmpty, Goto, Registers, ram, flash,
     seen
<1>6. CASE BootRearm
  BY <1>6 DEF BootRearm, Goto, Registers, ram, flash, seen
<1>7. CASE BootExpired \/ BootClear
  <2>1. CASE BootExpired
    BY <2>1, SMTT(30) DEF BootExpired, Goto, Registers, Dispatch, ram, flash,
       seen
  <2>2. CASE BootClear
    BY <2>2, SMTT(30) DEF BootClear, Goto, ClearFlag, ClearRec, ram, flash,
       seen
  <2> QED
    BY <1>7, <2>1, <2>2
<1>8. CASE StartCommand \/ StopCommand
  BY <1>8 DEF StartCommand, StopCommand, CloudRuns, Goto, ram, flash, seen
<1>9. CASE ArmStop
  BY <1>9 DEF ArmStop, CloudRuns, Goto, ram, flash, seen
<1>10. CASE ArmRam
  BY <1>10 DEF ArmRam, CloudRuns, Goto, ram, flash, seen
<1>11. CASE ArmActive
  BY <1>11 DEF ArmActive, CloudRuns, Goto, ram, flash, seen
<1>12. CASE ArmFlag \/ ArmRec
  BY <1>12 DEF ArmFlag, ArmRec, CloudRuns, Goto, ram, flash, seen
<1>13. CASE ArmTimer
  <2>1. cur \in Sched
    BY <1>13 DEF ArmTimer, Goto, ArmSteps
  <2>2. Delay(cur) \in Nat \ {0}
    BY <2>1, DelayPositive
  <2>3. SUFFICES ASSUME calm' PROVE FlashFollows'
    BY DEF FlashFollows
  <2>4. calm /\ cloud = "arm_timer" /\ cloud' = "idle"
    BY <1>13, <2>3 DEF ArmTimer, CloudRuns, Goto
  <2>5. timer' # NoTimer /\ UNCHANGED <<rec, active, flag, nvsRec>>
    BY <1>13, <2>2 DEF ArmTimer, flash
  <2>6. active /\ flag /\ rec \in Sched /\ nvsRec = rec
    BY <2>1, <2>4
  <2> QED
    BY <2>4, <2>5, <2>6
<1>14. ASSUME NEW p \in {"cloud", "wq"},
             CancelNothing(p) \/ CancelBegin(p) \/ CancelStop(p)
      PROVE  FlashFollows'
  <2>1. SUFFICES ASSUME calm' PROVE FlashFollows'
    BY DEF FlashFollows
  <2>2. calm /\ UNCHANGED <<rec, flag, nvsRec, cur>>
    BY <1>14, <2>1 DEF CancelNothing, CancelBegin, CancelStop, MayRun,
       CloudRuns, ram, flash
  <2>3. CASE p = "cloud"
    <3>1. /\ wq' = wq /\ wq = "idle"
          /\ \/ ~ active /\ cloud = "cancel" /\ cloud' = "idle" /\ active' = active
             \/ cloud = "cancel" /\ cloud' = "cancel_stop"
                  /\ active /\ UNCHANGED <<active, timer, work>>
             \/ cloud = "cancel_stop" /\ cloud' = "cancel_flag" /\ ~ active'
      BY <1>14, <2>1, <2>3 DEF CancelNothing, CancelBegin, CancelStop, MayRun,
         CloudRuns, Goto, After, ram
    <3> QED
      BY <2>2, <3>1
  <2>4. CASE p = "wq"
    <3>1. /\ cloud' = cloud
          /\ \/ ~ active /\ wq = "cancel" /\ wq' = "clear_flag" /\ active' = active
             \/ wq = "cancel" /\ active
             \/ wq = "cancel_stop"
      BY <1>14, <2>4 DEF CancelNothing, CancelBegin, CancelStop, Goto, After,
         ram
    <3>2. ~ active /\ wq = "cancel" /\ wq' = "clear_flag" /\ active' = active
      BY <2>2, <3>1
    <3> QED
      BY <2>2, <3>1, <3>2
  <2> QED
    BY <2>3, <2>4
<1>15. ASSUME NEW p \in {"cloud", "wq"},
             CancelFlag(p) \/ CancelRec(p) \/ CancelRam(p)
      PROVE  FlashFollows'
  BY <1>15 DEF CancelFlag, CancelRec, CancelRam, MayRun, CloudRuns, Goto,
     After, ram, flash, seen
<1>16. CASE HandlerIdle \/ HandlerFire
  BY <1>16 DEF HandlerIdle, HandlerFire, Goto, Dispatch, ram, flash, seen
<1>17. CASE HandlerClear \/ HandlerRam
  BY <1>17 DEF HandlerClear, HandlerRam, ClearFlag, ClearRec, Goto, ram,
     flash, seen
<1>18. CASE UNCHANGED vars
  BY <1>18 DEF vars, ram, flash, seen
<1> QED
  BY <1>1, <1>2, <1>3, <1>4, <1>5, <1>6, <1>7, <1>8, <1>9, <1>10, <1>11,
     <1>12, <1>13, <1>14, <1>15, <1>16, <1>17, <1>18 DEF Next, Boot, Arm,
     Handler, Cancel

(* Calm does not come back.                                                *)
LEMMA CalmBefore == [Next]_vars /\ calm' => calm
BY DEF Next, Boot, Arm, Handler, Cancel, Tick, TimerExpiry, ClockSync, Crash,
   BootFails, BootNothing, BootEmpty, BootRearm, BootExpired, BootClear,
   Registers, StartCommand, ArmStop, ArmRam, ArmActive, ArmFlag, ArmRec,
   ArmTimer, StopCommand, CancelNothing, CancelBegin, CancelStop, CancelFlag,
   CancelRec, CancelRam, MayRun, CloudRuns, HandlerIdle, HandlerFire,
   HandlerClear, HandlerRam, vars

(* Time and the timer go together, and the stop time does not change.      *)
LEMMA TimerTrueStep ==
  Places /\ Records /\ Times /\ OffIsEmpty /\ OneAtATime /\ FlashFollows
  /\ TimerTrue /\ [Next]_vars => TimerTrue'
<1> SUFFICES ASSUME Places, Records, Times, OffIsEmpty, OneAtATime, FlashFollows,
                    TimerTrue, [Next]_vars, calm'
             PROVE  TimerTrue'
  BY DEF TimerTrue
<1>0. /\ calm
      /\ timer # NoTimer => stopAt[rec] <= now + timer
      /\ timer > 1 => now + timer = stopAt[rec]
      /\ work => stopAt[rec] <= now
      /\ timer # NoTimer \/ work => rec \in Sched
  BY CalmBefore DEF TimerTrue, OneAtATime, FlashFollows, Records
<1> USE WatchdogBounds DEF NoTimer
<1>a. ASSUME UNCHANGED <<now, timer, work, rec>>,
             rec \in Sched => stopAt'[rec] = stopAt[rec]
      PROVE  TimerTrue'
  BY <1>0, <1>a DEF TimerTrue, Times
<1>b. ASSUME timer' = NoTimer, ~ work' PROVE TimerTrue'
  BY <1>b DEF TimerTrue
<1>1. CASE Tick
  <2>1. /\ timer' = IF timer = NoTimer THEN NoTimer ELSE timer - 1
        /\ now' = IF now < MaxTime THEN now + 1 ELSE now
        /\ UNCHANGED <<stopAt, rec, work>>
    BY <1>1 DEF Tick
  <2>2. timer # 0
    BY <1>1 DEF Tick
  <2>3. timer # NoTimer \/ work => stopAt[rec] \in 0 .. MaxTime
    BY <1>0 DEF Times
  <2> QED
    BY <1>0, <2>1, <2>2, <2>3 DEF TimerTrue, Times
<1>2. CASE TimerExpiry
  <2>1. stopAt[rec] \in 0 .. MaxTime
    BY <1>0, <1>2 DEF TimerExpiry, Times
  <2> QED
    BY <1>0, <1>2, <2>1 DEF TimerExpiry, TimerTrue, Times
<1>3. CASE BootRearm
  <2>1. /\ clock' /\ nvsRec \in Sched /\ rec' = nvsRec
        /\ timer' = stopAt[nvsRec] - now
        /\ UNCHANGED <<now, stopAt, work>> /\ ~ work
    BY <1>3 DEF BootRearm, Registers, Records, OffIsEmpty, Goto, cloud, NoSched
  <2> QED
    BY <2>1 DEF TimerTrue, Times
<1>4. CASE ArmTimer
  <2>1. /\ cloud = "arm_timer" /\ clock /\ rec = cur /\ cur \in Sched /\ ~ work
        /\ timer' = Delay(cur) /\ UNCHANGED <<now, stopAt, work, rec>>
    BY <1>0, <1>4 DEF ArmTimer, CloudRuns, Goto, cloud, wq, OneAtATime,
       FlashFollows, Places, ArmSteps
  <2>2. Delay(cur) = IF stopAt[cur] - now < 1 THEN 1 ELSE stopAt[cur] - now
    BY <2>1 DEF Delay
  <2>3. stopAt[cur] \in 0 .. MaxTime /\ now \in 0 .. MaxTime
    BY <2>1 DEF Times
  <2> QED
    BY <2>1, <2>2, <2>3 DEF TimerTrue
<1>5. CASE \/ ClockSync \/ BootFails \/ BootNothing \/ BootEmpty \/ BootExpired
           \/ BootClear \/ StopCommand \/ ArmActive \/ ArmFlag \/ ArmRec
           \/ HandlerClear \/ UNCHANGED vars
  BY <1>5, <1>a DEF ClockSync, BootFails, BootNothing, BootEmpty, BootExpired,
     BootClear, ClearFlag, ClearRec, StopCommand, ArmActive, ArmFlag, ArmRec,
     HandlerClear, vars, ram
<1>6. CASE StartCommand
  BY <1>6, <1>a DEF StartCommand, ram, Records, Times, Sched
<1>7. ASSUME NEW p \in {"cloud", "wq"},
             CancelNothing(p) \/ CancelBegin(p) \/ CancelFlag(p) \/ CancelRec(p)
      PROVE  TimerTrue'
  BY <1>7, <1>a DEF CancelNothing, CancelBegin, CancelFlag, CancelRec, ram
<1>8. CASE Crash \/ HandlerIdle \/ HandlerFire
  BY <1>0, <1>8, <1>b DEF Crash, HandlerIdle, HandlerFire, OneAtATime
<1>9. CASE ArmStop \/ ArmRam
  <2>1. CASE ArmStop
    BY <1>0, <2>1, <1>b DEF ArmStop, CloudRuns
  <2>2. CASE ArmRam
    <3>1. timer = NoTimer /\ ~ work
      BY <1>0, <2>2 DEF ArmRam, Goto, cloud, OneAtATime, Outer
    <3> QED
      BY <2>2, <3>1, <1>b DEF ArmRam
  <2> QED
    BY <1>9, <2>1, <2>2
<1>10. ASSUME NEW p \in {"cloud", "wq"}, CancelStop(p) \/ CancelRam(p)
       PROVE  TimerTrue'
  <2>1. CASE CancelStop(p)
    <3>1. p = "cloud"
      BY <1>0, <2>1 DEF CancelStop, Goto, wq, OneAtATime
    <3> QED
      BY <1>0, <2>1, <3>1, <1>b DEF CancelStop, MayRun, CloudRuns
  <2>2. CASE CancelRam(p)
    <3>1. timer = NoTimer /\ ~ work
      BY <1>0, <2>2 DEF CancelRam, Goto, cloud, wq, OneAtATime, Outer
    <3> QED
      BY <2>2, <3>1, <1>b DEF CancelRam
  <2> QED
    BY <1>10, <2>1, <2>2
<1>11. CASE HandlerRam
  <2>1. timer' = NoTimer /\ ~ work'
    BY <1>0, <1>11 DEF HandlerRam, Goto, wq, OneAtATime
  <2> QED
    BY <2>1, <1>b
<1> QED
  BY <1>1, <1>2, <1>3, <1>4, <1>5, <1>6, <1>7, <1>8, <1>9, <1>10, <1>11
     DEF Next, Boot, Arm, Handler, Cancel

(* Only a schedule that is not erased is armed, saved or taken from flash. *)
LEMMA ErasedStep ==
  Places /\ Records /\ Counts /\ OffIsEmpty /\ OneAtATime /\ FlashFollows
  /\ ErasedIsNowhere /\ [Next]_vars => ErasedIsNowhere'
<1> SUFFICES ASSUME Places, Records, Counts, OffIsEmpty, OneAtATime, FlashFollows,
                    ErasedIsNowhere, [Next]_vars, calm', NEW s \in erased'
             PROVE  /\ s < next' /\ nvsRec' # s
                    /\ active' => rec' # s
                    /\ cloud' \in ArmSteps => cur' # s
  BY DEF ErasedIsNowhere
<1>0. /\ calm
      /\ s \in erased => /\ s \in Sched /\ s < next /\ nvsRec # s
                         /\ active => rec # s
                         /\ cloud \in ArmSteps => cur # s
  BY CalmBefore DEF ErasedIsNowhere, Counts
<1> USE <1>0 DEF Sched, NoSched, cloud, wq, ArmSteps, Goto, ram, flash, seen
<1>1. CASE Tick \/ TimerExpiry \/ ClockSync \/ UNCHANGED vars
  BY <1>1 DEF Tick, TimerExpiry, ClockSync, vars
<1>2. CASE Crash \/ BootFails \/ BootNothing \/ BootEmpty
  BY <1>2 DEF Crash, BootFails, BootNothing, BootEmpty, Places
<1>3. CASE BootRearm
  BY <1>3 DEF BootRearm, Places
<1>4. CASE BootExpired
  BY <1>4 DEF BootExpired, Places
<1>5. CASE BootClear
  BY <1>5 DEF BootClear, ClearFlag, ClearRec, Places
<1>6. CASE StartCommand
  BY <1>6 DEF StartCommand, Places
<1>7. CASE StopCommand
  BY <1>7 DEF StopCommand, Places
<1>8. CASE ArmStop \/ ArmRam \/ ArmActive
  BY <1>8 DEF ArmStop, ArmRam, ArmActive, Places, FlashFollows
<1>9. CASE ArmFlag
  BY <1>9 DEF ArmFlag, Places
<1>10. CASE ArmRec
  BY <1>10 DEF ArmRec, CloudRuns, Places, Records, FlashFollows
<1>11. CASE ArmTimer
  BY <1>11 DEF ArmTimer, Places
<1>12. ASSUME NEW p \in {"cloud", "wq"},
              CancelNothing(p) \/ CancelBegin(p) \/ CancelStop(p) \/ CancelFlag(p)
       PROVE  /\ s < next' /\ nvsRec' # s
              /\ active' => rec' # s
              /\ cloud' \in ArmSteps => cur' # s
  BY <1>12 DEF CancelNothing, CancelBegin, CancelStop, CancelFlag, After, Places
<1>13. ASSUME NEW p \in {"cloud", "wq"}, CancelRec(p)
       PROVE  /\ s < next' /\ nvsRec' # s
              /\ active' => rec' # s
              /\ cloud' \in ArmSteps => cur' # s
  <2>1. p = "cloud" /\ ~ active
    BY <1>13 DEF CancelRec, OneAtATime
  <2> QED
    BY <1>13, <2>1 DEF CancelRec, Places, Records
<1>14. ASSUME NEW p \in {"cloud", "wq"}, CancelRam(p)
       PROVE  /\ s < next' /\ nvsRec' # s
              /\ active' => rec' # s
              /\ cloud' \in ArmSteps => cur' # s
  BY <1>14 DEF CancelRam, After, Places, Counts
<1>15. CASE HandlerIdle \/ HandlerFire
  BY <1>15 DEF HandlerIdle, HandlerFire, Places
<1>16. CASE HandlerClear
  BY <1>16 DEF HandlerClear, ClearFlag, ClearRec, Places, Counts
<1>17. CASE HandlerRam
  BY <1>17 DEF HandlerRam, Places, Counts
<1> QED
  BY <1>1, <1>2, <1>3, <1>4, <1>5, <1>6, <1>7, <1>8, <1>9, <1>10, <1>11, <1>12,
     <1>13, <1>14, <1>15, <1>16, <1>17 DEF Next, Boot, Arm, Handler, Cancel

(* The history of what was dispatched, kept and given up only grows, and   *)
(* only sched_wdt_arm and the two ways to clear the flag touch it or flash.*)
LEMMA HistoryGrows ==
  ASSUME Places, Records, Counts, [Next]_vars
  PROVE  /\ \A s \in Sched : fired'[s] >= fired[s]
         /\ gone \subseteq gone'
         /\ kept' = kept \/ (ArmTimer /\ kept' = kept \cup {cur})
         /\ \/ UNCHANGED flash
            \/ ArmFlag \/ ArmRec
            \/ BootClear \/ HandlerClear
            \/ \E p \in {"cloud", "wq"} : CancelFlag(p) \/ CancelRec(p)
<1>1. fired' = fired \/ \E s \in Sched : fired' = [fired EXCEPT ![s] = @ + 1]
  <2>1. CASE BootExpired
    BY <2>1, DispatchCounts DEF BootExpired, Records
  <2>2. CASE HandlerFire
    BY <2>2, DispatchCounts DEF HandlerFire, Records
  <2>3. CASE UNCHANGED fired
    BY <2>3
  <2> QED
    BY <2>1, <2>2, <2>3 DEF Next, Boot, Arm, Handler, Cancel, Tick, TimerExpiry,
       ClockSync, Crash, BootFails, BootNothing, BootEmpty, BootRearm, BootClear,
       StartCommand, ArmStop, ArmRam, ArmActive, ArmFlag, ArmRec, ArmTimer,
       StopCommand, CancelNothing, CancelBegin, CancelStop, CancelFlag, CancelRec,
       CancelRam, HandlerIdle, HandlerClear, HandlerRam, ClearFlag, ClearRec,
       vars, seen
<1>2. \A s \in Sched : fired'[s] >= fired[s]
  BY <1>1 DEF Counts
<1>3. /\ gone \subseteq gone'
      /\ kept' = kept \/ (ArmTimer /\ kept' = kept \cup {cur})
  BY DEF Next, Boot, Arm, Handler, Cancel, Tick, TimerExpiry, ClockSync, Crash,
     BootFails, BootNothing, BootEmpty, BootRearm, BootExpired, BootClear,
     StartCommand, ArmStop, ArmRam, ArmActive, ArmFlag, ArmRec, ArmTimer,
     StopCommand, CancelNothing, CancelBegin, CancelStop, CancelFlag, CancelRec,
     CancelRam, HandlerIdle, HandlerFire, HandlerClear, HandlerRam, ClearFlag,
     ClearRec, vars, seen
<1>4. \/ UNCHANGED flash
      \/ ArmFlag \/ ArmRec \/ BootClear \/ HandlerClear
      \/ \E p \in {"cloud", "wq"} : CancelFlag(p) \/ CancelRec(p)
  BY DEF Next, Boot, Arm, Handler, Cancel, Tick, TimerExpiry, ClockSync, Crash,
     BootFails, BootNothing, BootEmpty, BootRearm, BootExpired, StartCommand,
     ArmStop, ArmRam, ArmActive, ArmTimer, StopCommand, CancelNothing,
     CancelBegin, CancelStop, CancelRam, HandlerIdle, HandlerFire, HandlerRam,
     vars, ram
<1> QED
  BY <1>2, <1>3, <1>4

(* A thread comes to where it clears the flag by way of a dispatch or of   *)
(* an armed watchdog, and nothing comes in between.                        *)
LEMMA ClearsItsOwnStep ==
  Places /\ Records /\ Counts /\ OffIsEmpty /\ OneAtATime /\ FlashFollows
  /\ ClearsItsOwn /\ [Next]_vars => ClearsItsOwn'
<1> SUFFICES ASSUME Places, Records, Counts, OffIsEmpty, OneAtATime,
                    FlashFollows, ClearsItsOwn, [Next]_vars, calm',
                    nvsRec' # NoSched
             PROVE  /\ cloud' = "boot_flag" => fired'[nvsRec'] > 0
                    /\ wq' \in {"cancel", "clear_flag"} => fired'[nvsRec'] > 0
                    /\ cloud' = "cancel_flag" /\ flag' => nvsRec' = rec'
  BY DEF ClearsItsOwn
<1>0. /\ calm /\ nvsRec \in Sched \cup {NoSched}
      /\ \A s \in Sched : fired[s] \in Nat
      /\ nvsRec # NoSched =>
           /\ cloud = "boot_flag" => fired[nvsRec] > 0
           /\ wq \in {"cancel", "clear_flag"} => fired[nvsRec] > 0
           /\ cloud = "cancel_flag" /\ flag => nvsRec = rec
  BY CalmBefore DEF ClearsItsOwn, Records, Counts
<1> USE <1>0 DEF cloud, wq, Goto, ram, flash, seen
<1>1. CASE Tick \/ TimerExpiry \/ ClockSync \/ UNCHANGED vars
  BY <1>1 DEF Tick, TimerExpiry, ClockSync, vars
<1>2. CASE Crash \/ BootFails \/ BootNothing \/ BootEmpty
  BY <1>2 DEF Crash, BootFails, BootNothing, BootEmpty, Places, OffIsEmpty
<1>3. CASE BootRearm
  BY <1>3 DEF BootRearm, Places, OffIsEmpty
<1>4. CASE BootExpired
  <2>1. nvsRec \in Sched /\ nvsRec' = nvsRec /\ wq' = "idle"
    BY <1>4 DEF BootExpired, Places, OffIsEmpty
  <2>2. fired'[nvsRec] = fired[nvsRec] + 1
    BY <1>4, <2>1 DEF BootExpired, Dispatch, Counts
  <2> QED
    BY <1>4, <2>1, <2>2 DEF BootExpired, Places
<1>5. CASE BootClear
  BY <1>5 DEF BootClear, ClearFlag, ClearRec, Places, OneAtATime, Outer
<1>6. CASE StartCommand \/ StopCommand
  BY <1>6 DEF StartCommand, StopCommand, CloudRuns, Places
<1>7. CASE ArmStop \/ ArmRam \/ ArmActive
  BY <1>7 DEF ArmStop, ArmRam, ArmActive, CloudRuns, Places
<1>8. CASE ArmFlag \/ ArmRec \/ ArmTimer
  BY <1>8 DEF ArmFlag, ArmRec, ArmTimer, CloudRuns, Places
<1>9. ASSUME CancelNothing("cloud") \/ CancelBegin("cloud")
             \/ CancelFlag("cloud") \/ CancelRec("cloud")
             \/ CancelRam("cloud")
      PROVE  /\ cloud' = "boot_flag" => fired'[nvsRec'] > 0
             /\ wq' \in {"cancel", "clear_flag"} => fired'[nvsRec'] > 0
             /\ cloud' = "cancel_flag" /\ flag' => nvsRec' = rec'
  BY <1>9 DEF CancelNothing, CancelBegin, CancelFlag, CancelRec, CancelRam,
     MayRun, CloudRuns, After, Places
<1>10. ASSUME CancelStop("cloud")
      PROVE  /\ cloud' = "boot_flag" => fired'[nvsRec'] > 0
             /\ wq' \in {"cancel", "clear_flag"} => fired'[nvsRec'] > 0
             /\ cloud' = "cancel_flag" /\ flag' => nvsRec' = rec'
  BY <1>10 DEF CancelStop, MayRun, CloudRuns, Places, FlashFollows, Outer
<1>11. ASSUME Cancel("wq")
      PROVE  /\ cloud' = "boot_flag" => fired'[nvsRec'] > 0
             /\ wq' \in {"cancel", "clear_flag"} => fired'[nvsRec'] > 0
             /\ cloud' = "cancel_flag" /\ flag' => nvsRec' = rec'
  <2>1. CancelNothing("wq")
    BY <1>11 DEF Cancel, CancelBegin, CancelStop, CancelFlag, CancelRec,
       CancelRam, OneAtATime
  <2> QED
    BY <2>1 DEF CancelNothing, After, Places, OneAtATime, Outer
<1>12. CASE HandlerIdle
  BY <1>12 DEF HandlerIdle, Places, OneAtATime, Outer
<1>13. CASE HandlerFire
  <2>1. cloud \in Outer /\ active
    BY <1>13 DEF HandlerFire, OneAtATime
  <2>2. nvsRec = rec /\ rec \in Sched
    BY <2>1 DEF FlashFollows, Records
  <2>3. fired'[nvsRec] = fired[nvsRec] + 1
    BY <1>13, <2>2 DEF HandlerFire, Dispatch, Sched, NoSched, Counts
  <2> QED
    BY <1>13, <2>1, <2>2, <2>3 DEF HandlerFire, Places, Outer
<1>14. CASE HandlerClear \/ HandlerRam
  BY <1>14 DEF HandlerClear, HandlerRam, ClearFlag, ClearRec, Places,
     OneAtATime, Outer
<1> QED
  BY <1>1, <1>2, <1>3, <1>4, <1>5, <1>6, <1>7, <1>8, <1>9, <1>10, <1>11, <1>12,
     <1>13, <1>14 DEF Next, Boot, Arm, Handler, Cancel

(* A schedule that was kept leaves flash only dispatched or given up.      *)
LEMMA NeverDroppedStep ==
  Places /\ Records /\ Counts /\ OneAtATime /\ FlashFollows /\ ClearsItsOwn
  /\ NeverDropped /\ [Next]_vars => NeverDropped'
<1> SUFFICES ASSUME Places, Records, Counts, OneAtATime, FlashFollows,
                    ClearsItsOwn, NeverDropped, [Next]_vars, calm',
                    NEW s \in kept', ~ (fired'[s] > 0), s \notin gone'
             PROVE  flag' /\ nvsRec' = s
  BY DEF NeverDropped
<1>0. calm
  BY CalmBefore
<1>1. CASE s \notin kept
  <2>1. ArmTimer /\ s = cur
    BY <1>1, HistoryGrows
  <2>2. cloud = "arm_timer" /\ flag' = flag /\ nvsRec' = nvsRec
    BY <2>1 DEF ArmTimer, Goto, cloud, flash
  <2> QED
    BY <1>0, <2>1, <2>2 DEF FlashFollows
<1>2. CASE s \in kept
  <2>1. s \in Sched /\ fired[s] \in Nat /\ fired'[s] \in Nat
    BY <1>2, CountsStep DEF Counts
  <2>2. ~ (fired[s] > 0) /\ s \notin gone
    BY <2>1, HistoryGrows
  <2>3. flag /\ nvsRec = s /\ nvsRec # NoSched
    BY <1>0, <1>2, <2>1, <2>2 DEF NeverDropped, Sched, NoSched
  <2>4. /\ cloud # "boot_flag" /\ wq \notin {"cancel", "clear_flag"}
        /\ cloud = "cancel_flag" => s = rec
    BY <1>0, <2>2, <2>3 DEF ClearsItsOwn
  <2>5. CASE UNCHANGED flash
    BY <2>3, <2>5 DEF flash
  <2>6. CASE ArmFlag
    BY <2>3, <2>6 DEF ArmFlag
  <2>7. CASE ArmRec
    BY <2>1, <2>3, <2>7 DEF ArmRec
  <2>8. CASE BootClear
    BY <1>0, <2>3, <2>4, <2>8 DEF BootClear, ClearFlag, ClearRec, Goto, cloud,
       FlashFollows
  <2>9. CASE HandlerClear
    BY <1>0, <2>3, <2>4, <2>9 DEF HandlerClear, ClearFlag, ClearRec, Goto, wq,
       OneAtATime, FlashFollows
  <2>10. ASSUME NEW p \in {"cloud", "wq"}, CancelFlag(p) \/ CancelRec(p)
         PROVE  FALSE
    <3>1. p = "cloud"
      BY <1>0, <2>10 DEF CancelFlag, CancelRec, Goto, wq, OneAtATime
    <3>2. CASE CancelFlag("cloud")
      BY <2>1, <2>4, <3>2 DEF CancelFlag, Goto, cloud
    <3>3. CASE CancelRec("cloud")
      BY <1>0, <2>3, <3>3 DEF CancelRec, Goto, cloud, FlashFollows
    <3> QED
      BY <2>10, <3>1, <3>2, <3>3
  <2> QED
    BY <2>5, <2>6, <2>7, <2>8, <2>9, <2>10, HistoryGrows
<1> QED
  BY <1>1, <1>2

(* What is dispatched is due: the boot looks at the time, and the work item *)
(* was queued at it.                                                       *)
LEMMA PunctualStep ==
  Places /\ Records /\ Times /\ OneAtATime /\ FlashFollows /\ TimerTrue
  /\ StopNotEarly /\ [Next]_vars => StopNotEarly'
<1> SUFFICES ASSUME Places, Records, Times, OneAtATime, FlashFollows, TimerTrue,
                    StopNotEarly, [Next]_vars, calm'
             PROVE  ~ early'
  BY DEF StopNotEarly
<1>0. calm /\ ~ early
  BY CalmBefore DEF StopNotEarly
<1>1. CASE BootExpired
  <2>1. nvsRec \in Sched /\ ~ (stopAt[nvsRec] > now)
    BY <1>1 DEF BootExpired, Records, Times, NoSched
  <2> QED
    BY <1>0, <1>1, <2>1 DEF BootExpired, Dispatch
<1>2. CASE HandlerFire
  <2>1. stopAt[rec] <= now /\ rec \in Sched
    BY <1>0, <1>2 DEF HandlerFire, TimerTrue, OneAtATime, FlashFollows, Records
  <2>2. ~ (stopAt[rec] > now)
    BY <2>1 DEF Times
  <2> QED
    BY <1>0, <1>2, <2>2 DEF HandlerFire, Dispatch
<1>3. CASE UNCHANGED early
  BY <1>0, <1>3
<1> QED
  BY <1>1, <1>2, <1>3 DEF Next, Boot, Arm, Handler, Cancel, Tick, TimerExpiry,
     ClockSync, Crash, BootFails, BootNothing, BootEmpty, BootRearm, BootClear,
     StartCommand, ArmStop, ArmRam, ArmActive, ArmFlag, ArmRec, ArmTimer,
     StopCommand, CancelNothing, CancelBegin, CancelStop, CancelFlag, CancelRec,
     CancelRam, HandlerIdle, HandlerClear, HandlerRam, ClearFlag, ClearRec, vars,
     seen

CalmInv ==
  /\ Bits /\ Places /\ Records /\ Times /\ Counts /\ OffIsEmpty
  /\ OneAtATime /\ FlashFollows /\ TimerTrue /\ ErasedIsNowhere /\ StopNotEarly
  /\ ClearsItsOwn /\ NeverDropped

(* The watchdog is off at first, and nothing is in flash.                  *)
LEMMA CalmInit == Init => CalmInv
<1> SUFFICES ASSUME Init PROVE CalmInv
  OBVIOUS
<1>1. Bits
  BY Zenon DEF Init, Bits
<1> USE WatchdogBounds DEF Init, cloud, wq, Sched, NoSched, NoTimer, ArmSteps, Outer
<1>2. Places /\ Records /\ Times /\ Counts /\ OffIsEmpty
  BY DEF Places, Records, Times, Counts, OffIsEmpty, CloudSteps, WorkSteps
<1>3. OneAtATime /\ FlashFollows
  BY DEF OneAtATime, FlashFollows
<1>4. TimerTrue /\ ErasedIsNowhere /\ StopNotEarly
  BY DEF TimerTrue, ErasedIsNowhere, StopNotEarly
<1>5. ClearsItsOwn /\ NeverDropped
  BY DEF ClearsItsOwn, NeverDropped
<1> QED
  BY <1>1, <1>2, <1>3, <1>4, <1>5 DEF CalmInv

(* The invariant is kept by every step.                                    *)
LEMMA CalmStep == CalmInv /\ [Next]_vars => CalmInv'
BY BitsStep, PlacesStep, RecordsStep, TimesStep, CountsStep, OffStep,
   OneAtATimeStep, FlashFollowsStep, TimerTrueStep, ErasedStep, PunctualStep,
   ClearsItsOwnStep, NeverDroppedStep
   DEF CalmInv

(* RAM, flash and timer agree between operations, resets included, for any *)
(* number of schedules and resets: an armed watchdog is in flash and its   *)
(* timer runs to the stop time, and one that is not armed is not in flash. *)
(* And no schedule is dropped: it is in flash until its stop is dispatched *)
(* or it is cancelled or replaced.                                         *)
THEOREM WatchdogAgrees == Spec => []Consistent
<1>1. CalmInv => Consistent
  <2> SUFFICES ASSUME CalmInv PROVE Consistent
    OBVIOUS
  <2>1. TypeOK
    BY Zenon DEF TypeOK, CalmInv, Bits, Places, Records, Times, Counts, cloud, wq
  <2>2. FlashAgrees
    BY DEF CalmInv, FlashAgrees, AtRest, OneAtATime, FlashFollows, Outer, cloud, wq
  <2>3. TimerOnTime
    BY DEF CalmInv, TimerOnTime, AtRest, TimerTrue
  <2> QED
    BY <2>1, <2>2, <2>3 DEF CalmInv, Consistent
<1> QED
  BY CalmInit, CalmStep, <1>1, PTL DEF Spec

(* No stop command is dispatched before its time, whatever was armed       *)
(* before it, for any number of schedules and resets.                      *)
THEOREM StopOnTime == Spec => []StopNotEarly
<1>1. CalmInv => StopNotEarly
  BY DEF CalmInv
<1> QED
  BY CalmInit, CalmStep, <1>1, PTL DEF Spec

(* Once its record in flash is replaced or cleared, the stop of a schedule *)
(* is not dispatched any more, whatever resets and arms follow.            *)
THEOREM StaysQuiet == Spec => CancelledStaysQuiet
<1>1. CalmInv /\ [Next]_vars
      => [calm => \A s \in erased : fired'[s] = fired[s]]_vars
  <2> SUFFICES ASSUME CalmInv, [Next]_vars, calm, NEW s \in erased
               PROVE  fired'[s] = fired[s]
    OBVIOUS
  <2>1. /\ s \in Sched /\ nvsRec # s
        /\ active => rec # s
    BY DEF CalmInv, ErasedIsNowhere, Counts
  <2>2. CASE BootExpired
    <3>1. fired' = fired \/ fired' = [fired EXCEPT ![nvsRec] = @ + 1]
      BY <2>2 DEF BootExpired, Dispatch
    <3> QED
      BY <2>1, <3>1 DEF CalmInv, Counts
  <2>3. CASE HandlerFire
    <3>1. /\ rec # s
          /\ fired' = fired \/ fired' = [fired EXCEPT ![rec] = @ + 1]
      BY <2>1, <2>3 DEF HandlerFire, Dispatch
    <3> QED
      BY <2>1, <3>1 DEF CalmInv, Counts
  <2>4. CASE UNCHANGED fired
    BY <2>4
  <2> QED
    BY <2>2, <2>3, <2>4 DEF Next, Boot, Arm, Handler, Cancel, Tick, TimerExpiry,
       ClockSync, Crash, BootFails, BootNothing, BootEmpty, BootRearm, BootClear,
       StartCommand, ArmStop, ArmRam, ArmActive, ArmFlag, ArmRec, ArmTimer,
       StopCommand, CancelNothing, CancelBegin, CancelStop, CancelFlag, CancelRec,
       CancelRam, HandlerIdle, HandlerClear, HandlerRam, ClearFlag, ClearRec,
       vars, seen
<1> QED
  BY CalmInit, CalmStep, <1>1, PTL DEF Spec, CancelledStaysQuiet

=============================================================================
