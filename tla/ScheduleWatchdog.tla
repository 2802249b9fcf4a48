-------------------------- MODULE ScheduleWatchdog --------------------------
(***************************************************************************)
(* The schedule watchdog of src/conexio_cloud.c (sched_wdt_arm,            *)
(* sched_wdt_work_handler, sched_watchdog_boot_check and                   *)
(* conexio_cloud_cancel_schedule_watchdog): a start command that names a   *)
(* stop command and a stop time leaves the stop command in RAM and in two  *)
(* NVS records and starts a timer; the timer's work item, on the system    *)
(* work queue, dispatches the stop command; so does the next boot, when    *)
(* the time has passed.                                                    *)
(*                                                                         *)
(* There is one record and no lock: the cloud thread arms and cancels, the *)
(* work queue fires and clears.  Schedules are numbered in the order of    *)
(* their start commands; the record is the number of the schedule.  Time   *)
(* is counted from an origin that is Epoch after 1970.                     *)
(*                                                                         *)
(* The work queue is cooperative and runs before the cloud thread, unless  *)
(* one of its items blocks; and the wait for the clock at boot can end     *)
(* without it.  Both are modelled.  The invariants that hold only without  *)
(* them ask for calm, which is false from the first such step on.  Flash   *)
(* is taken to work: the code does not look at the results of its writes.  *)
(***************************************************************************)
EXTENDS Integers, FiniteSets

CONSTANTS
  MaxSched,     \* bound: start commands in a behaviour
  MaxTime,      \* bound: the last instant told apart
  MaxCrash,     \* bound: resets in a behaviour
  Epoch         \* wall clock at time 0

ASSUME WatchdogBounds ==
  /\ MaxSched \in Nat \ {0} /\ MaxTime \in Nat \ {0}
  /\ MaxCrash \in Nat /\ Epoch \in Nat

VARIABLES
  now,           \* true time
  clock,         \* does date_time_now succeed?
  stopAt,        \* stop time of each schedule
  rec, active,   \* g_sched_wdt and g_sched_wdt_active
  timer,         \* time left on g_sched_wdt_timer, NoTimer when stopped
  work,          \* g_sched_wdt_work is queued
  flag, nvsRec,  \* the two NVS records
  pc,            \* where the cloud thread and the work queue are
  cur,           \* schedule being armed
  next,          \* number of the next schedule
  crashes,       \* resets so far
  fired,         \* history: times the watchdog dispatched the stop
  early,         \* history: a stop was dispatched before its time
  kept,          \* history: schedules whose sched_wdt_arm has returned
  gone,          \* history: schedules replaced or cancelled, so that the
                 \* next reset does not bring them back
  erased,        \* history: those of them whose record was cleared too
  calm           \* history: the cloud thread has not armed or cancelled with
                 \* the work item pending, and the clock was set at each boot

ram   == <<rec, active, timer, work>>
flash == <<flag, nvsRec>>
seen  == <<fired, early, kept, gone, erased>>
vars  == <<now, clock, stopAt, ram, flash, pc, cur, next, crashes, seen, calm>>

Sched   == 1 .. MaxSched
NoSched == 0
NoTimer == -1

Init ==
  /\ now = 0
  /\ clock = FALSE
  /\ stopAt = [s \in Sched |-> 0]
  /\ rec = NoSched /\ active = FALSE
  /\ timer = NoTimer /\ work = FALSE
  /\ flag = FALSE /\ nvsRec = NoSched
  /\ pc = [cloud |-> "off", wq |-> "idle"]
  /\ cur = NoSched
  /\ next = 1
  /\ crashes = 0
  /\ fired = [s \in Sched |-> 0]
  /\ early = FALSE
  /\ kept = {}
  /\ gone = {} /\ erased = {}
  /\ calm = TRUE

(* The command of a record that was zeroed is the empty string: nothing is *)
(* registered under it and dispatch_command only logs.                     *)
Dispatch(s) ==
  /\ fired' = IF s = NoSched THEN fired ELSE [fired EXCEPT ![s] = @ + 1]
  /\ early' = (early \/ (s # NoSched /\ stopAt[s] > now))

(* The delay to the stop time, at least 1; without a clock it is the time  *)
(* since 1970.                                                             *)
Delay(s) ==
  LET d == IF clock THEN stopAt[s] - now ELSE Epoch + stopAt[s]
  IN  IF d < 1 THEN 1 ELSE d

-----------------------------------------------------------------------------
(* Time, the timer, the clock and power (external) *)

Tick ==
  /\ now < MaxTime \/ timer > 0
  /\ timer # 0
  /\ now' = IF now < MaxTime THEN now + 1 ELSE now
  /\ timer' = IF timer = NoTimer THEN NoTimer ELSE timer - 1
  /\ UNCHANGED <<clock, stopAt, rec, active, work, flash, pc, cur, next,
                 crashes, seen, calm>>

(* sched_wdt_timer_expiry: k_work_submit. *)
TimerExpiry ==
  /\ timer = 0
  /\ timer' = NoTimer
  /\ work' = TRUE
  /\ UNCHANGED <<now, clock, stopAt, rec, active, flash, pc, cur, next,
                 crashes, seen, calm>>

ClockSync ==
  /\ pc["cloud"] \notin {"off", "dead"}
  /\ ~ clock
  /\ clock' = TRUE
  /\ UNCHANGED <<now, stopAt, ram, flash, pc, cur, next, crashes, seen, calm>>

Crash ==
  /\ pc["cloud"] # "off"
  /\ crashes < MaxCrash
  /\ crashes' = crashes + 1
  /\ clock' = FALSE
  /\ rec' = NoSched /\ active' = FALSE
  /\ timer' = NoTimer /\ work' = FALSE
  /\ cur' = NoSched
  /\ pc' = [cloud |-> "off", wq |-> "idle"]
  /\ UNCHANGED <<now, stopAt, flash, next, seen, calm>>

Goto(p, from, to) ==
  /\ pc[p] = from
  /\ pc' = [pc EXCEPT ![p] = to]

-----------------------------------------------------------------------------
(* conexio_cloud_init and sched_watchdog_boot_check *)

(* LTE does not register in time: init returns before the boot check. *)
BootFails ==
  /\ Goto("cloud", "off", "dead")
  /\ calm' = FALSE
  /\ UNCHANGED <<now, clock, stopAt, ram, flash, cur, next, crashes, seen>>

(* It registers; the clock is set by the end of the wait, or is not. *)
Registers ==
  /\ clock' \in BOOLEAN
  /\ calm' = (calm /\ clock')

BootNothing ==
  /\ Registers
  /\ ~ flag
  /\ Goto("cloud", "off", "idle")
  /\ UNCHANGED <<now, stopAt, ram, flash, cur, next, crashes, seen>>

BootEmpty ==
  /\ Registers
  /\ flag /\ nvsRec = NoSched
  /\ Goto("cloud", "off", "boot_flag")
  /\ UNCHANGED <<now, stopAt, ram, flash, cur, next, crashes, seen>>

(* Mutant of BootRearm: the timer is started, the record is not taken over. *)
BootRearmTimerOnly ==
  /\ Registers
  /\ flag /\ nvsRec # NoSched
  /\ clock' => stopAt[nvsRec] > now
  /\ timer' = IF clock' THEN stopAt[nvsRec] - now ELSE Epoch + stopAt[nvsRec]
  /\ active' = TRUE
  /\ Goto("cloud", "off", "idle")
  /\ UNCHANGED <<now, stopAt, rec, work, flash, cur, next, crashes, seen>>

(* The stop time is ahead, or the clock is not set: armed again. *)
BootRearm ==
  /\ Registers
  /\ flag /\ nvsRec # NoSched
  /\ clock' => stopAt[nvsRec] > now
  /\ timer' = IF clock' THEN stopAt[nvsRec] - now ELSE Epoch + stopAt[nvsRec]
  /\ rec' = nvsRec /\ active' = TRUE
  /\ Goto("cloud", "off", "idle")
  /\ UNCHANGED <<now, stopAt, work, flash, cur, next, crashes, seen>>

(* The stop time has passed: dispatched on the spot, then cleared. *)
BootExpired ==
  /\ Registers /\ clock'
  /\ flag /\ nvsRec # NoSched
  /\ stopAt[nvsRec] <= now
  /\ Dispatch(nvsRec)
  /\ Goto("cloud", "off", "boot_flag")
  /\ UNCHANGED <<now, stopAt, ram, flash, cur, next, crashes, kept, gone,
                 erased>>

-----------------------------------------------------------------------------
(* sched_wdt_nvs_clear, on whichever thread runs it *)

ClearFlag(p, from, to) ==
  /\ Goto(p, from, to)
  /\ flag' = FALSE
  /\ UNCHANGED <<now, clock, stopAt, ram, nvsRec, cur, next, crashes, seen>>

ClearRec(p, from, to) ==
  /\ Goto(p, from, to)
  /\ nvsRec' = NoSched
  /\ UNCHANGED <<now, clock, stopAt, ram, flag, cur, next, crashes, seen>>

BootClear ==
  /\ \/ ClearFlag("cloud", "boot_flag", "boot_rec")
     \/ ClearRec("cloud", "boot_rec", "idle")
  /\ UNCHANGED calm

-----------------------------------------------------------------------------
(* transport_on_message with stopCommand and stopAt, and sched_wdt_arm     *)

(* The work queue has the higher, cooperative priority: it runs first      *)
(* unless a work item - this one or another - blocks.  A step of the cloud *)
(* thread that it should have preceded is the end of calm.                 *)
CloudRuns == calm' = (calm /\ ~ work /\ pc["wq"] = "idle")

(* The start command is dispatched first. *)
StartCommand ==
  /\ CloudRuns /\ next <= MaxSched
  /\ Goto("cloud", "idle", "arm_stop")
  /\ \E t \in 0 .. MaxTime : stopAt' = [stopAt EXCEPT ![next] = t]
  /\ cur' = next
  /\ next' = next + 1
  /\ UNCHANGED <<now, clock, ram, flash, crashes, seen>>

(* Mutant of ArmStop: the former timer goes on. *)
ArmStopNot ==
  /\ CloudRuns
  /\ Goto("cloud", "arm_stop", "arm_ram")
  /\ UNCHANGED <<now, clock, stopAt, ram, flash, cur, next, crashes, seen>>

ArmStop ==
  /\ CloudRuns
  /\ Goto("cloud", "arm_stop", "arm_ram")
  /\ timer' = NoTimer
  /\ UNCHANGED <<now, clock, stopAt, rec, active, work, flash, cur, next,
                 crashes, seen>>

ArmRam ==
  /\ CloudRuns
  /\ Goto("cloud", "arm_ram", "arm_active")
  /\ rec' = cur
  /\ UNCHANGED <<now, clock, stopAt, active, timer, work, flash, cur, next,
                 crashes, seen>>

ArmActive ==
  /\ CloudRuns
  /\ Goto("cloud", "arm_active", "arm_flag")
  /\ active' = TRUE
  /\ UNCHANGED <<now, clock, stopAt, rec, timer, work, flash, cur, next,
                 crashes, seen>>

(* sched_wdt_nvs_save: the flag, then the record. *)
ArmFlag ==
  /\ CloudRuns
  /\ Goto("cloud", "arm_flag", "arm_rec")
  /\ flag' = TRUE
  /\ UNCHANGED <<now, clock, stopAt, ram, nvsRec, cur, next, crashes, seen>>

(* A schedule that was still armed has now lost its place. *)
ArmRec ==
  /\ CloudRuns
  /\ Goto("cloud", "arm_rec", "arm_timer")
  /\ nvsRec' = rec
  /\ gone' = gone \cup ({nvsRec} \cap Sched)
  /\ erased' = erased \cup ({nvsRec} \cap Sched)
  /\ UNCHANGED <<now, clock, stopAt, ram, flag, cur, next, crashes, fired,
                 early, kept>>

(* Mutant of ArmTimer: the timer is not started. *)
ArmTimerNot ==
  /\ CloudRuns
  /\ Goto("cloud", "arm_timer", "idle")
  /\ cur' = NoSched
  /\ kept' = kept \cup {cur}
  /\ UNCHANGED <<now, clock, stopAt, ram, flash, next, crashes, fired, early,
                 gone, erased>>

ArmTimer ==
  /\ CloudRuns
  /\ Goto("cloud", "arm_timer", "idle")
  /\ timer' = Delay(cur)
  /\ cur' = NoSched
  /\ kept' = kept \cup {cur}
  /\ UNCHANGED <<now, clock, stopAt, rec, active, work, flash, next, crashes,
                 fired, early, gone, erased>>

-----------------------------------------------------------------------------
(* conexio_cloud_cancel_schedule_watchdog, called by the application's     *)
(* stop handler: on the cloud thread when the stop command comes from the  *)
(* cloud, on the work queue when the watchdog dispatches it.               *)

MayRun(p) == IF p = "cloud" THEN CloudRuns ELSE UNCHANGED calm

StopCommand ==
  /\ CloudRuns
  /\ Goto("cloud", "idle", "cancel")
  /\ UNCHANGED <<now, clock, stopAt, ram, flash, cur, next, crashes, seen>>

After(p) == IF p = "cloud" THEN "idle" ELSE "clear_flag"

CancelNothing(p) ==
  /\ MayRun(p)
  /\ ~ active
  /\ Goto(p, "cancel", After(p))
  /\ UNCHANGED <<now, clock, stopAt, ram, flash, cur, next, crashes, seen>>

CancelBegin(p) ==
  /\ MayRun(p)
  /\ active
  /\ Goto(p, "cancel", "cancel_stop")
  /\ UNCHANGED <<now, clock, stopAt, ram, flash, cur, next, crashes, seen>>

CancelStop(p) ==
  /\ MayRun(p)
  /\ Goto(p, "cancel_stop", "cancel_flag")
  /\ timer' = NoTimer
  /\ active' = FALSE
  /\ UNCHANGED <<now, clock, stopAt, rec, work, flash, cur, next, crashes,
                 seen>>

(* From here on the next reset does not bring the schedule back. *)
CancelFlag(p) ==
  /\ MayRun(p)
  /\ Goto(p, "cancel_flag", "cancel_rec")
  /\ flag' = FALSE
  /\ gone' = gone \cup ({rec} \cap Sched)
  /\ UNCHANGED <<now, clock, stopAt, ram, nvsRec, cur, next, crashes, fired,
                 early, kept, erased>>

(* Mutant of CancelRec: the stale record stays in flash. *)
CancelRecNot(p) ==
  /\ MayRun(p)
  /\ Goto(p, "cancel_rec", "cancel_ram")
  /\ erased' = erased \cup ({rec} \cap Sched)
  /\ UNCHANGED <<now, clock, stopAt, ram, flash, cur, next, crashes, fired,
                 early, kept, gone>>

(* From here on none does. *)
CancelRec(p) ==
  /\ MayRun(p)
  /\ Goto(p, "cancel_rec", "cancel_ram")
  /\ nvsRec' = NoSched
  /\ erased' = erased \cup ({rec} \cap Sched)
  /\ UNCHANGED <<now, clock, stopAt, ram, flag, cur, next, crashes, fired,
                 early, kept, gone>>

CancelRam(p) ==
  /\ MayRun(p)
  /\ Goto(p, "cancel_ram", After(p))
  /\ rec' = NoSched
  /\ UNCHANGED <<now, clock, stopAt, active, timer, work, flash, cur, next,
                 crashes, seen>>

Cancel(p) ==
  \/ CancelNothing(p) \/ CancelBegin(p) \/ CancelStop(p)
  \/ CancelFlag(p) \/ CancelRec(p) \/ CancelRam(p)

-----------------------------------------------------------------------------
(* sched_wdt_work_handler *)

(* The work item may have been overtaken by a cancel. *)
HandlerIdle ==
  /\ work /\ ~ active
  /\ Goto("wq", "idle", "idle")
  /\ work' = FALSE
  /\ UNCHANGED <<now, clock, stopAt, rec, active, timer, flash, cur, next,
                 crashes, seen, calm>>

HandlerFire ==
  /\ work /\ active
  /\ Goto("wq", "idle", "cancel")
  /\ work' = FALSE
  /\ active' = FALSE
  /\ Dispatch(rec)
  /\ UNCHANGED <<now, clock, stopAt, rec, timer, flash, cur, next, crashes,
                 kept, gone, erased, calm>>

HandlerClear ==
  /\ \/ ClearFlag("wq", "clear_flag", "clear_rec")
     \/ ClearRec("wq", "clear_rec", "clear_ram")
  /\ UNCHANGED calm

(* Mutant of HandlerRam: the record stays. *)
HandlerRamKeeps ==
  /\ Goto("wq", "clear_ram", "idle")
  /\ UNCHANGED <<now, clock, stopAt, ram, flash, cur, next, crashes, seen,
                 calm>>

(* The callback is told, and the record is zeroed. *)
HandlerRam ==
  /\ Goto("wq", "clear_ram", "idle")
  /\ rec' = NoSched
  /\ UNCHANGED <<now, clock, stopAt, active, timer, work, flash, cur, next,
                 crashes, seen, calm>>

Boot == BootNothing \/ BootEmpty \/ BootRearm \/ BootExpired
Arm  == ArmStop \/ ArmRam \/ ArmActive \/ ArmFlag \/ ArmRec \/ ArmTimer
Handler ==
  HandlerIdle \/ HandlerFire \/ Cancel("wq") \/ HandlerClear \/ HandlerRam

Next ==
  \/ Tick \/ TimerExpiry \/ ClockSync \/ Crash
  \/ BootFails \/ Boot \/ BootClear
  \/ StartCommand \/ Arm \/ StopCommand \/ Cancel("cloud")
  \/ Handler

Spec == Init /\ [][Next]_vars

(* The device comes back after a reset, time goes on, the timer expires,   *)
(* and both threads finish what they have begun.                           *)
FairSpec ==
  /\ Spec
  /\ WF_vars(Tick) /\ WF_vars(TimerExpiry)
  /\ WF_vars(Boot \/ BootFails) /\ WF_vars(BootClear)
  /\ WF_vars(Arm) /\ WF_vars(Cancel("cloud")) /\ WF_vars(Handler)

-----------------------------------------------------------------------------
(* Invariants *)

CloudSteps ==
  {"off", "dead", "idle", "boot_flag", "boot_rec",
   "arm_stop", "arm_ram", "arm_active", "arm_flag", "arm_rec", "arm_timer",
   "cancel", "cancel_stop", "cancel_flag", "cancel_rec", "cancel_ram"}
WorkSteps ==
  {"idle", "cancel", "cancel_stop", "cancel_flag", "cancel_rec", "cancel_ram",
   "clear_flag", "clear_rec", "clear_ram"}

TypeOK ==
  /\ now \in 0 .. MaxTime
  /\ clock \in BOOLEAN
  /\ stopAt \in [Sched -> 0 .. MaxTime]
  /\ rec \in Sched \cup {NoSched} /\ nvsRec \in Sched \cup {NoSched}
  /\ active \in BOOLEAN /\ work \in BOOLEAN /\ flag \in BOOLEAN
  /\ timer \in NoTimer .. MaxTime + Epoch
  /\ pc \in [{"cloud", "wq"} -> CloudSteps \cup WorkSteps]
  /\ pc["cloud"] \in CloudSteps /\ pc["wq"] \in WorkSteps
  /\ cur \in Sched \cup {NoSched}
  /\ next \in 1 .. MaxSched + 1
  /\ crashes \in 0 .. MaxCrash
  /\ fired \in [Sched -> Nat]
  /\ early \in BOOLEAN
  /\ kept \subseteq Sched /\ gone \subseteq Sched /\ erased \subseteq Sched
  /\ calm \in BOOLEAN

AtRest == calm /\ pc["cloud"] = "idle" /\ pc["wq"] = "idle"

(* "Stores the stop info ... in NVS so it survives a reboot" and "Clears   *)
(* the NVS record after the stop command executes" (conexio_cloud.c): when *)
(* neither thread is in the middle of something, an armed watchdog is in   *)
(* flash as it is in RAM and its timer runs or its work is queued; and a   *)
(* watchdog that is not armed would not come back after a reset.           *)
FlashAgrees ==
  AtRest =>
    IF active THEN /\ rec # NoSched
                   /\ flag /\ nvsRec = rec
                   /\ timer # NoTimer \/ work
    ELSE ~ flag /\ timer = NoTimer

(* "the timer is re-armed for the remaining duration" (conexio_cloud.c):   *)
(* an armed watchdog's timer expires at the stop time, or at once when     *)
(* that has passed.                                                        *)
TimerOnTime ==
  AtRest /\ active /\ timer > 1 => now + timer = stopAt[rec]

(* "the schedule is never silently dropped" (device_schedules/README.md),  *)
(* at every step of both threads and through every reset: once             *)
(* sched_wdt_arm has returned, the stop of a schedule is in flash until it *)
(* was dispatched, or the schedule was cancelled or replaced.              *)
NeverDropped ==
  calm => \A s \in kept : fired[s] > 0 \/ s \in gone \/ (flag /\ nvsRec = s)

(* RAM, flash and timer agree between operations, resets included, and     *)
(* what was armed is not lost in between.                                  *)
Consistent == TypeOK /\ FlashAgrees /\ TimerOnTime /\ NeverDropped

(* "Arms a k_timer for (stopAt - now).  When the timer fires it dispatches *)
(* the stop command" (conexio_cloud.c): no stop command is dispatched      *)
(* before its time, whatever was armed before it.                          *)
StopNotEarly == calm => ~ early

(* The stop of a schedule is repeated only when power fails after it was   *)
(* dispatched and before flash was cleared: at most once per reset.        *)
FiredOncePerReset == \A s \in Sched : fired[s] <= 1 + crashes

-----------------------------------------------------------------------------
(* Step properties and liveness *)

(* "this prevents the watchdog from dispatching a duplicate stop command   *)
(* later" (conexio_cloud.h): once another schedule has replaced the record *)
(* in flash, or a cancel has cleared it ("to remove stale data",           *)
(* conexio_cloud.c), the stop of a schedule is not dispatched any more,    *)
(* whatever resets and arms follow.                                        *)
CancelledStaysQuiet ==
  [][calm => \A s \in erased : fired'[s] = fired[s]]_vars

(* The same sentence, taken from the moment at which the cancel has        *)
(* cleared the flag.  A reset can leave the record behind, and a later arm *)
(* sets the flag before it writes its own.                                 *)
NoDuplicateStop ==
  [][calm => \A s \in gone : fired'[s] = fired[s]]_vars

(* "the schedule is never silently dropped" (device_schedules/README.md),  *)
(* from the moment sched_wdt_arm has returned: with the clock set at boot, *)
(* the stop command is dispatched, through resets at any step, unless the  *)
(* schedule is cancelled or replaced.                                      *)
ArmedStops ==
  \A s \in Sched : s \in kept ~> fired[s] > 0 \/ s \in gone \/ ~ calm

=============================================================================
