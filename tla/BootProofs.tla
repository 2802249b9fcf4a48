----------------------------- MODULE BootProofs -----------------------------
(***************************************************************************)
(* Proofs about the two components that start anew with every boot and     *)
(* that a reset cuts off at any step.  They share no state, and neither    *)
(* module defines a name of the other's.                                   *)
(*                                                                         *)
(* Startup, and with it the fuel gauge and the cell location, which live   *)
(* on the same events of the modem: for every interval of the cell         *)
(* location, and however often the device starts again, the flag of the    *)
(* cell location agrees with the modem, and no more than two samples of    *)
(* the fuel gauge get into a sleep.                                        *)
(*                                                                         *)
(* Fota: for any threads, jobs and versions, and any number of commands    *)
(* and resets, as long as no two steps cross, what the cloud is told of a  *)
(* job is what became of it, and the record that the check reads is of an  *)
(* update that is over.                                                    *)
(***************************************************************************)
EXTENDS Startup, Fota, TLAPS

-----------------------------------------------------------------------------
(* Startup: the inductive invariant *)

DeviceFlags ==
  /\ wdt \in BOOLEAN /\ wdt_dev \in BOOLEAN
  /\ registered \in BOOLEAN /\ asleep \in BOOLEAN /\ grant \in BOOLEAN
  /\ lte_handler \in BOOLEAN /\ power_handler \in BOOLEAN
  /\ g_psm_decision_received \in BOOLEAN

GaugeFlags == g_ready \in BOOLEAN /\ g_sleeping \in BOOLEAN

CellFlags ==
  /\ cell_ready \in BOOLEAN /\ g_measurement_active \in BOOLEAN
  /\ measuring \in BOOLEAN /\ g_publish_work \in BOOLEAN
  /\ early \in BOOLEAN

Places ==
  /\ boot \in Steps \cup {"failed", "app"}
  /\ error \in CanFail \cup {"none"}
  /\ lte_ready_sem \in 0 .. 1 /\ psm_grant_sem \in 0 .. 1
  /\ psm \in {"unset", "minus1", "granted"}
  /\ dispatching \in {"idle", "enter"}

Gauge ==
  /\ fg_resume_sem \in 0 .. 1
  /\ fg \in {"off", "nap", "suspend", "sample"}
  /\ strays \in Nat

(* The calls of process that a sleep has seen and those that it may still  *)
(* see: the sample under way, and the one a token stands for.              *)
Pending == fg_resume_sem + (IF fg = "sample" THEN 1 ELSE 0)

StraysCounted ==
  /\ strays <= 2
  /\ g_sleeping => strays + Pending <= 2

(* While main asks the modem, no measurement has ever come early, and the  *)
(* flag is not set; after the modem has accepted, the measurement is over  *)
(* only if its result came early.                                          *)
Asking ==
  /\ app \in {"loop", "request", "accepted"}
  /\ g_tick_counter \in 0 .. Interval - 1
  /\ app = "loop" /\ early => g_measurement_active /\ ~ measuring
  /\ app = "loop" /\ ~ early => (g_measurement_active <=> measuring)
  /\ app = "request" => ~ early /\ ~ g_measurement_active /\ ~ measuring
  /\ app = "accepted" => ~ g_measurement_active /\ (early <=> ~ measuring)

-----------------------------------------------------------------------------
(* The flags of the device are Booleans at reset. *)
LEMMA DeviceFlagsInit == Init => DeviceFlags
BY Zenon DEF Init, DeviceFlags

(* Every step leaves every flag of the device a Boolean. *)
LEMMA DeviceFlagsStep == DeviceFlags /\ [Next]_vars => DeviceFlags'
<1> SUFFICES ASSUME DeviceFlags, [Next]_vars PROVE DeviceFlags'
  OBVIOUS
<1>1. CASE Boot
  <2>1. ASSUME NEW step \in CanFail, Fail(step) PROVE DeviceFlags'
    BY <2>1, Zenon DEF DeviceFlags, Fail, lte, power
  <2>2. CASE BatteryInit \/ Spawn
    BY <2>2, Zenon DEF DeviceFlags, BatteryInit, Spawn, Goto, lte, power
  <2>3. CASE RetryInit
    BY <2>3, Zenon DEF DeviceFlags, RetryInit, lte, power
  <2>4. CASE LteConnect \/ LteReady
    BY <2>4, Zenon DEF DeviceFlags, LteConnect, LteReady, Goto, power
  <2>5. CASE PowerInit \/ PsmDecided \/ PsmTimeout
    BY <2>5, Zenon DEF DeviceFlags, PowerInit, PsmDecided, PsmTimeout, Goto,
       lte
  <2>6. CASE \/ ModemLibInit \/ ReadImei \/ CheckCredentials \/ NtpWait
             \/ ConfigFetch \/ TransportInit
    BY <2>6, Zenon DEF DeviceFlags, ModemLibInit, ReadImei, CheckCredentials,
       NtpWait, ConfigFetch, TransportInit, Goto, lte, power
  <2> QED
    BY <1>1, <2>1, <2>2, <2>3, <2>4, <2>5, <2>6, Zenon DEF Boot
<1>2. CASE WdtFires
  BY <1>2, Zenon DEF DeviceFlags, WdtFires
<1>3. CASE Modem
  <2>1. CASE Register \/ Drop
    BY <2>1, Zenon DEF DeviceFlags, Register, Drop, main, power
  <2>2. CASE FallAsleep \/ EnterSleep
    BY <2>2, Zenon DEF DeviceFlags, FallAsleep, EnterSleep, main, lte
  <2>3. CASE WakeUp \/ CellMeasured
    BY <2>3, Zenon DEF DeviceFlags, WakeUp, CellMeasured, main, lte, power
  <2>4. ASSUME NEW value \in {"minus1", "granted"}, PsmUpdate(value)
        PROVE  DeviceFlags'
    BY <2>4, Zenon DEF DeviceFlags, PsmUpdate, main, lte
  <2> QED
    BY <1>3, <2>1, <2>2, <2>3, <2>4, Zenon DEF Modem
<1>4. CASE \/ FgThread /\ UNCHANGED <<main, lte, power, cell>>
           \/ CellThread /\ UNCHANGED <<main, lte, power, fuel>>
           \/ UNCHANGED vars
  BY <1>4, Zenon DEF DeviceFlags, vars, main, lte, power
<1> QED
  BY <1>1, <1>2, <1>3, <1>4, Zenon DEF Next

(* The rest of the types holds at reset. *)
LEMMA PlacesInit == Init => Places
BY DEF Init, Places, Steps, Early, CanFail

(* Every step leaves boot at a step of its own and each semaphore with at  *)
(* most one token.                                                         *)
LEMMA PlacesStep == Places /\ [Next]_vars => Places'
<1> SUFFICES ASSUME Places, [Next]_vars PROVE Places'
  OBVIOUS
<1> USE DEF Places, Steps, Early, CanFail
<1>1. CASE Boot
  <2>1. ASSUME NEW step \in CanFail, Fail(step) PROVE Places'
    BY <2>1 DEF Fail, lte, power
  <2>2. CASE BatteryInit \/ RetryInit \/ LteConnect \/ LteReady
    BY <2>2 DEF BatteryInit, RetryInit, LteConnect, LteReady, Goto, lte, power
  <2>3. CASE PowerInit \/ PsmDecided \/ PsmTimeout \/ Spawn
    BY <2>3 DEF PowerInit, PsmDecided, PsmTimeout, Spawn, Goto, lte, power
  <2>4. CASE \/ ModemLibInit \/ ReadImei \/ CheckCredentials \/ NtpWait
             \/ ConfigFetch \/ TransportInit
    BY <2>4 DEF ModemLibInit, ReadImei, CheckCredentials, NtpWait,
       ConfigFetch, TransportInit, Goto, lte, power
  <2> QED
    BY <1>1, <2>1, <2>2, <2>3, <2>4 DEF Boot
<1>2. CASE WdtFires
  BY <1>2 DEF WdtFires
<1>3. CASE Modem
  <2>1. CASE Register \/ Drop \/ WakeUp \/ CellMeasured
    BY <2>1 DEF Register, Drop, WakeUp, CellMeasured, main, lte, power
  <2>2. CASE FallAsleep \/ EnterSleep
    BY <2>2 DEF FallAsleep, EnterSleep, main, lte
  <2>3. ASSUME NEW value \in {"minus1", "granted"}, PsmUpdate(value)
        PROVE  Places'
    BY <2>3 DEF PsmUpdate, main, lte
  <2> QED
    BY <1>3, <2>1, <2>2, <2>3 DEF Modem
<1>4. CASE \/ FgThread /\ UNCHANGED <<main, lte, power, cell>>
           \/ CellThread /\ UNCHANGED <<main, lte, power, fuel>>
           \/ UNCHANGED vars
  BY <1>4 DEF vars, main, lte, power
<1> QED
  BY <1>1, <1>2, <1>3, <1>4 DEF Next

-----------------------------------------------------------------------------
(* The fuel gauge *)

(* What a step does to the fuel gauge: nothing, a reset, its start, one of *)
(* the two calls of the power manager, or a step of the sampling thread.   *)
LEMMA FuelMoves ==
  [Next]_vars =>
    \/ UNCHANGED fuel
    \/ FuelReset \/ FuelStart \/ IdleSet \/ SleepExit \/ FgThread
<1> SUFFICES ASSUME [Next]_vars
             PROVE  \/ UNCHANGED fuel
                    \/ FuelReset \/ FuelStart \/ IdleSet \/ SleepExit
                    \/ FgThread
  OBVIOUS
<1>1. CASE Boot
  BY <1>1, Zenon DEF Boot, ModemLibInit, BatteryInit, ReadImei,
     CheckCredentials, RetryInit, LteConnect, LteReady, NtpWait, ConfigFetch,
     TransportInit, PowerInit, PsmDecided, PsmTimeout, Spawn, Fail
<1>2. CASE WdtFires
  BY <1>2 DEF WdtFires
<1>3. CASE Modem
  BY <1>3, Zenon DEF Modem, Register, Drop, PsmUpdate, FallAsleep, EnterSleep,
     WakeUp, CellMeasured
<1>4. CASE CellThread /\ UNCHANGED <<main, lte, power, fuel>>
  BY <1>4
<1>5. CASE UNCHANGED vars
  BY <1>5 DEF vars
<1> QED
  BY <1>1, <1>2, <1>3, <1>4, <1>5 DEF Next

(* At reset no sleep has been seen. *)
LEMMA StraysInit == Init => GaugeFlags /\ Gauge /\ StraysCounted
<1>1. Init => GaugeFlags
  BY Zenon DEF Init, FuelOff, GaugeFlags
<1>2. Init => Gauge /\ StraysCounted
  BY DEF Init, FuelOff, Gauge, StraysCounted, Pending
<1> QED
  BY <1>1, <1>2

(* Every step leaves the two flags of the fuel gauge Booleans. *)
LEMMA GaugeFlagsStep == GaugeFlags /\ [Next]_vars => GaugeFlags'
BY FuelMoves, Zenon DEF GaugeFlags, fuel, FuelReset, FuelStart, IdleSet,
   SleepExit, FgThread, FgWake, FgResume, FgSkip, FgProcess

(* A token is given only at the end of a sleep, and within one each call   *)
(* of process uses up a sample that was under way or a token.              *)
LEMMA StraysStep ==
  GaugeFlags /\ Gauge /\ StraysCounted /\ [Next]_vars
    => (Gauge /\ StraysCounted)'
<1> SUFFICES ASSUME GaugeFlags, Gauge, StraysCounted, [Next]_vars
             PROVE  (Gauge /\ StraysCounted)'
  OBVIOUS
<1> USE DEF Gauge, StraysCounted, Pending
<1>1. CASE UNCHANGED fuel
  BY <1>1 DEF fuel
<1>2. CASE FuelReset \/ FuelStart
  BY <1>2 DEF FuelReset, FuelStart
<1>3. CASE IdleSet
  BY <1>3 DEF IdleSet
<1>4. CASE SleepExit
  BY <1>4 DEF SleepExit, fuel
<1>5. CASE FgThread
  <2>1. CASE FgWake
    BY <2>1 DEF FgWake
  <2>2. CASE FgResume
    BY <2>2 DEF FgResume
  <2>3. CASE FgSkip
    BY <2>3 DEF FgSkip
  <2>4. CASE FgProcess
    BY <2>4 DEF FgProcess
  <2> QED
    BY <1>5, <2>1, <2>2, <2>3, <2>4 DEF FgThread
<1> QED
  BY <1>1, <1>2, <1>3, <1>4, <1>5, FuelMoves

(* No more than two samples get into one sleep of the modem, whatever the  *)
(* sleeps before it left behind.                                           *)
THEOREM StraysAreTwo == Spec => []StrayBounded
<1>1. Init => GaugeFlags /\ Gauge /\ StraysCounted
  BY StraysInit
<1>2. /\ GaugeFlags /\ Gauge /\ StraysCounted
      /\ [Next]_vars
      => (GaugeFlags /\ Gauge /\ StraysCounted)'
  BY GaugeFlagsStep, StraysStep
<1>3. StraysCounted => StrayBounded
  BY DEF StraysCounted, StrayBounded
<1> QED
  BY <1>1, <1>2, <1>3, PTL DEF Spec

-----------------------------------------------------------------------------
(* The cell location *)

(* What a step does to the cell location: nothing, its start, a result, or *)
(* a step of main or of the work queue.                                    *)
LEMMA CellMoves ==
  [Next]_vars =>
    \/ UNCHANGED cell
    \/ CellStart \/ CellThread
    \/ \E valid \in BOOLEAN : Measured(valid)
<1> SUFFICES ASSUME [Next]_vars
             PROVE  \/ UNCHANGED cell
                    \/ CellStart \/ CellThread
                    \/ \E valid \in BOOLEAN : Measured(valid)
  OBVIOUS
<1>1. CASE Boot
  BY <1>1, Zenon DEF Boot, ModemLibInit, BatteryInit, ReadImei,
     CheckCredentials, RetryInit, LteConnect, LteReady, NtpWait, ConfigFetch,
     TransportInit, PowerInit, PsmDecided, PsmTimeout, Spawn, Fail
<1>2. CASE WdtFires
  BY <1>2 DEF WdtFires
<1>3. CASE Modem
  BY <1>3, Zenon DEF Modem, Register, Drop, PsmUpdate, FallAsleep, EnterSleep,
     WakeUp, CellMeasured
<1>4. CASE FgThread /\ UNCHANGED <<main, lte, power, cell>>
  BY <1>4
<1>5. CASE UNCHANGED vars
  BY <1>5 DEF vars
<1> QED
  BY <1>1, <1>2, <1>3, <1>4, <1>5 DEF Next

(* At reset main is in its loop and nothing is asked of the modem. *)
LEMMA AskingInit == Init => CellFlags /\ Asking
<1>1. Init => CellFlags
  BY Zenon DEF Init, CellOff, CellFlags
<1>2. Init => Asking
  BY IntervalAssumption DEF Init, CellOff, Asking
<1> QED
  BY <1>1, <1>2

(* Every step leaves every flag of the cell location a Boolean. *)
LEMMA CellFlagsStep == CellFlags /\ [Next]_vars => CellFlags'
BY CellMoves, Zenon DEF CellFlags, cell, CellStart, Measured, CellThread,
   Advance, RequestFails, RequestAccepted, SetActive, PublishWork

(* Main and the event handler may overlap at any point between the request *)
(* and the flag.                                                           *)
LEMMA AskingStep == CellFlags /\ Asking /\ [Next]_vars => Asking'
<1> SUFFICES ASSUME CellFlags, Asking, [Next]_vars PROVE Asking'
  OBVIOUS
<1> USE IntervalAssumption, AdvanceAssumption DEF Asking
<1>0. /\ early \in BOOLEAN /\ measuring \in BOOLEAN
      /\ g_measurement_active \in BOOLEAN
  BY Zenon DEF CellFlags
<1>1. CASE UNCHANGED cell
  BY <1>1 DEF cell
<1>2. CASE CellStart
  BY <1>2 DEF CellStart
<1>3. ASSUME NEW valid \in BOOLEAN, Measured(valid) PROVE Asking'
  BY <1>0, <1>3 DEF Measured
<1>4. CASE CellThread
  <2>1. ASSUME NEW s \in Advances, Advance(s) PROVE Asking'
    BY <1>0, <2>1 DEF Advance
  <2>2. CASE RequestFails
    BY <1>0, <2>2 DEF RequestFails
  <2>3. CASE RequestAccepted
    BY <1>0, <2>3 DEF RequestAccepted
  <2>4. CASE SetActive
    BY <1>0, <2>4 DEF SetActive
  <2>5. CASE PublishWork
    BY <2>5 DEF PublishWork
  <2> QED
    BY <1>4, <2>1, <2>2, <2>3, <2>4, <2>5 DEF CellThread
<1> QED
  BY <1>1, <1>2, <1>3, <1>4, CellMoves

(* While main is in its loop the flag of the cell location says whether    *)
(* the modem measures, unless a result has come before main set it: for    *)
(* every interval and every step of the countdown.                         *)
THEOREM FlagAgrees == Spec => []Consistent
<1> DEFINE IInv == /\ DeviceFlags /\ GaugeFlags /\ CellFlags /\ Places
                   /\ Gauge /\ StraysCounted /\ Asking
<1>1. Init => IInv
  BY DeviceFlagsInit, PlacesInit, StraysInit, AskingInit
<1>2. IInv /\ [Next]_vars => IInv'
  BY DeviceFlagsStep, PlacesStep, GaugeFlagsStep, StraysStep, CellFlagsStep,
     AskingStep
<1>3. IInv => Consistent
  <2> SUFFICES ASSUME IInv PROVE Consistent
    OBVIOUS
  <2>1. /\ {wdt, wdt_dev, registered, asleep, grant, lte_handler,
            power_handler, g_psm_decision_received} \subseteq BOOLEAN
        /\ {g_ready, g_sleeping} \subseteq BOOLEAN
        /\ {cell_ready, g_measurement_active, measuring, g_publish_work,
            early} \subseteq BOOLEAN
    BY ZenonT(60) DEF DeviceFlags, GaugeFlags, CellFlags
  <2>2. TypeOK
    BY <2>1, Zenon DEF TypeOK, Places, Gauge, Asking
  <2>3. FlagIsTheModems
    BY Zenon DEF FlagIsTheModems, Asking, CellFlags
  <2> QED
    BY <2>2, <2>3 DEF Consistent
<1> HIDE DEF IInv
<1> QED
  BY <1>1, <1>2, <1>3, PTL DEF Spec

-----------------------------------------------------------------------------
(* Firmware updates: the inductive invariant *)

(* The types, in three parts: the flags, the images and jobs, the rest.    *)
FotaFlags ==
  /\ confirmed \in BOOLEAN /\ marked \in BOOLEAN
  /\ g_device_id \in BOOLEAN /\ g_fota_active \in BOOLEAN
  /\ bypassed \in BOOLEAN /\ crossed \in BOOLEAN

FotaData ==
  /\ running \in Versions /\ slot \in Versions \cup {NoVersion}
  /\ pending \in [job : Jobs \cup {NoJob}, version : Versions \cup {NoVersion}]
  /\ installed \in Versions \cup {NoVersion}
  /\ g_current_job_id \in Jobs \cup {NoJob} /\ url \in Jobs \cup {NoJob}
  /\ g_target_version \in Versions \cup {NoVersion}
  /\ image \in Versions \cup {NoVersion}
  /\ succeeded \subseteq Jobs /\ failed \subseteq Jobs
  /\ undone \subseteq Versions

FotaPlaces ==
  /\ pc \in {"off", "init", "record", "offline", "check", "clear",
             "clear_failed", "online"}
  /\ dl \in {"idle", "downloading", "marked", "saved", "failing"}
  /\ at \in [Threads -> {"idle", "let_in", "starting"}]
  /\ doc \in [Threads -> Jobs \cup {NoJob}]
  /\ sends \in 0 .. MaxSends /\ resets \in 0 .. MaxResets
  /\ faults \in 0 .. MaxFaults

NoneBusy == \A t \in Threads : at[t] = "idle"

(* What holds however the steps cross: nothing goes on during a boot, an   *)
(* image is marked only between the downloader and the next boot, and what *)
(* is at work or in flash is of some job.                                  *)
Whole ==
  /\ pc \in {"off", "init", "record"}
       => NoneBusy /\ dl = "idle" /\ ~ g_fota_active
  /\ \A t \in Threads : /\ at[t] = "let_in" => doc[t] \in Jobs
                        /\ at[t] = "starting" => url \in Jobs
  /\ dl \in {"downloading", "marked", "saved"} => image \in Versions
  /\ dl \in {"marked", "saved"} => marked /\ slot = image
  /\ marked => pc = "off" \/ dl \in {"marked", "saved"}
  /\ marked \/ ~ confirmed => slot \in Versions
  /\ pending # NoRecord => pending.job \in Jobs

(* Once init has got through, NVS has the version of confirmed firmware.   *)
VersionKnown ==
  confirmed => pc \in {"off", "init", "record"} \/ installed = running

(* As long as nothing has crossed, one handler or the downloader is at     *)
(* work, and a handler that was let in is alone with an idle module.       *)
Alone ==
  /\ \A t, u \in Threads : at[t] # "idle" /\ at[u] # "idle" => t = u
  /\ (\E t \in Threads : at[t] = "let_in")
       => ~ g_fota_active /\ dl = "idle" /\ pc \in {"offline", "check", "online"}
  /\ (\E t \in Threads : at[t] = "starting") => g_fota_active /\ dl = "idle"
  /\ dl \in {"downloading", "marked", "saved"} => g_fota_active /\ NoneBusy
  /\ dl = "failing" => ~ g_fota_active /\ NoneBusy
  /\ pc \in {"clear", "clear_failed"}
       => ~ g_fota_active /\ NoneBusy /\ dl = "idle"

(* The job of the update under way is the one whose image is downloaded,   *)
(* and it is for another version than the one installed.                   *)
OfOneJob ==
  /\ g_fota_active => /\ url = g_current_job_id
                      /\ g_target_version = Named(g_current_job_id)
  /\ g_fota_active \/ dl = "failing" => /\ g_current_job_id \in Jobs
                                        /\ ~ AlreadyThere(g_current_job_id)
  /\ dl \in {"downloading", "marked", "saved"}
       => image = Version[g_current_job_id]

(* The record names the version that the document of its job names.        *)
RecordOfJob == pending # NoRecord => pending.version = Named(pending.job)

(* A device that has its id keeps the record of the job for which it       *)
(* resets.                                                                 *)
Kept == dl = "saved" /\ g_device_id => pending.job = g_current_job_id

(* What becomes of the image after its record was written: it waits for    *)
(* the swap, it was swapped in and waits to be confirmed, it is confirmed, *)
(* or MCUboot has undone it.                                               *)
Settling(version) ==
  \/ pc = "off" /\ marked /\ slot = version
  \/ ~ marked /\ running = version /\ (confirmed \/ pc \in {"off", "init"})
  \/ version \in undone

(* No update is under way or let in, and the check is still to come.       *)
Unasked ==
  /\ ~ g_fota_active /\ \A t \in Threads : at[t] # "let_in"
  /\ pc = "online" => bypassed

(* As long as nothing has failed, a record is written for the job under    *)
(* way only, it is gone before the next job is let in, and in between its  *)
(* update goes on to its end.                                              *)
RecordSettles ==
  faults = 0 /\ pending # NoRecord =>
    IF dl = "saved" THEN pending.job = g_current_job_id
                    ELSE Unasked /\ Settling(Version[pending.job])

(* Between its report and its deletion a record is of a job that was       *)
(* reported.                                                               *)
Told ==
  /\ pc = "clear" => pending.job \in succeeded
  /\ faults = 0 /\ pc = "clear_failed" => pending.job \in failed

(* What holds always, and what holds until something crosses.              *)
Sound   == FotaFlags /\ FotaData /\ FotaPlaces /\ Whole /\ VersionKnown
Orderly == Alone /\ OfOneJob /\ RecordOfJob /\ Kept /\ RecordSettles /\ Told

FotaInv == Sound /\ (~ crossed => Orderly)

-----------------------------------------------------------------------------
(* Every job has a version, which no other job need share. *)
LEMMA JobVersions ==
  /\ Versions \subseteq Nat \ {0} /\ Factory \in Versions
  /\ NoJob \notin Jobs /\ NoVersion \notin Versions
  /\ \A j \in Jobs : /\ Version[j] \in Versions
                     /\ Named(j) = IF j \in Unnamed THEN NoVersion
                                                    ELSE Version[j]
BY FotaJobs DEF Versions, NoJob, NoVersion, Named

(* A report adds its job to those reported, or nothing to them. *)
LEMMA ReportMoves ==
  ASSUME NEW j \in Jobs \cup {NoJob}, NEW ok \in BOOLEAN, FotaPlaces,
         Report(j, ok)
  PROVE  /\ succeeded' \in {succeeded, succeeded \cup {j}}
         /\ failed' \in {failed, failed \cup {j}}
         /\ j = NoJob => failed' = failed
         /\ ok => failed' = failed
         /\ ~ ok => succeeded' = succeeded
         /\ faults' \in 0 .. MaxFaults /\ (faults' = 0 => faults = 0)
<1>1. CASE g_device_id /\ j # NoJob
  <2>1. \/ /\ IF ok THEN succeeded' = succeeded \cup {j} /\ UNCHANGED failed
                  ELSE failed' = failed \cup {j} /\ UNCHANGED succeeded
           /\ UNCHANGED faults
        \/ Fault /\ UNCHANGED reports
    BY <1>1, Zenon DEF Report
  <2> QED
    BY <1>1, <2>1, FotaBounds, JobVersions DEF Fault, FotaPlaces, reports
<1>2. CASE ~ (g_device_id /\ j # NoJob)
  <2>1. UNCHANGED <<faults, reports>>
    BY <1>2, Zenon DEF Report
  <2> QED
    BY <2>1 DEF FotaPlaces, reports
<1> QED
  BY <1>1, <1>2

(* The invariants hold at first. *)
LEMMA FotaInitially == FotaInit => FotaInv
<1> SUFFICES ASSUME FotaInit PROVE FotaInv
  OBVIOUS
<1>1. FotaFlags
  BY Zenon DEF FotaInit, FotaFlags
<1>2. FotaData
  BY JobVersions DEF FotaInit, FotaData, NoRecord
<1>3. FotaPlaces /\ NoneBusy
  BY FotaBounds DEF FotaInit, FotaPlaces, NoneBusy
<1>4. Whole /\ VersionKnown
  BY <1>3 DEF FotaInit, Whole, VersionKnown, NoneBusy
<1>5. Alone /\ OfOneJob
  BY <1>3 DEF FotaInit, Alone, OfOneJob, NoneBusy
<1>6. RecordOfJob /\ Kept /\ RecordSettles /\ Told
  BY DEF FotaInit, RecordOfJob, Kept, RecordSettles, Told
<1> QED
  BY <1>1, <1>2, <1>3, <1>4, <1>5, <1>6 DEF FotaInv, Sound, Orderly

(* Every step leaves every flag a Boolean. *)
LEMMA FotaFlagsStep == FotaFlags /\ [FotaNext]_fota_vars => FotaFlags'
<1> SUFFICES ASSUME FotaFlags, [FotaNext]_fota_vars PROVE FotaFlags'
  OBVIOUS
<1> USE DEF FotaFlags, slots, ram, history
<1>1. CASE Reset \/ Downloader
  BY <1>1, Zenon DEF Reset, Downloader, Handler, SaveRecord, Reboot,
     ReportFailure, PowerDown, Mark, DownloadFails, DownloadCancelled
<1>2. CASE McuBoot \/ EndInit
  BY <1>2, Zenon DEF McuBoot, BootPlain, BootSwap, BootRefuse, BootRevert,
     EndInit, Confirm, ConfirmFails, RecordVersion
<1>3. CASE Connect \/ AppConnect \/ Disconnect
  BY <1>3, Zenon DEF Connect, AppConnect, Disconnect, Sessions
<1>4. CASE Check
  BY <1>4, Zenon DEF Check, CheckNothing, Sessions, CheckRollback, ClearFailed,
     CheckSucceeded, CheckUnsent, ClearSucceeded, CheckMeetsOthers
<1>5. CASE \E t \in Threads : Command(t)
  BY <1>5, Zenon DEF Command, Ignore, LetIn, CommandMeetsOthers, Skip, Start,
     Download, StartFails
<1>6. CASE UNCHANGED fota_vars
  BY <1>6, Zenon DEF fota_vars
<1> QED
  BY <1>1, <1>2, <1>3, <1>4, <1>5, <1>6, Zenon DEF FotaNext

(* Every step keeps images, jobs and versions what they are. *)
LEMMA FotaDataStep ==
  FotaData /\ FotaPlaces /\ Whole /\ [FotaNext]_fota_vars => FotaData'
<1> SUFFICES ASSUME FotaData, FotaPlaces, Whole, [FotaNext]_fota_vars
             PROVE  FotaData'
  OBVIOUS
<1> USE JobVersions DEF FotaData, slots, nvs, ram, reports, history, busy,
                        loader
<1>1. CASE Reset \/ Reboot
  BY <1>1 DEF Reset, Reboot, PowerDown
<1>2. CASE McuBoot
  BY <1>2 DEF Whole, McuBoot, BootPlain, BootSwap, BootRefuse, BootRevert
<1>3. CASE EndInit
  BY <1>3 DEF EndInit, Confirm, ConfirmFails, RecordVersion
<1>4. CASE Connect \/ AppConnect \/ Disconnect \/ CheckNothing
  BY <1>4 DEF Connect, AppConnect, Disconnect, CheckNothing, Sessions
<1>5. CASE CheckRollback \/ CheckSucceeded \/ CheckUnsent
  <2>1. pending.job \in Jobs
    BY <1>5 DEF CheckRollback, CheckSucceeded, CheckUnsent, CheckDue, Whole
  <2> QED
    BY <1>5, <2>1 DEF CheckRollback, CheckSucceeded, CheckUnsent
<1>6. CASE ClearFailed \/ ClearSucceeded
  <2>1. NoRecord \in [job : Jobs \cup {NoJob},
                      version : Versions \cup {NoVersion}]
    BY DEF NoRecord
  <2> QED
    BY <1>6, <2>1 DEF ClearFailed, ClearSucceeded
<1>7. ASSUME NEW t \in Threads, Command(t) PROVE FotaData'
  <2>1. CASE Ignore(t) \/ StartFails(t) \/ \E j \in Jobs : LetIn(t, j)
    BY <2>1 DEF Ignore, StartFails, LetIn
  <2>2. CASE Skip(t)
    <3>1. doc[t] \in Jobs /\ Report(doc[t], TRUE)
      BY <2>2 DEF Skip, Whole
    <3>2. /\ succeeded' \in {succeeded, succeeded \cup {doc[t]}}
          /\ failed' = failed
      BY <3>1, ReportMoves
    <3> QED
      BY <2>2, <3>1, <3>2 DEF Skip
  <2>3. CASE Start(t)
    BY <2>3 DEF Start, Whole
  <2>4. CASE Download(t)
    BY <2>4 DEF Download, Whole
  <2> QED
    BY <1>7, <2>1, <2>2, <2>3, <2>4 DEF Command
<1>8. CASE Mark \/ DownloadFails \/ DownloadCancelled
  BY <1>8 DEF Mark, DownloadFails, DownloadCancelled
<1>9. CASE SaveRecord
  <2>1. [job |-> g_current_job_id, version |-> g_target_version]
          \in [job : Jobs \cup {NoJob}, version : Versions \cup {NoVersion}]
    OBVIOUS
  <2> QED
    BY <1>9, <2>1 DEF SaveRecord
<1>10. CASE ReportFailure
  <2>1. /\ succeeded' = succeeded
        /\ failed' \in {failed, failed \cup {g_current_job_id}}
        /\ g_current_job_id = NoJob => failed' = failed
    BY <1>10, ReportMoves DEF ReportFailure
  <2> QED
    BY <1>10, <2>1 DEF ReportFailure
<1>11. CASE UNCHANGED fota_vars
  BY <1>11 DEF fota_vars
<1> QED
  BY <1>1, <1>2, <1>3, <1>4, <1>5, <1>6, <1>7, <1>8, <1>9, <1>10, <1>11
  DEF FotaNext, Check, Downloader, Handler

(* Every step keeps each thread at a step of its own, and what is bounded  *)
(* within its bound.                                                       *)
LEMMA FotaPlacesStep == FotaPlaces /\ [FotaNext]_fota_vars => FotaPlaces'
<1> SUFFICES ASSUME FotaPlaces, [FotaNext]_fota_vars PROVE FotaPlaces'
  OBVIOUS
<1> USE FotaBounds DEF FotaPlaces, counts, busy, loader, Fault
<1>1. CASE Reset \/ Reboot
  BY <1>1 DEF Reset, Reboot, PowerDown
<1>2. CASE McuBoot \/ EndInit
  BY <1>2 DEF McuBoot, BootPlain, BootSwap, BootRefuse, BootRevert,
     EndInit, Confirm, ConfirmFails, RecordVersion
<1>3. CASE Connect \/ AppConnect \/ Disconnect
  BY <1>3 DEF Connect, AppConnect, Disconnect, Sessions
<1>4. CASE Check
  BY <1>4 DEF Check, CheckNothing, Sessions, CheckRollback, ClearFailed,
     CheckSucceeded, CheckUnsent, ClearSucceeded
<1>5. ASSUME NEW t \in Threads, Command(t) PROVE FotaPlaces'
  <2>1. CASE Ignore(t)
    BY <2>1 DEF Ignore, Receive
  <2>2. ASSUME NEW j \in Jobs, LetIn(t, j) PROVE FotaPlaces'
    BY <2>2 DEF LetIn, Receive
  <2>3. CASE Skip(t)
    <3>1. faults' \in 0 .. MaxFaults
      BY <2>3 DEF Skip, Report
    <3> QED
      BY <2>3, <3>1 DEF Skip
  <2>4. CASE Start(t) \/ Download(t) \/ StartFails(t)
    BY <2>4 DEF Start, Download, StartFails
  <2> QED
    BY <1>5, <2>1, <2>2, <2>3, <2>4 DEF Command
<1>6. CASE Mark \/ SaveRecord \/ DownloadFails \/ DownloadCancelled
  BY <1>6 DEF Mark, SaveRecord, DownloadFails, DownloadCancelled
<1>7. CASE ReportFailure
  <2>1. faults' \in 0 .. MaxFaults
    BY <1>7 DEF ReportFailure, Report
  <2> QED
    BY <1>7, <2>1 DEF ReportFailure
<1>8. CASE UNCHANGED fota_vars
  BY <1>8 DEF fota_vars
<1> QED
  BY <1>1, <1>2, <1>3, <1>4, <1>5, <1>6, <1>7, <1>8
  DEF FotaNext, Downloader, Handler

(* However the steps cross, an image stays marked only for the next boot,  *)
(* and handlers, downloader and record stay with some job.                 *)
LEMMA WholeStep ==
  /\ FotaData /\ FotaPlaces /\ Whole /\ [FotaNext]_fota_vars
  => Whole'
<1> SUFFICES ASSUME FotaData, FotaPlaces, Whole, [FotaNext]_fota_vars
             PROVE  Whole'
  OBVIOUS
<1>0. running \in Versions /\ \A j \in Jobs : Version[j] \in Versions
  BY JobVersions DEF FotaData
<1> USE DEF Whole, NoneBusy, slots, nvs, ram, busy, loader
<1>1. CASE Reset \/ Reboot
  BY <1>1 DEF Reset, Reboot, PowerDown
<1>2. CASE McuBoot
  BY <1>0, <1>2 DEF McuBoot, BootPlain, BootSwap, BootRefuse, BootRevert
<1>3. CASE EndInit
  BY <1>3 DEF EndInit, Confirm, ConfirmFails, RecordVersion
<1>4. CASE Connect \/ AppConnect \/ Disconnect \/ CheckNothing
  BY <1>4 DEF Connect, AppConnect, Disconnect, CheckNothing, Sessions
<1>5. CASE CheckRollback \/ CheckSucceeded \/ CheckUnsent
  BY <1>5 DEF CheckRollback, CheckSucceeded, CheckUnsent, CheckDue
<1>6. CASE ClearFailed \/ ClearSucceeded
  BY <1>6 DEF ClearFailed, ClearSucceeded
<1>7. ASSUME NEW t \in Threads, Command(t) PROVE Whole'
  <2>1. CASE Ignore(t)
    BY <2>1 DEF Ignore
  <2>2. ASSUME NEW j \in Jobs, LetIn(t, j) PROVE Whole'
    BY <2>2 DEF LetIn, Receive, Polls, FotaPlaces
  <2>3. CASE Skip(t)
    BY <2>3 DEF Skip, FotaPlaces
  <2>4. CASE Start(t)
    BY <2>4 DEF Start, FotaPlaces
  <2>5. CASE Download(t) \/ StartFails(t)
    BY <1>0, <2>5 DEF Download, StartFails, FotaPlaces
  <2> QED
    BY <1>7, <2>1, <2>2, <2>3, <2>4, <2>5 DEF Command
<1>8. CASE SaveRecord
  <2>1. pending' # pending => pending'.job = g_current_job_id
                              /\ g_current_job_id \in Jobs
    BY <1>8 DEF SaveRecord, FotaData
  <2> QED
    BY <1>8, <2>1 DEF SaveRecord
<1>9. CASE Mark
  BY <1>9 DEF Mark
<1>10. CASE DownloadFails \/ DownloadCancelled \/ ReportFailure
  <2>1. /\ dl \in {"downloading", "failing"} /\ dl' \in {"idle", "failing"}
        /\ UNCHANGED <<slots, nvs, busy, pc>>
    BY <1>10 DEF DownloadFails, DownloadCancelled, ReportFailure
  <2> QED
    BY <2>1
<1>11. CASE UNCHANGED fota_vars
  BY <1>11 DEF fota_vars
<1> QED
  BY <1>1, <1>2, <1>3, <1>4, <1>5, <1>6, <1>7, <1>8, <1>9, <1>10, <1>11
  DEF FotaNext, Check, Downloader, Handler

(* The version installed is the one that runs. *)
LEMMA VersionStep ==
  VersionKnown /\ [FotaNext]_fota_vars => VersionKnown'
<1> SUFFICES ASSUME VersionKnown, [FotaNext]_fota_vars PROVE VersionKnown'
  OBVIOUS
<1> USE DEF VersionKnown, slots, nvs
<1>1. CASE Reset \/ Downloader
  BY <1>1 DEF Reset, Downloader, Handler, SaveRecord, Reboot, ReportFailure,
     PowerDown, Mark, DownloadFails, DownloadCancelled
<1>2. CASE McuBoot \/ EndInit
  BY <1>2 DEF McuBoot, BootPlain, BootSwap, BootRefuse, BootRevert,
     EndInit, Confirm, ConfirmFails, RecordVersion
<1>3. CASE Connect \/ AppConnect \/ Disconnect \/ CheckNothing
  BY <1>3 DEF Connect, AppConnect, Disconnect, CheckNothing, Sessions
<1>4. CASE \/ CheckRollback \/ ClearFailed \/ CheckSucceeded \/ CheckUnsent
           \/ ClearSucceeded
  BY <1>4 DEF CheckRollback, ClearFailed, CheckSucceeded, CheckUnsent,
     ClearSucceeded, CheckDue
<1>5. CASE \E t \in Threads : Command(t)
  BY <1>5 DEF Command, Ignore, LetIn, Skip, Start, Download, StartFails
<1>6. CASE UNCHANGED fota_vars
  BY <1>6 DEF fota_vars
<1> QED
  BY <1>1, <1>2, <1>3, <1>4, <1>5, <1>6 DEF FotaNext, Check

(* What holds however the steps cross holds always. *)
LEMMA SoundAlways == FotaSpec => []Sound
<1>1. FotaInit => Sound
  BY FotaInitially DEF FotaInv
<1>2. Sound /\ [FotaNext]_fota_vars => Sound'
  BY FotaFlagsStep, FotaDataStep, FotaPlacesStep, WholeStep, VersionStep
  DEF Sound
<1> QED
  BY <1>1, <1>2, PTL DEF FotaSpec

-----------------------------------------------------------------------------
(* Until something crosses *)

(* What has crossed has crossed for good. *)
LEMMA CrossedStays == [FotaNext]_fota_vars /\ ~ crossed' => ~ crossed
<1> SUFFICES ASSUME [FotaNext]_fota_vars, ~ crossed' PROVE ~ crossed
  OBVIOUS
<1> USE DEF history
<1>1. CASE Reset \/ Downloader
  BY <1>1, Zenon DEF Reset, Downloader, Handler, SaveRecord, Reboot,
     ReportFailure, Mark, DownloadFails, DownloadCancelled
<1>2. CASE McuBoot \/ EndInit
  BY <1>2, Zenon DEF McuBoot, BootPlain, BootSwap, BootRefuse, BootRevert,
     EndInit, Confirm, ConfirmFails, RecordVersion
<1>3. CASE Connect \/ AppConnect \/ Disconnect
  BY <1>3, Zenon DEF Connect, AppConnect, Disconnect, Sessions
<1>4. CASE Check
  BY <1>4, Zenon DEF Check, CheckNothing, Sessions, CheckRollback, ClearFailed,
     CheckSucceeded, CheckUnsent, ClearSucceeded, CheckMeetsOthers
<1>5. CASE \E t \in Threads : Command(t)
  BY <1>5, Zenon DEF Command, Ignore, LetIn, CommandMeetsOthers, Skip, Start,
     Download, StartFails
<1>6. CASE UNCHANGED fota_vars
  BY <1>6, Zenon DEF fota_vars
<1> QED
  BY <1>1, <1>2, <1>3, <1>4, <1>5, <1>6, Zenon DEF FotaNext

(* What has failed stays failed. *)
LEMMA FaultsStay ==
  FotaPlaces /\ [FotaNext]_fota_vars /\ faults' = 0 => faults = 0
<1> SUFFICES ASSUME FotaPlaces, [FotaNext]_fota_vars, faults' = 0
             PROVE  faults = 0
  OBVIOUS
<1>0. faults \in Nat
  BY FotaBounds DEF FotaPlaces
<1> USE DEF counts
<1>1. CASE Fault \/ UNCHANGED faults
  BY <1>0, <1>1 DEF Fault
<1>2. CASE Reset \/ Downloader
  BY <1>1, <1>2, Zenon DEF Reset, Downloader, Handler, SaveRecord, Reboot,
     ReportFailure, Report, Mark, DownloadFails, DownloadCancelled
<1>3. CASE McuBoot \/ EndInit
  BY <1>1, <1>3, Zenon DEF McuBoot, BootPlain, BootSwap, BootRefuse,
     BootRevert, EndInit, Confirm, ConfirmFails, RecordVersion
<1>4. CASE Connect \/ AppConnect \/ Disconnect
  BY <1>1, <1>4, Zenon DEF Connect, AppConnect, Disconnect, Sessions
<1>5. CASE Check
  BY <1>1, <1>5, Zenon DEF Check, CheckNothing, Sessions, CheckRollback,
     ClearFailed, CheckSucceeded, CheckUnsent, ClearSucceeded
<1>6. CASE \E t \in Threads : Command(t)
  BY <1>1, <1>6, Zenon DEF Command, Ignore, LetIn, Skip, Report, Start,
     Download, StartFails
<1>7. CASE UNCHANGED fota_vars
  BY <1>1, <1>7, Zenon DEF fota_vars
<1> QED
  BY <1>2, <1>3, <1>4, <1>5, <1>6, <1>7, Zenon DEF FotaNext

(* What a step does to the record: nothing, the handler of the downloader  *)
(* writes it, or the check, which has reported it, deletes it.             *)
LEMMA RecordMoves ==
  [FotaNext]_fota_vars =>
    \/ UNCHANGED pending
    \/ SaveRecord
    \/ (ClearFailed \/ ClearSucceeded) /\ pending' = NoRecord
<1> SUFFICES ASSUME [FotaNext]_fota_vars
             PROVE  \/ UNCHANGED pending
                    \/ SaveRecord
                    \/ /\ ClearFailed \/ ClearSucceeded
                       /\ pending' = NoRecord
  OBVIOUS
<1> USE DEF nvs
<1>1. CASE Reset \/ Downloader
  BY <1>1, Zenon DEF Reset, Downloader, Handler, Reboot, ReportFailure, Mark,
     DownloadFails, DownloadCancelled
<1>2. CASE McuBoot \/ EndInit
  BY <1>2, Zenon DEF McuBoot, BootPlain, BootSwap, BootRefuse, BootRevert,
     EndInit, Confirm, ConfirmFails, RecordVersion
<1>3. CASE Connect \/ AppConnect \/ Disconnect
  BY <1>3, Zenon DEF Connect, AppConnect, Disconnect, Sessions
<1>4. CASE Check
  BY <1>4, Zenon DEF Check, CheckNothing, Sessions, CheckRollback, ClearFailed,
     CheckSucceeded, CheckUnsent, ClearSucceeded
<1>5. CASE \E t \in Threads : Command(t)
  BY <1>5, Zenon DEF Command, Ignore, LetIn, Skip, Start, Download, StartFails
<1>6. CASE UNCHANGED fota_vars
  BY <1>6, Zenon DEF fota_vars
<1> QED
  BY <1>1, <1>2, <1>3, <1>4, <1>5, <1>6, Zenon DEF FotaNext

(* A command that crosses nothing is let in to an idle module, after the   *)
(* check of the record if there is one.                                    *)
LEMMA LetInAlone ==
  ASSUME FotaPlaces, Alone, NEW t \in Threads, NEW j \in Jobs, LetIn(t, j),
         ~ crossed'
  PROVE  /\ NoneBusy /\ dl = "idle" /\ ~ g_fota_active
         /\ pc \in {"check", "online"}
         /\ pending # NoRecord => pc = "online" /\ ~ bypassed
<1>1. /\ \A u \in Threads : at[u] # "let_in"
      /\ dl # "failing" /\ pc \notin {"clear", "clear_failed"}
      /\ pending # NoRecord => pc # "check" /\ ~ bypassed
  <2>1. ~ (\/ crossed
           \/ \E u \in Threads : at[u] = "let_in"
           \/ dl = "failing" \/ pc \in {"clear", "clear_failed"}
           \/ pending # NoRecord /\ (pc = "check" \/ bypassed))
    BY Zenon DEF LetIn, CommandMeetsOthers
  <2> QED
    BY <2>1, Zenon
<1>2. ~ g_fota_active /\ pc \in {"check", "clear", "clear_failed", "online"}
  BY DEF LetIn, Receive, Polls
<1>3. NoneBusy /\ dl = "idle"
  BY <1>1, <1>2 DEF Alone, NoneBusy, FotaPlaces
<1> QED
  BY <1>1, <1>2, <1>3

(* So does a check that crosses nothing find the module idle. *)
LEMMA CheckAlone ==
  ASSUME FotaPlaces, Alone, CheckRollback \/ CheckSucceeded \/ CheckUnsent,
         ~ crossed'
  PROVE  NoneBusy /\ dl = "idle" /\ ~ g_fota_active /\ pc = "check"
<1>1. dl # "failing" /\ \A t \in Threads : at[t] # "let_in"
  BY DEF CheckRollback, CheckSucceeded, CheckUnsent, CheckMeetsOthers
<1>2. ~ g_fota_active /\ pc = "check"
  BY DEF CheckRollback, CheckSucceeded, CheckUnsent, CheckDue
<1> QED
  BY <1>1, <1>2 DEF Alone, NoneBusy, FotaPlaces

(* A handler that is at work is the only one. *)
LEMMA HandlerAlone ==
  ASSUME FotaPlaces, Alone, NEW t \in Threads, at[t] # "idle"
  PROVE  /\ \A u \in Threads \ {t} : at[u] = "idle"
         /\ dl = "idle" /\ pc \notin {"clear", "clear_failed"}
         /\ at[t] = "let_in"
              => ~ g_fota_active /\ pc \in {"offline", "check", "online"}
         /\ at[t] = "starting" => g_fota_active
BY DEF FotaPlaces, Alone, NoneBusy

(* A step that crosses nothing leaves one handler or the downloader at     *)
(* work at most.                                                           *)
LEMMA AloneStep ==
  /\ FotaPlaces /\ Whole /\ Alone /\ [FotaNext]_fota_vars /\ ~ crossed'
  => Alone'
<1> SUFFICES ASSUME FotaPlaces, Whole, Alone, [FotaNext]_fota_vars, ~ crossed'
             PROVE  Alone'
  OBVIOUS
<1> USE DEF NoneBusy, ram, busy, loader
<1>1. CASE Reset \/ Reboot
  BY <1>1 DEF Alone, Reset, Reboot, PowerDown
<1>2. CASE McuBoot \/ EndInit
  <2>1. /\ NoneBusy /\ dl = "idle" /\ ~ g_fota_active
        /\ UNCHANGED <<at, dl, g_fota_active>>
        /\ pc' \in {"init", "record", "offline"}
    BY <1>2 DEF McuBoot, BootPlain, BootSwap, BootRefuse, BootRevert,
       EndInit, Confirm, ConfirmFails, RecordVersion, Whole
  <2> QED
    BY <2>1 DEF Alone
<1>3. CASE Connect \/ AppConnect \/ Disconnect \/ CheckNothing
  <2>1. /\ UNCHANGED <<at, dl, g_fota_active>>
        /\ pc' \in {"offline", "check", "online"}
    BY <1>3 DEF Connect, AppConnect, Disconnect, CheckNothing, Sessions
  <2> QED
    BY <2>1 DEF Alone
<1>4. CASE CheckRollback \/ CheckSucceeded \/ CheckUnsent
  <2>1. NoneBusy /\ dl = "idle" /\ ~ g_fota_active
    BY <1>4, CheckAlone
  <2>2. UNCHANGED <<at, dl, g_fota_active>>
    BY <1>4 DEF CheckRollback, CheckSucceeded, CheckUnsent
  <2> QED
    BY <2>1, <2>2 DEF Alone
<1>5. CASE ClearFailed \/ ClearSucceeded
  <2>1. NoneBusy /\ dl = "idle" /\ ~ g_fota_active
    BY <1>5 DEF ClearFailed, ClearSucceeded, Alone
  <2>2. UNCHANGED <<at, dl, g_fota_active>>
    BY <1>5 DEF ClearFailed, ClearSucceeded
  <2> QED
    BY <2>1, <2>2 DEF Alone
<1>6. ASSUME NEW t \in Threads, Command(t) PROVE Alone'
  <2>1. CASE Ignore(t)
    BY <2>1 DEF Alone, Ignore
  <2>2. ASSUME NEW j \in Jobs, LetIn(t, j) PROVE Alone'
    <3>1. /\ NoneBusy /\ dl = "idle" /\ ~ g_fota_active
          /\ pc \in {"check", "online"}
      BY <2>2, LetInAlone
    <3>2. /\ at' = [at EXCEPT ![t] = "let_in"]
          /\ UNCHANGED <<dl, g_fota_active, pc>>
      BY <2>2 DEF LetIn
    <3> QED
      BY <3>1, <3>2 DEF Alone, FotaPlaces
  <2>3. ASSUME Skip(t) \/ Start(t) \/ Download(t) \/ StartFails(t)
        PROVE  Alone'
    <3>1. at[t] # "idle"
      BY <2>3 DEF Skip, Start, Download, StartFails
    <3>2. /\ \A u \in Threads \ {t} : at[u] = "idle"
          /\ dl = "idle" /\ pc \notin {"clear", "clear_failed"}
          /\ at[t] = "let_in"
               => ~ g_fota_active /\ pc \in {"offline", "check", "online"}
          /\ at[t] = "starting" => g_fota_active
      BY <3>1, HandlerAlone
    <3>3. CASE Skip(t) \/ StartFails(t)
      <4>1. at' = [at EXCEPT ![t] = "idle"] /\ UNCHANGED <<dl, pc>>
        BY <3>3 DEF Skip, StartFails
      <4>2. CASE Skip(t)
        BY <3>2, <4>1, <4>2 DEF Alone, FotaPlaces, Skip
      <4>3. CASE StartFails(t)
        BY <3>2, <4>1, <4>3 DEF Alone, FotaPlaces, StartFails
      <4> QED
        BY <3>3, <4>2, <4>3
    <3>4. CASE Start(t)
      <4>1. /\ at' = [at EXCEPT ![t] = "starting"] /\ UNCHANGED <<dl, pc>>
            /\ g_fota_active'
        BY <3>4 DEF Start
      <4> QED
        BY <3>2, <4>1 DEF Alone, FotaPlaces
    <3>5. CASE Download(t)
      <4>1. /\ at' = [at EXCEPT ![t] = "idle"] /\ dl' = "downloading"
            /\ g_fota_active' /\ UNCHANGED pc
        BY <3>2, <3>5 DEF Download
      <4> QED
        BY <3>2, <4>1 DEF Alone, FotaPlaces
    <3> QED
      BY <2>3, <3>3, <3>4, <3>5
  <2> QED
    BY <1>6, <2>1, <2>2, <2>3 DEF Command
<1>7. CASE Mark \/ SaveRecord
  <2>1. /\ dl \in {"downloading", "marked"} /\ dl' \in {"marked", "saved"}
        /\ UNCHANGED <<at, g_fota_active, pc>>
    BY <1>7 DEF Mark, SaveRecord
  <2> QED
    BY <2>1 DEF Alone
<1>8. CASE DownloadFails \/ DownloadCancelled \/ ReportFailure
  <2>1. /\ dl \in {"downloading", "failing"} /\ dl' \in {"idle", "failing"}
        /\ UNCHANGED <<at, pc>>
    BY <1>8 DEF DownloadFails, DownloadCancelled, ReportFailure
  <2>2. ~ g_fota_active'
    BY <1>8, Zenon DEF DownloadFails, DownloadCancelled, ReportFailure, Alone
  <2> QED
    BY <2>1, <2>2 DEF Alone
<1>9. CASE UNCHANGED fota_vars
  BY <1>9 DEF Alone, fota_vars
<1> QED
  BY <1>1, <1>2, <1>3, <1>4, <1>5, <1>6, <1>7, <1>8, <1>9
  DEF FotaNext, Check, Downloader, Handler

(* The job of the update under way, its version and its image stay         *)
(* together.                                                               *)
LEMMA OfOneJobStep ==
  /\ FotaPlaces /\ Whole /\ Alone /\ OfOneJob
  /\ [FotaNext]_fota_vars /\ ~ crossed'
  => OfOneJob'
<1> SUFFICES ASSUME FotaPlaces, Whole, Alone, OfOneJob,
                    [FotaNext]_fota_vars, ~ crossed'
             PROVE  OfOneJob'
  OBVIOUS
<1> USE DEF slots, nvs, ram, busy, loader
<1>0. ASSUME UNCHANGED <<g_fota_active, dl, image, url, g_current_job_id,
                         g_target_version, installed>>
      PROVE  OfOneJob'
  BY <1>0 DEF OfOneJob, AlreadyThere, Named
<1>1. ASSUME ~ g_fota_active', dl' = "idle" PROVE OfOneJob'
  BY <1>1 DEF OfOneJob
<1>2. CASE Reset \/ Reboot
  BY <1>1, <1>2, Zenon DEF Reset, Reboot, PowerDown
<1>3. CASE McuBoot \/ EndInit
  <2>1. dl = "idle" /\ ~ g_fota_active
    BY <1>3 DEF McuBoot, BootPlain, BootSwap, BootRefuse, BootRevert,
       EndInit, Confirm, ConfirmFails, RecordVersion, Whole
  <2>2. dl' = dl /\ g_fota_active' = g_fota_active
    BY <1>3 DEF McuBoot, BootPlain, BootSwap, BootRefuse, BootRevert,
       EndInit, Confirm, ConfirmFails, RecordVersion
  <2> QED
    BY <1>1, <2>1, <2>2
<1>4. CASE Connect \/ AppConnect \/ Disconnect \/ CheckNothing
  BY <1>0, <1>4 DEF Connect, AppConnect, Disconnect, CheckNothing, Sessions
<1>5. CASE CheckRollback \/ CheckSucceeded \/ CheckUnsent
  <2>1. dl = "idle" /\ ~ g_fota_active
    BY <1>5, CheckAlone
  <2>2. dl' = dl /\ g_fota_active' = g_fota_active
    BY <1>5 DEF CheckRollback, CheckSucceeded, CheckUnsent
  <2> QED
    BY <1>1, <2>1, <2>2
<1>6. CASE ClearFailed \/ ClearSucceeded
  <2>1. dl = "idle" /\ ~ g_fota_active
    BY <1>6 DEF ClearFailed, ClearSucceeded, Alone
  <2>2. dl' = dl /\ g_fota_active' = g_fota_active
    BY <1>6 DEF ClearFailed, ClearSucceeded
  <2> QED
    BY <1>1, <2>1, <2>2
<1>7. ASSUME NEW t \in Threads, Command(t) PROVE OfOneJob'
  <2>1. CASE Ignore(t) \/ \E j \in Jobs : LetIn(t, j)
    BY <1>0, <2>1 DEF Ignore, LetIn
  <2>2. CASE Skip(t)
    <3>1. dl = "idle" /\ ~ g_fota_active
      BY <2>2, HandlerAlone DEF Skip
    <3>2. dl' = dl /\ g_fota_active' = g_fota_active
      BY <2>2 DEF Skip
    <3> QED
      BY <1>1, <3>1, <3>2
  <2>3. CASE Start(t)
    <3> DEFINE j == doc[t]
    <3>1. j \in Jobs /\ ~ AlreadyThere(j) /\ dl = "idle"
      BY <2>3, HandlerAlone DEF Start, Whole
    <3>2. /\ g_current_job_id' = j /\ g_target_version' = Named(j)
          /\ url' = j /\ dl' = dl /\ installed' = installed
      BY <2>3 DEF Start
    <3>3. AlreadyThere(g_current_job_id)' = AlreadyThere(j)
      BY <3>2 DEF AlreadyThere, Named
    <3>4. Named(g_current_job_id)' = Named(j)
      BY <3>2 DEF Named
    <3> HIDE DEF j
    <3> QED
      BY <3>1, <3>2, <3>3, <3>4 DEF OfOneJob
  <2>4. CASE Download(t)
    <3>1. g_fota_active /\ url = g_current_job_id
      BY <2>4, HandlerAlone DEF Download, OfOneJob
    <3> QED
      BY <2>4, <3>1 DEF Download, OfOneJob, AlreadyThere, Named
  <2>5. CASE StartFails(t)
    <3>1. dl' = "idle" /\ ~ g_fota_active'
      BY <2>5, HandlerAlone DEF StartFails
    <3> QED
      BY <1>1, <3>1
  <2> QED
    BY <1>7, <2>1, <2>2, <2>3, <2>4, <2>5 DEF Command
<1>8. CASE Mark \/ SaveRecord
  <2>1. dl \in {"downloading", "marked"} /\ dl' \in {"marked", "saved"}
    BY <1>8 DEF Mark, SaveRecord
  <2>2. UNCHANGED <<g_fota_active, image, url, g_current_job_id,
                    g_target_version, installed>>
    BY <1>8 DEF Mark, SaveRecord
  <2>3. g_fota_active
    BY <2>1 DEF Alone
  <2> QED
    BY <2>1, <2>2, <2>3 DEF OfOneJob, AlreadyThere, Named
<1>9. CASE DownloadFails
  <2>1. g_fota_active
    BY <1>9 DEF DownloadFails, Alone
  <2> QED
    BY <1>9, <2>1 DEF DownloadFails, OfOneJob, AlreadyThere, Named
<1>10. CASE DownloadCancelled
  BY <1>1, <1>10 DEF DownloadCancelled
<1>11. CASE ReportFailure
  <2>1. ~ g_fota_active
    BY <1>11 DEF ReportFailure, Alone
  <2>2. dl' = "idle" /\ g_fota_active' = g_fota_active
    BY <1>11 DEF ReportFailure
  <2> QED
    BY <1>1, <2>1, <2>2
<1>12. CASE UNCHANGED fota_vars
  BY <1>0, <1>12 DEF fota_vars
<1> QED
  BY <1>2, <1>3, <1>4, <1>5, <1>6, <1>7, <1>8, <1>9, <1>10, <1>11, <1>12
  DEF FotaNext, Check, Downloader, Handler

(* The handler saves the job that is under way. *)
LEMMA RecordStep ==
  /\ Alone /\ OfOneJob /\ RecordOfJob /\ [FotaNext]_fota_vars
  => RecordOfJob'
<1> SUFFICES ASSUME Alone, OfOneJob, RecordOfJob, [FotaNext]_fota_vars
             PROVE  RecordOfJob'
  OBVIOUS
<1>1. CASE UNCHANGED pending
  BY <1>1 DEF RecordOfJob, Named
<1>2. CASE SaveRecord
  <2>1. g_target_version = Named(g_current_job_id)
    BY <1>2 DEF SaveRecord, Alone, OfOneJob
  <2>2. pending' \in {pending, [job |-> g_current_job_id,
                                version |-> g_target_version]}
    BY <1>2 DEF SaveRecord
  <2> QED
    BY <2>1, <2>2 DEF RecordOfJob, Named
<1>3. CASE pending' = NoRecord
  BY <1>3 DEF RecordOfJob
<1> QED
  BY <1>1, <1>2, <1>3, RecordMoves

(* Nothing touches the record or the job between the handler's write and   *)
(* the reset that it orders.                                               *)
LEMMA KeptStep ==
  /\ FotaPlaces /\ Whole /\ Alone /\ OfOneJob /\ Kept
  /\ [FotaNext]_fota_vars /\ ~ crossed'
  => Kept'
<1> SUFFICES ASSUME FotaPlaces, Whole, Alone, OfOneJob, Kept,
                    [FotaNext]_fota_vars, ~ crossed',
                    dl' = "saved", g_device_id'
             PROVE  pending'.job = g_current_job_id'
  BY DEF Kept
<1> USE DEF nvs, ram, loader
<1>1. CASE SaveRecord
  <2>1. g_current_job_id # NoJob
    BY <1>1, JobVersions DEF SaveRecord, Alone, OfOneJob
  <2> QED
    BY <1>1, <2>1 DEF SaveRecord
<1>2. ASSUME UNCHANGED <<pending, g_current_job_id, g_device_id, dl>>
      PROVE  pending'.job = g_current_job_id'
  BY <1>2 DEF Kept
<1>3. CASE \/ Reset \/ Reboot \/ Mark \/ DownloadFails \/ DownloadCancelled
           \/ ReportFailure
  BY <1>3 DEF Reset, Reboot, PowerDown, Mark, DownloadFails,
     DownloadCancelled, ReportFailure
<1>4. CASE McuBoot \/ EndInit
  <2>1. dl = "idle" /\ dl' = dl
    BY <1>4 DEF McuBoot, BootPlain, BootSwap, BootRefuse, BootRevert,
       EndInit, Confirm, ConfirmFails, RecordVersion, Whole
  <2> QED
    BY <2>1
<1>5. CASE Connect \/ AppConnect \/ Disconnect \/ CheckNothing
  BY <1>2, <1>5 DEF Connect, AppConnect, Disconnect, CheckNothing, Sessions
<1>6. CASE CheckRollback \/ CheckSucceeded \/ CheckUnsent
  <2>1. dl = "idle"
    BY <1>6, CheckAlone
  <2> QED
    BY <1>6, <2>1 DEF CheckRollback, CheckSucceeded, CheckUnsent
<1>7. CASE ClearFailed \/ ClearSucceeded
  <2>1. dl = "idle"
    BY <1>7 DEF ClearFailed, ClearSucceeded, Alone
  <2> QED
    BY <1>7, <2>1 DEF ClearFailed, ClearSucceeded
<1>8. ASSUME NEW t \in Threads, Command(t)
      PROVE  pending'.job = g_current_job_id'
  <2>1. CASE Ignore(t) \/ \E j \in Jobs : LetIn(t, j)
    BY <1>2, <2>1 DEF Ignore, LetIn
  <2>2. CASE Skip(t) \/ Start(t) \/ Download(t) \/ StartFails(t)
    <3>1. dl = "idle"
      BY <2>2, HandlerAlone DEF Skip, Start, Download, StartFails
    <3> QED
      BY <2>2, <3>1 DEF Skip, Start, Download, StartFails
  <2> QED
    BY <1>8, <2>1, <2>2 DEF Command
<1>9. CASE UNCHANGED fota_vars
  BY <1>2, <1>9 DEF fota_vars
<1> QED
  BY <1>1, <1>3, <1>4, <1>5, <1>6, <1>7, <1>8, <1>9
  DEF FotaNext, Check, Downloader, Handler

(* A record goes on to its settlement: nothing but MCUboot and the         *)
(* confirmation touches its image, and no other command is let in before   *)
(* the check has deleted it.                                               *)
LEMMA SettlesStep ==
  /\ FotaPlaces /\ Whole /\ Alone /\ OfOneJob /\ RecordSettles
  /\ [FotaNext]_fota_vars /\ ~ crossed'
  => RecordSettles'
<1> SUFFICES ASSUME FotaPlaces, Whole, Alone, OfOneJob, RecordSettles,
                    [FotaNext]_fota_vars, ~ crossed',
                    faults' = 0, pending' # NoRecord
             PROVE  RecordSettles'
  BY DEF RecordSettles
<1>0. faults = 0
  BY FaultsStay
<1>1. CASE SaveRecord
  <2>1. dl = "marked" /\ g_fota_active
    BY <1>1 DEF SaveRecord, Alone
  <2>2. pending = NoRecord
    BY <1>0, <2>1 DEF RecordSettles, Unasked
  <2>3. pending'.job = g_current_job_id /\ dl' = "saved"
    BY <1>1, <2>2 DEF SaveRecord
  <2>4. g_current_job_id' = g_current_job_id
    BY <1>1 DEF SaveRecord, ram
  <2> QED
    BY <2>3, <2>4 DEF RecordSettles
<1>2. ASSUME UNCHANGED pending, ~ SaveRecord PROVE RecordSettles'
  <2>0. pending # NoRecord
    BY <1>2
  <2> DEFINE version == Version[pending.job]
  <2>1. SUFFICES ASSUME NEW v, v = version
                 PROVE  IF dl' = "saved" THEN pending.job = g_current_job_id'
                                         ELSE Unasked' /\ Settling(v)'
    BY <1>2, <2>1 DEF RecordSettles, Settling
  <2>2. IF dl = "saved" THEN pending.job = g_current_job_id
                        ELSE Unasked /\ Settling(v)
    BY <1>0, <2>0, <2>1 DEF RecordSettles
  <2>3. dl = "saved" => marked /\ slot = v /\ g_fota_active /\ NoneBusy
    BY <2>1, <2>2 DEF Whole, Alone, OfOneJob
  <2>4. marked => pc = "off" \/ dl \in {"marked", "saved"}
    BY DEF Whole
  <2>5. dl \notin {"downloading", "marked"}
    BY <2>2 DEF Alone, Unasked
  <2> HIDE DEF version
  <2> USE DEF Settling, slots, nvs, ram, busy, loader, history
  <2>6. CASE Reset \/ Reboot
    <3>1. /\ pc' = "off" /\ dl' = "idle" /\ UNCHANGED <<slots, undone>>
          /\ at' = [t \in Threads |-> "idle"]
      BY <2>6 DEF Reset, Reboot, PowerDown
    <3>2. ~ g_fota_active'
      BY <2>6, Zenon DEF Reset, Reboot, PowerDown
    <3>3. Unasked'
      BY <3>1, <3>2 DEF Unasked
    <3>4. Settling(v)'
      BY <2>2, <2>3, <2>4, <2>5, <3>1
    <3> QED
      BY <3>1, <3>3, <3>4
  <2>7. CASE McuBoot
    <3>1. /\ pc = "off" /\ dl = "idle" /\ pc' = "init"
          /\ UNCHANGED <<dl, at, g_fota_active>>
      BY <2>7 DEF McuBoot, BootPlain, BootSwap, BootRefuse, BootRevert, Whole
    <3>2. Unasked'
      BY <2>2, <3>1 DEF Unasked
    <3>3. CASE BootPlain
      BY <2>2, <3>1, <3>2, <3>3 DEF BootPlain
    <3>4. CASE BootSwap
      BY <2>2, <3>1, <3>2, <3>4 DEF BootSwap
    <3>5. CASE BootRefuse
      BY <2>2, <3>1, <3>2, <3>5 DEF BootRefuse
    <3>6. CASE BootRevert
      BY <2>2, <3>1, <3>2, <3>6 DEF BootRevert
    <3> QED
      BY <2>7, <3>3, <3>4, <3>5, <3>6 DEF McuBoot
  <2>8. CASE EndInit
    <3>1. ~ ConfirmFails
      BY <1>0 DEF ConfirmFails, Fault
    <3>2. /\ dl = "idle" /\ pc' \in {"record", "offline"}
          /\ UNCHANGED <<dl, at, g_fota_active>>
      BY <2>8, <3>1 DEF EndInit, Confirm, RecordVersion, Whole
    <3>3. Unasked'
      BY <2>2, <3>2 DEF Unasked
    <3>4. CASE Confirm
      BY <2>2, <2>4, <3>2, <3>3, <3>4 DEF Confirm
    <3>5. CASE RecordVersion
      BY <2>2, <2>4, <3>2, <3>3, <3>5 DEF RecordVersion
    <3> QED
      BY <2>8, <3>1, <3>4, <3>5 DEF EndInit
  <2>9. CASE Connect \/ AppConnect \/ Disconnect \/ CheckNothing
    <3>1. UNCHANGED <<dl, at, g_fota_active, g_current_job_id, slots, undone>>
      BY <2>9 DEF Connect, AppConnect, Disconnect, CheckNothing, Sessions
    <3>2. CASE dl = "saved"
      BY <2>2, <3>1, <3>2
    <3>3. CASE dl # "saved"
      <4>1. ~ CheckNothing
        BY <2>0, <2>2, <3>3 DEF CheckNothing, Unasked
      <4>2. /\ pc # "off" /\ pc' \in {"offline", "check", "online"}
            /\ pc' = "online" => bypassed'
        BY <2>9, <4>1 DEF Connect, AppConnect, Disconnect, Sessions
      <4>3. pc \notin {"off", "init"}
        BY <2>9, <4>1 DEF Connect, AppConnect, Disconnect
      <4> QED
        BY <2>2, <3>1, <3>3, <4>2, <4>3 DEF Unasked
    <3> QED
      BY <3>2, <3>3
  <2>10. CASE CheckRollback \/ CheckSucceeded \/ CheckUnsent
    <3>1. ~ CheckUnsent
      BY <1>0 DEF CheckUnsent, Fault
    <3>2. dl = "idle" /\ pc = "check"
      BY <2>10, CheckAlone
    <3>3. /\ pc' \in {"clear", "clear_failed"}
          /\ UNCHANGED <<dl, at, g_fota_active, slots, undone>>
      BY <2>10, <3>1 DEF CheckRollback, CheckSucceeded
    <3> QED
      BY <2>2, <3>2, <3>3 DEF Unasked
  <2>11. CASE ClearFailed \/ ClearSucceeded
    BY <1>2, <2>0, <2>11 DEF ClearFailed, ClearSucceeded
  <2>12. ASSUME NEW t \in Threads, Command(t)
         PROVE  IF dl' = "saved" THEN pending.job = g_current_job_id'
                                 ELSE Unasked' /\ Settling(v)'
    <3>1. CASE Ignore(t)
      BY <2>2, <3>1 DEF Ignore, Unasked
    <3>2. ASSUME NEW j \in Jobs, LetIn(t, j) PROVE FALSE
      <4>1. pc = "online" /\ ~ bypassed /\ dl = "idle"
        BY <2>0, <3>2, LetInAlone
      <4> QED
        BY <2>2, <4>1 DEF Unasked
    <3>3. ASSUME Skip(t) \/ Start(t) \/ Download(t) \/ StartFails(t)
          PROVE  FALSE
      <4>1. at[t] \in {"let_in", "starting"}
        BY <3>3 DEF Skip, Start, Download, StartFails
      <4>2. dl = "idle" /\ (at[t] = "starting" => g_fota_active)
        BY <4>1, HandlerAlone
      <4> QED
        BY <2>2, <4>1, <4>2 DEF Unasked
    <3> QED
      BY <2>12, <3>1, <3>2, <3>3 DEF Command
  <2>13. CASE Mark \/ DownloadFails \/ DownloadCancelled
    BY <2>5, <2>13 DEF Mark, DownloadFails, DownloadCancelled
  <2>14. CASE ReportFailure
    BY <2>2, <2>14 DEF ReportFailure, Unasked
  <2>15. CASE UNCHANGED fota_vars
    BY <2>2, <2>15 DEF fota_vars, Unasked
  <2> QED
    BY <2>6, <2>7, <2>8, <2>9, <2>10, <2>11, <2>12, <2>13, <2>14, <2>15, <1>2
    DEF FotaNext, Check, Downloader, Handler
<1> QED
  BY <1>1, <1>2, RecordMoves

(* The check reports the job of the record before it deletes the record,   *)
(* and nothing is written to the record in between.                        *)
LEMMA ToldStep ==
  /\ FotaPlaces /\ Alone /\ Told /\ [FotaNext]_fota_vars /\ ~ crossed'
  => Told'
<1> SUFFICES ASSUME FotaPlaces, Alone, Told, [FotaNext]_fota_vars, ~ crossed'
             PROVE  Told'
  OBVIOUS
<1> USE DEF nvs, reports, counts
<1>1. CASE CheckSucceeded
  BY <1>1 DEF Told, CheckSucceeded
<1>2. CASE CheckRollback
  <2>1. pc' = "clear_failed" /\ pending' = pending
    BY <1>2 DEF CheckRollback
  <2>2. pending.job \in failed' \/ faults' = faults + 1
    BY <1>2 DEF CheckRollback, Fault
  <2>3. faults \in Nat
    BY FotaBounds DEF FotaPlaces
  <2> QED
    BY <2>1, <2>2, <2>3 DEF Told
<1>3. ASSUME pc' \notin {"clear", "clear_failed"} PROVE Told'
  BY <1>3 DEF Told
<1>4. CASE \/ Reset \/ Reboot \/ McuBoot \/ EndInit \/ Connect \/ AppConnect
           \/ Disconnect \/ CheckNothing \/ ClearFailed \/ CheckUnsent
           \/ ClearSucceeded
  BY <1>3, <1>4 DEF Reset, Reboot, PowerDown, McuBoot, BootPlain, BootSwap,
     BootRefuse, BootRevert, EndInit, Confirm, ConfirmFails, RecordVersion,
     Connect, AppConnect, Disconnect, CheckNothing, Sessions, ClearFailed,
     CheckUnsent, ClearSucceeded
<1>5. ASSUME NEW t \in Threads, Command(t) PROVE Told'
  <2>1. CASE Ignore(t) \/ Start(t) \/ Download(t) \/ StartFails(t)
    BY <2>1 DEF Told, Ignore, Start, Download, StartFails
  <2>2. ASSUME NEW j \in Jobs, LetIn(t, j) PROVE Told'
    BY <2>2 DEF Told, LetIn
  <2>3. CASE Skip(t)
    <3>1. pc \notin {"clear", "clear_failed"} /\ pc' = pc
      BY <2>3, HandlerAlone DEF Skip
    <3> QED
      BY <1>3, <3>1
  <2> QED
    BY <1>5, <2>1, <2>2, <2>3 DEF Command
<1>6. CASE SaveRecord \/ Mark \/ DownloadFails \/ DownloadCancelled
           \/ ReportFailure
  <2>1. dl # "idle" /\ pc' = pc
    BY <1>6 DEF SaveRecord, Mark, DownloadFails, DownloadCancelled,
       ReportFailure
  <2> QED
    BY <1>3, <2>1 DEF Alone
<1>7. CASE UNCHANGED fota_vars
  BY <1>7 DEF Told, fota_vars
<1> QED
  BY <1>1, <1>2, <1>4, <1>5, <1>6, <1>7
  DEF FotaNext, Check, Downloader, Handler

(* The inductive invariant holds. *)
LEMMA FotaInvAlways == FotaSpec => []FotaInv
<1>1. FotaInit => FotaInv
  BY FotaInitially
<1>2. Sound /\ FotaInv /\ [FotaNext]_fota_vars /\ Sound' => FotaInv'
  <2> SUFFICES ASSUME Sound, FotaInv, [FotaNext]_fota_vars, ~ crossed'
               PROVE  Orderly'
    BY DEF FotaInv
  <2>1. Orderly
    BY CrossedStays DEF FotaInv
  <2>2. /\ FotaPlaces /\ Whole /\ Alone /\ OfOneJob /\ RecordOfJob /\ Kept
        /\ RecordSettles /\ Told
    BY <2>1 DEF Orderly, Sound
  <2> QED
    BY <2>2, AloneStep, OfOneJobStep, RecordStep, KeptStep, SettlesStep,
       ToldStep DEF Orderly
<1> QED
  BY <1>1, <1>2, SoundAlways, PTL DEF FotaSpec

(* The record of an update can be missing, at the reset that the handler   *)
(* orders, only for want of the device id (fota.c:281) or because a        *)
(* command crossed: otherwise the record is that of the job under way,     *)
(* whatever was reported before.                                           *)
THEOREM KeptWithDeviceId == FotaSpec => []RecordKeptWithId
<1>1. FotaInv => RecordKeptWithId
  BY Zenon DEF FotaInv, Orderly, Kept, RecordKeptWithId, RecordKept
<1> QED
  BY FotaInvAlways, <1>1, PTL

(* For any threads, jobs, versions, repetitions and resets, and as long as *)
(* no two steps have crossed: one update is under way at most, and its     *)
(* buffers are those of its job; no record is lost but for want of the     *)
(* device id; and, as long as no publish and no confirmation has failed    *)
(* either, the image of a record that fota_check_and_execute reads is      *)
(* running and confirmed, or MCUboot has undone it.                        *)
THEOREM RecordsAreSettled == FotaSpec => []FotaConsistent
<1>1. FotaInv => FotaTypeOK
  BY Zenon DEF FotaInv, Sound, FotaFlags, FotaData, FotaPlaces, FotaTypeOK
<1>2. FotaInv => OneUpdate
  BY DEF FotaInv, Orderly, Alone, OfOneJob, NoneBusy, OneUpdate
<1>3. FotaInv => RecordIsSettled
  <2> SUFFICES ASSUME FotaInv, CheckDue, faults = 0, ~ crossed
               PROVE  \/ running = Version[pending.job] /\ confirmed
                      \/ Version[pending.job] \in undone
    BY DEF RecordIsSettled
  <2>1. dl # "saved" /\ pc = "check"
    BY DEF FotaInv, Orderly, Alone, CheckDue
  <2>2. Settling(Version[pending.job])
    BY <2>1 DEF FotaInv, Orderly, RecordSettles, CheckDue
  <2> QED
    BY <2>1, <2>2 DEF Settling
<1> QED
  BY FotaInvAlways, KeptWithDeviceId, <1>1, <1>2, <1>3, PTL
  DEF FotaConsistent

(* What a step reports: nothing, or what one of five does.                 *)
LEMMA ReportedBy ==
  [FotaNext]_fota_vars =>
    \/ UNCHANGED reports
    \/ \E t \in Threads : Skip(t)
    \/ CheckSucceeded \/ CheckUnsent \/ CheckRollback \/ ReportFailure
<1> SUFFICES ASSUME [FotaNext]_fota_vars
             PROVE  \/ UNCHANGED reports
                    \/ \E t \in Threads : Skip(t)
                    \/ CheckSucceeded \/ CheckUnsent \/ CheckRollback
                    \/ ReportFailure
  OBVIOUS
<1>1. CASE Reset \/ Downloader
  BY <1>1, Zenon DEF Reset, Downloader, Handler, SaveRecord, Reboot, Mark,
     DownloadFails, DownloadCancelled
<1>2. CASE McuBoot \/ EndInit
  BY <1>2, Zenon DEF McuBoot, BootPlain, BootSwap, BootRefuse, BootRevert,
     EndInit, Confirm, ConfirmFails, RecordVersion
<1>3. CASE Connect \/ AppConnect \/ Disconnect
  BY <1>3, Zenon DEF Connect, AppConnect, Disconnect, Sessions
<1>4. CASE Check
  BY <1>4, Zenon DEF Check, CheckNothing, Sessions, ClearFailed,
     ClearSucceeded
<1>5. CASE \E t \in Threads : Command(t)
  BY <1>5, Zenon DEF Command, Ignore, LetIn, Start, Download, StartFails
<1>6. CASE UNCHANGED fota_vars
  BY <1>6, Zenon DEF fota_vars
<1> QED
  BY <1>1, <1>2, <1>3, <1>4, <1>5, <1>6, Zenon DEF FotaNext

(* A job that the check reports has the version of its record, and that    *)
(* record says what runs.                                                  *)
LEMMA RecordSaysSo ==
  ASSUME Whole, RecordOfJob, CheckDue, pending.job \notin Unnamed
  PROVE  RolledBack <=> running # Version[pending.job]
<1>1. pending.job \in Jobs /\ pending.version = Named(pending.job)
  BY DEF Whole, RecordOfJob, CheckDue
<1>2. pending.version = Version[pending.job] /\ pending.version # NoVersion
  BY <1>1, JobVersions
<1> QED
  BY <1>2 DEF RolledBack

(* For any threads, jobs, versions, resets, repetitions and faults, and as *)
(* long as no two steps have crossed: a job that is reported as SUCCEEDED  *)
(* by confirmed firmware, and that names its version and is for this       *)
(* device, has that firmware; one reported as FAILED has not.  And until a *)
(* publish or a confirmation fails no record is erased, or given up for    *)
(* another, whose job was not reported.                                    *)
THEOREM ReportsHold == FotaSpec => ReportsAreTrue
<1> DEFINE TrueSuccess == \A j \in succeeded' \ (succeeded \cup Foreign
                                                   \cup Unnamed) :
                            confirmed => running = Version[j]
           TrueFailure == \A j \in failed' \ (failed \cup Unnamed) :
                            confirmed => running # Version[j]
           ToldFirst == \A j \in Jobs : pending.job = j /\ pending'.job # j
                                          => j \in succeeded' \cup failed'
<1>1. FotaInv /\ [FotaNext]_fota_vars /\ ~ crossed'
        => TrueSuccess /\ TrueFailure
  <2> SUFFICES ASSUME FotaInv, [FotaNext]_fota_vars, ~ crossed'
               PROVE  TrueSuccess /\ TrueFailure
    OBVIOUS
  <2>0. /\ FotaPlaces /\ Whole /\ VersionKnown
        /\ Alone /\ OfOneJob /\ RecordOfJob
    BY CrossedStays DEF FotaInv, Sound, Orderly
  <2>1. CASE UNCHANGED reports
    BY <2>1 DEF reports
  <2>2. ASSUME NEW t \in Threads, Skip(t) PROVE TrueSuccess /\ TrueFailure
    <3> DEFINE j == doc[t]
    <3>1. j \in Jobs /\ (AlreadyThere(j) \/ j \in Foreign) /\ Report(j, TRUE)
      BY <2>0, <2>2 DEF Skip, Whole
    <3>2. succeeded' \in {succeeded, succeeded \cup {j}} /\ failed' = failed
      BY <2>0, <3>1, ReportMoves
    <3>3. pc \notin {"off", "init", "record"}
      BY <2>0, <2>2 DEF Skip, Whole, NoneBusy
    <3>4. confirmed => installed = running
      BY <2>0, <3>3 DEF VersionKnown
    <3> HIDE DEF j
    <3>5. j \notin Foreign /\ j \notin Unnamed /\ confirmed
            => running = Version[j]
      BY <3>1, <3>4, JobVersions DEF AlreadyThere
    <3> QED
      BY <3>2, <3>5
  <2>3. CASE CheckSucceeded \/ CheckUnsent
    <3>1. /\ CheckDue /\ ~ RolledBack
          /\ succeeded' \in {succeeded, succeeded \cup {pending.job}}
          /\ failed' = failed
      BY <2>3 DEF CheckSucceeded, CheckUnsent
    <3>2. pending.job \notin Unnamed => running = Version[pending.job]
      BY <2>0, <3>1, RecordSaysSo
    <3> QED
      BY <3>1, <3>2
  <2>4. CASE CheckRollback
    <3>1. /\ CheckDue /\ RolledBack
          /\ failed' \in {failed, failed \cup {pending.job}}
          /\ succeeded' = succeeded
      BY <2>4 DEF CheckRollback
    <3>2. pending.job \notin Unnamed => running # Version[pending.job]
      BY <2>0, <3>1, RecordSaysSo
    <3> QED
      BY <3>1, <3>2
  <2>5. CASE ReportFailure
    <3> DEFINE j == g_current_job_id
    <3>1. dl = "failing" /\ Report(j, FALSE)
      BY <2>5 DEF ReportFailure
    <3>2. j \in Jobs /\ ~ AlreadyThere(j)
      BY <2>0, <3>1 DEF OfOneJob
    <3>3. confirmed => installed = running
      BY <2>0, <3>1 DEF VersionKnown, Whole
    <3>4. failed' \in {failed, failed \cup {j}} /\ succeeded' = succeeded
      BY <2>0, <3>1, <3>2, ReportMoves
    <3>5. j \notin Unnamed /\ confirmed => running # Version[j]
      BY <3>2, <3>3, JobVersions DEF AlreadyThere
    <3> QED
      BY <3>4, <3>5
  <2> QED
    BY <2>1, <2>2, <2>3, <2>4, <2>5, ReportedBy
<1>2. FotaInv /\ [FotaNext]_fota_vars /\ faults' = 0 /\ ~ crossed'
        => ToldFirst
  <2> SUFFICES ASSUME FotaInv, [FotaNext]_fota_vars, faults' = 0, ~ crossed',
                      pending.job \in Jobs, pending'.job # pending.job
               PROVE  pending.job \in succeeded' \cup failed'
    OBVIOUS
  <2>1. Alone /\ RecordSettles /\ Told /\ faults = 0
    BY CrossedStays, FaultsStay DEF FotaInv, Sound, Orderly
  <2>2. pending # NoRecord
    BY JobVersions DEF NoRecord
  <2>3. CASE SaveRecord
    BY <2>1, <2>2, <2>3 DEF SaveRecord, RecordSettles, Unasked, Alone
  <2>4. CASE ClearFailed \/ ClearSucceeded
    BY <2>1, <2>4 DEF ClearFailed, ClearSucceeded, Told, reports
  <2> QED
    BY <2>3, <2>4, RecordMoves
<1>3. FotaSpec => /\ [][~ crossed' => TrueSuccess]_fota_vars
                  /\ [][~ crossed' => TrueFailure]_fota_vars
                  /\ [][faults' = 0 /\ ~ crossed' => ToldFirst]_fota_vars
  BY FotaInvAlways, <1>1, <1>2, PTL DEF FotaSpec
<1> QED
  BY <1>3
  DEF ReportsAreTrue, SuccessIsInstalled, FailureIsReal, ReportedBeforeErased

=============================================================================
