------------------------------- MODULE Startup -------------------------------
(***************************************************************************)
(* From reset to the application's main loop: the steps of                 *)
(* conexio_cloud_init (src/conexio_cloud.c) with each of its early         *)
(* returns, the registration it waits for (src/lte.c), the decision on     *)
(* power saving (src/power_mgr.c) and the hardware watchdog that           *)
(* retry_init arms (src/retry.c); and, from the step that starts it on,    *)
(* the fuel gauge and the cell location, which live on the same events of  *)
(* the modem.  The handlers run one after the other, on a thread that      *)
(* preempts the others.                                                    *)
(*                                                                         *)
(* The program has no end: when conexio_cloud_init fails, main returns,    *)
(* and what remains are the handlers, the fuel gauge and the watchdog.     *)
(* What happens after the start of the background thread, which also       *)
(* feeds the watchdog, is in CloudSession.                                 *)
(***************************************************************************)
EXTENDS FuelGauge, CellLocation

VARIABLES
  boot,        \* the step of conexio_cloud_init that main is at
  error,       \* the step that failed, or none
  wdt,         \* is the watchdog armed?
  wdt_dev,     \* is there a watchdog, and can it be set up?
  registered, asleep, grant,              \* modem and network
  lte_handler, power_handler,             \* registered with the modem library?
  lte_ready_sem, psm_grant_sem, g_psm_decision_received,
  psm,         \* psm_active_time_sec: unset, minus1 or granted
  dispatching  \* the handlers: idle, or reading the sensors for a sleep

lte   == <<registered, asleep, grant, lte_handler, lte_ready_sem>>
power == <<power_handler, psm_grant_sem, g_psm_decision_received, psm,
           dispatching>>
main  == <<boot, error, wdt, wdt_dev>>
vars  == <<main, lte, power, fuel, cell>>

Early == {"modem_lib", "imei", "creds"}
Steps == Early \cup {"battery", "retry", "lte", "lte_wait", "ntp", "config",
                     "transport", "power", "psm_wait", "spawn"}

Init ==
  /\ boot = "modem_lib" /\ error = "none"
  /\ wdt = FALSE /\ wdt_dev \in BOOLEAN
  /\ registered = FALSE /\ asleep = FALSE
  /\ grant \in BOOLEAN
  /\ lte_handler = FALSE /\ power_handler = FALSE
  /\ lte_ready_sem = 0 /\ psm_grant_sem = 0
  /\ g_psm_decision_received = FALSE /\ psm = "unset"
  /\ dispatching = "idle"
  /\ FuelOff /\ CellOff

-----------------------------------------------------------------------------
(* conexio_cloud_init, step by step *)

Goto(from, to) ==
  boot = from /\ boot' = to /\ UNCHANGED <<error, wdt, wdt_dev>>

(* An early return, upon which main returns too. *)
Fail(step) ==
  /\ boot = step
  /\ boot' = "failed" /\ error' = step
  /\ UNCHANGED <<wdt, wdt_dev, lte, power, fuel, cell>>

(* nrf_modem_lib_init, then the reboot counter, its reason and the timer   *)
(* and work item of the schedule watchdog.                                 *)
ModemLibInit ==
  /\ Goto("modem_lib", "battery")
  /\ UNCHANGED <<lte, power, fuel, cell>>

(* battery_metrics_init: without its device there is no fuel gauge. *)
BatteryInit ==
  /\ Goto("battery", "imei")
  /\ FuelStart \/ UNCHANGED fuel
  /\ UNCHANGED <<lte, power, cell>>

ReadImei ==
  /\ Goto("imei", "creds")
  /\ UNCHANGED <<lte, power, fuel, cell>>

(* cert_store_provision_from_config: the root certificate is there or is   *)
(* written, and the device has its own certificate and key.                *)
CheckCredentials ==
  /\ Goto("creds", "retry")
  /\ UNCHANGED <<lte, power, fuel, cell>>

(* Mutant of RetryInit: the timeout is installed, but wdt_setup not called. *)
RetryInitUnarmed ==
  /\ boot = "retry" /\ boot' = "lte"
  /\ UNCHANGED <<error, wdt, wdt_dev, lte, power, fuel, cell>>

(* retry_init arms the watchdog, or goes on without one; the offline       *)
(* buffer is read and the built-in commands and settings are registered.   *)
RetryInit ==
  /\ boot = "retry" /\ boot' = "lte"
  /\ wdt' = wdt_dev
  /\ UNCHANGED <<error, wdt_dev, lte, power, fuel, cell>>

(* conexio_lte_connect: the handler, lte_lc_connect_async, and the wait.   *)
LteConnect ==
  /\ Goto("lte", "lte_wait")
  /\ lte_handler' = TRUE
  /\ UNCHANGED <<registered, asleep, grant, lte_ready_sem, power, fuel, cell>>

LteReady ==
  /\ Goto("lte_wait", "ntp")
  /\ lte_ready_sem > 0 /\ lte_ready_sem' = lte_ready_sem - 1
  /\ UNCHANGED <<registered, asleep, grant, lte_handler, power, fuel, cell>>

(* The time, or the end of the wait for it, then the check of the schedule *)
(* that module ScheduleWatchdog has.                                       *)
NtpWait ==
  /\ Goto("ntp", "config")
  /\ UNCHANGED <<lte, power, fuel, cell>>

ConfigFetch ==
  /\ Goto("config", "transport")
  /\ UNCHANGED <<lte, power, fuel, cell>>

TransportInit ==
  /\ Goto("transport", "power")
  /\ UNCHANGED <<lte, power, fuel, cell>>

(* power_mgr_init: only now does its handler see the modem's events. *)
PowerInit ==
  /\ Goto("power", "psm_wait")
  /\ power_handler' = TRUE
  /\ UNCHANGED <<psm_grant_sem, g_psm_decision_received, psm, dispatching,
                 lte, fuel, cell>>

(* power_mgr_wait_psm_decision *)
PsmDecided ==
  /\ Goto("psm_wait", "spawn")
  /\ \/ /\ g_psm_decision_received
        /\ UNCHANGED psm_grant_sem
     \/ /\ psm_grant_sem > 0
        /\ psm_grant_sem' = psm_grant_sem - 1
  /\ UNCHANGED <<power_handler, g_psm_decision_received, psm, dispatching,
                 lte, fuel, cell>>

PsmTimeout ==
  /\ Goto("psm_wait", "spawn")
  /\ ~ g_psm_decision_received
  /\ UNCHANGED <<power_handler, psm_grant_sem, g_psm_decision_received, psm,
                 dispatching, lte, fuel, cell>>

(* FOTA is initialised and the background thread created; the application  *)
(* waits for its connection, publishes, and starts the cell location.      *)
Spawn ==
  /\ Goto("spawn", "app")
  /\ CellStart
  /\ UNCHANGED <<lte, power, fuel>>

(* The steps that return early when they fail; the wait for registration   *)
(* fails when it times out.                                                *)
CanFail == Early \cup {"lte", "lte_wait", "config"}

Boot ==
  \/ ModemLibInit \/ BatteryInit \/ ReadImei \/ CheckCredentials \/ RetryInit
  \/ LteConnect \/ LteReady \/ NtpWait \/ ConfigFetch \/ TransportInit
  \/ PowerInit \/ PsmDecided \/ PsmTimeout \/ Spawn
  \/ \E step \in CanFail : Fail(step)

(* Nobody feeds the watchdog before the background thread runs, and nobody *)
(* will when conexio_cloud_init has failed.  Whether it can fire before    *)
(* that is a matter of the configured timeouts.                            *)
WdtFires ==
  /\ wdt /\ boot # "app"
  /\ boot' = "modem_lib" /\ error' = "none" /\ wdt' = FALSE
  /\ registered' = FALSE /\ asleep' = FALSE
  /\ lte_handler' = FALSE /\ power_handler' = FALSE
  /\ lte_ready_sem' = 0 /\ psm_grant_sem' = 0
  /\ g_psm_decision_received' = FALSE /\ psm' = "unset"
  /\ dispatching' = "idle"
  /\ FuelReset
  /\ UNCHANGED <<wdt_dev, grant, cell>>

-----------------------------------------------------------------------------
(* The modem's events and their handlers *)

Idle == dispatching = "idle"

(* LTE_LC_EVT_NW_REG_STATUS, registered: lte.c gives its semaphore on      *)
(* every registration.                                                     *)
Register ==
  /\ Idle /\ lte_handler /\ ~ registered
  /\ registered' = TRUE
  /\ lte_ready_sem' = 1
  /\ UNCHANGED <<main, asleep, grant, lte_handler, power, fuel, cell>>

(* The registration is lost: counted, and nothing else. *)
Drop ==
  /\ Idle /\ registered /\ ~ asleep
  /\ registered' = FALSE
  /\ UNCHANGED <<main, asleep, grant, lte_handler, lte_ready_sem, power, fuel,
                 cell>>

(* LTE_LC_EVT_PSM_UPDATE.  The network may answer at once, or send an      *)
(* active time of -1 before the grant.  lte.c keeps the value; the power   *)
(* manager, if it listens already, takes the first update for the          *)
(* decision.                                                               *)
PsmUpdate(value) ==
  /\ Idle /\ registered /\ ~ asleep
  /\ \/ psm = "unset"  /\ (value = "granted" => grant)
     \/ psm = "minus1" /\ grant /\ value = "granted"
  /\ psm' = value
  /\ IF power_handler /\ ~ g_psm_decision_received
       THEN g_psm_decision_received' = TRUE /\ psm_grant_sem' = 1
       ELSE UNCHANGED <<g_psm_decision_received, psm_grant_sem>>
  /\ UNCHANGED <<main, lte, power_handler, dispatching, fuel, cell>>

(* The modem falls asleep once it has been granted to.  The handler begins *)
(* with a reading of the sensors.                                          *)
FallAsleep ==
  /\ Idle /\ registered /\ ~ asleep /\ psm = "granted"
  /\ asleep' = TRUE
  /\ dispatching' = IF power_handler /\ g_ready THEN "enter" ELSE "idle"
  /\ UNCHANGED <<main, registered, grant, lte_handler, lte_ready_sem,
                 power_handler, psm_grant_sem, g_psm_decision_received, psm,
                 fuel, cell>>

(* conexio_fuel_gauge_on_sleep_enter, after that reading. *)
EnterSleep ==
  /\ dispatching = "enter"
  /\ dispatching' = "idle"
  /\ IdleSet
  /\ UNCHANGED <<main, lte, power_handler, psm_grant_sem,
                 g_psm_decision_received, psm, cell>>

(* LTE_LC_EVT_MODEM_SLEEP_EXIT *)
WakeUp ==
  /\ Idle /\ asleep
  /\ asleep' = FALSE
  /\ IF power_handler THEN SleepExit ELSE UNCHANGED fuel
  /\ UNCHANGED <<main, registered, grant, lte_handler, lte_ready_sem, power,
                 cell>>

(* LTE_LC_EVT_NEIGHBOR_CELL_MEAS *)
CellMeasured ==
  /\ Idle
  /\ \E valid \in BOOLEAN : Measured(valid)
  /\ UNCHANGED <<main, lte, power, fuel>>

Modem ==
  \/ Register \/ Drop \/ FallAsleep \/ EnterSleep \/ WakeUp \/ CellMeasured
  \/ \E value \in {"minus1", "granted"} : PsmUpdate(value)

Next ==
  \/ Boot \/ WdtFires \/ Modem
  \/ FgThread   /\ UNCHANGED <<main, lte, power, cell>>
  \/ CellThread /\ UNCHANGED <<main, lte, power, fuel>>

Spec == Init /\ [][Next]_vars

(* Every thread runs, every wait ends, a watchdog that nobody feeds fires, *)
(* and the modem answers a request for a measurement: the answer is in the *)
(* handlers' queue, so that other events can delay it but not keep it      *)
(* away.  Nothing is asked of the network.                                 *)
FairSpec ==
  /\ Spec
  /\ WF_vars(Boot) /\ WF_vars(WdtFires)
  /\ WF_vars(EnterSleep) /\ SF_vars(CellMeasured)
  /\ WF_vars(FgThread /\ UNCHANGED <<main, lte, power, cell>>)
  /\ WF_vars(CellThread /\ UNCHANGED <<main, lte, power, fuel>>)

-----------------------------------------------------------------------------
TypeOK ==
  /\ boot \in Steps \cup {"failed", "app"}
  /\ error \in CanFail \cup {"none"}
  /\ {wdt, wdt_dev, registered, asleep, grant, lte_handler, power_handler,
      g_psm_decision_received} \subseteq BOOLEAN
  /\ lte_ready_sem \in 0 .. 1 /\ psm_grant_sem \in 0 .. 1
  /\ psm \in {"unset", "minus1", "granted"}
  /\ dispatching \in {"idle", "enter"}
  /\ {g_ready, g_sleeping} \subseteq BOOLEAN
  /\ fg_resume_sem \in 0 .. 1
  /\ fg \in {"off", "nap", "suspend", "sample"} /\ strays \in Nat
  /\ {cell_ready, g_measurement_active, measuring, g_publish_work, early}
       \subseteq BOOLEAN
  /\ g_tick_counter \in 0 .. Interval - 1
  /\ app \in {"loop", "request", "accepted"}

(* The flag agrees with the modem, through boots and failed ones. *)
Consistent == TypeOK /\ FlagIsTheModems

(* A token is never lost: while the modem is awake the thread goes on      *)
(* sampling, whatever sleeps came before, one that began before the power  *)
(* manager was listening included (fuel_gauge.c:177-186, 355-368).         *)
SamplingResumes ==
  (fg # "off" /\ ~ asleep) ~> (fg \in {"sample", "off"} \/ asleep)

(* A boot that fails is not the end of the device: the watchdog starts it  *)
(* anew - unless there is none, or it failed before retry_init armed it,   *)
(* as one without credentials does (conexio_cloud.c:3136-3230).            *)
FailedBootRestarts ==
  (boot = "failed" /\ error \notin Early /\ wdt_dev) ~> (boot = "modem_lib")
=============================================================================
