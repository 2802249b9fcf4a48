---------------------------- MODULE CellLocation ----------------------------
(***************************************************************************)
(* Cellular location (src/cell_location.c): every Interval seconds the     *)
(* application's main loop asks the modem to measure the neighbour cells;  *)
(* the result comes to an event handler, which queues it as metrics and    *)
(* has the work queue publish them.  g_measurement_active is to say that a *)
(* measurement is under way; main sets it after the modem has accepted,    *)
(* and the handler, on a thread that may preempt main, clears it.          *)
(***************************************************************************)
EXTENDS Naturals

CONSTANTS
  Interval,  \* CONFIG_CELL_LOCATION_INTERVAL_SEC
  Advances   \* seconds by which a pass of the main loop moves the countdown:
             \* 1 with cell_location_tick, the publish interval without a UART

ASSUME IntervalAssumption == Interval \in Nat \ {0}
ASSUME AdvanceAssumption == Advances \subseteq Nat \ {0}

VARIABLES
  cell_ready,            \* g_initialised of cell_location.c
  g_measurement_active,
  g_tick_counter,
  app,                   \* main: in its loop, in cell_location_request before
                         \* the modem is asked, or after it has accepted
  measuring,             \* modem: a measurement is under way
  g_publish_work,        \* is the work item in the queue?
  early                  \* history: has a result ever come before the flag
                         \* of its measurement was set?

cell == <<cell_ready, g_measurement_active, g_tick_counter, app, measuring,
          g_publish_work, early>>

CellOff ==
  /\ cell_ready = FALSE /\ g_measurement_active = FALSE
  /\ g_tick_counter = 0 /\ app = "loop" /\ measuring = FALSE
  /\ g_publish_work = FALSE /\ early = FALSE

(* cell_location_init *)
CellStart ==
  /\ cell_ready' = TRUE
  /\ UNCHANGED <<g_measurement_active, g_tick_counter, app, measuring,
                 g_publish_work, early>>

-----------------------------------------------------------------------------
(* The main loop *)

(* cell_location_tick and cell_location_advance_seconds: nothing while a   *)
(* measurement is thought to be under way.                                 *)
Advance(s) ==
  /\ cell_ready /\ app = "loop" /\ ~ g_measurement_active
  /\ \/ /\ g_tick_counter + s < Interval
        /\ g_tick_counter' = g_tick_counter + s
        /\ UNCHANGED app
     \/ /\ g_tick_counter + s >= Interval
        /\ g_tick_counter' = 0
        /\ app' = "request"
  /\ UNCHANGED <<cell_ready, g_measurement_active, measuring, g_publish_work,
                 early>>

(* Mutant of RequestFails: the flag is set before the modem is asked and   *)
(* not cleared when it refuses.                                            *)
RequestFailsSet ==
  /\ app = "request"
  /\ app' = "loop"
  /\ g_measurement_active' = TRUE
  /\ UNCHANGED <<cell_ready, g_tick_counter, measuring, g_publish_work, early>>

(* The modem refuses: the countdown starts over, a whole interval long. *)
RequestFails ==
  /\ app = "request"
  /\ app' = "loop"
  /\ UNCHANGED <<cell_ready, g_measurement_active, g_tick_counter, measuring,
                 g_publish_work, early>>

RequestAccepted ==
  /\ app = "request" /\ ~ measuring
  /\ measuring' = TRUE
  /\ app' = "accepted"
  /\ UNCHANGED <<cell_ready, g_measurement_active, g_tick_counter,
                 g_publish_work, early>>

SetActive ==
  /\ app = "accepted"
  /\ g_measurement_active' = TRUE
  /\ g_tick_counter' = 0
  /\ app' = "loop"
  /\ UNCHANGED <<cell_ready, measuring, g_publish_work, early>>

-----------------------------------------------------------------------------
(* The event handler and the work queue *)

(* Mutant of Measured: a failed measurement returns before it clears the   *)
(* flag.                                                                   *)
MeasuredReturns(valid) ==
  /\ measuring
  /\ measuring' = FALSE
  /\ g_measurement_active' = (~ valid /\ g_measurement_active)
  /\ early' = (early \/ app = "accepted")
  /\ g_publish_work' = (g_publish_work \/ valid)
  /\ UNCHANGED <<cell_ready, g_tick_counter, app>>

(* LTE_LC_EVT_NEIGHBOR_CELL_MEAS.  A valid result is queued, metric by     *)
(* metric, and the work item submitted if it is not pending.               *)
Measured(valid) ==
  /\ measuring
  /\ measuring' = FALSE
  /\ g_measurement_active' = FALSE
  /\ early' = (early \/ app = "accepted")
  /\ g_publish_work' = (g_publish_work \/ valid)
  /\ UNCHANGED <<cell_ready, g_tick_counter, app>>

(* publish_work_handler calls conexio_cloud_publish_single, which module   *)
(* Telemetry has.                                                          *)
PublishWork ==
  /\ g_publish_work
  /\ g_publish_work' = FALSE
  /\ UNCHANGED <<cell_ready, g_measurement_active, g_tick_counter, app,
                 measuring, early>>

CellThread ==
  \/ \E s \in Advances : Advance(s)
  \/ RequestFails \/ RequestAccepted \/ SetActive
  \/ PublishWork

-----------------------------------------------------------------------------
(* While main is in its loop the flag says whether the modem measures: no  *)
(* refusal, failed result or overlap of the two threads makes them differ, *)
(* save the one in which the result comes before main has set the flag     *)
(* (cell_location.c:286-292), and then the flag is set for ever.           *)
FlagIsTheModems ==
  app = "loop" => IF early THEN g_measurement_active /\ ~ measuring
                           ELSE g_measurement_active = measuring

(* Measurements go on being asked for, refused ones and failed ones        *)
(* notwithstanding, unless a result came early.                            *)
MeasuresOn == cell_ready ~> (app = "request" \/ early)
=============================================================================
