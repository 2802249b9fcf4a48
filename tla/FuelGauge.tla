------------------------------ MODULE FuelGauge ------------------------------
(***************************************************************************)
(* The fuel gauge (src/fuel_gauge.c): a thread that samples the battery    *)
(* once a second and feeds the gauge library, and that has to be quiet     *)
(* while the modem sleeps, when the library integrates a fixed current of  *)
(* its own.  The power manager tells it when the modem falls asleep and    *)
(* when it wakes up; the two meet in the flag g_sleeping and in a          *)
(* semaphore that holds at most one token.  Volts and ampere-hours are     *)
(* left out: what is kept is when nrf_fuel_gauge_process is called.        *)
(***************************************************************************)
EXTENDS Naturals

VARIABLES
  g_ready,
  g_sleeping,
  fg_resume_sem,  \* tokens of the semaphore
  fg,             \* fg_thread_fn: off, nap, suspend or sample
  strays          \* history: calls of nrf_fuel_gauge_process since idle_set

fuel == <<g_ready, g_sleeping, fg_resume_sem, fg, strays>>

FuelOff ==
  /\ g_ready = FALSE /\ g_sleeping = FALSE
  /\ fg_resume_sem = 0 /\ fg = "off" /\ strays = 0

FuelReset ==
  /\ g_ready' = FALSE /\ g_sleeping' = FALSE
  /\ fg_resume_sem' = 0 /\ fg' = "off" /\ strays' = 0

(* conexio_fuel_gauge_init: the charger, its first reading and the library *)
(* are there, and the thread is created.  Else the gauge stays unready.    *)
FuelStart ==
  /\ g_ready' = TRUE /\ fg' = "nap"
  /\ UNCHANGED <<g_sleeping, fg_resume_sem, strays>>

-----------------------------------------------------------------------------
(* The sampling thread *)

(* A second has passed; is the modem asleep? *)
FgWake ==
  /\ fg = "nap"
  /\ fg' = IF g_sleeping THEN "suspend" ELSE "sample"
  /\ UNCHANGED <<g_ready, g_sleeping, fg_resume_sem, strays>>

(* The token is taken and g_ref_time starts anew. *)
FgResume ==
  /\ fg = "suspend" /\ fg_resume_sem > 0
  /\ fg_resume_sem' = fg_resume_sem - 1
  /\ fg' = "sample"
  /\ UNCHANGED <<g_ready, g_sleeping, strays>>

(* A reading that fails is skipped. *)
FgSkip ==
  /\ fg = "sample"
  /\ fg' = "nap"
  /\ UNCHANGED <<g_ready, g_sleeping, fg_resume_sem, strays>>

(* nrf_fuel_gauge_process *)
FgProcess ==
  /\ fg = "sample"
  /\ fg' = "nap"
  /\ strays' = IF g_sleeping THEN strays + 1 ELSE strays
  /\ UNCHANGED <<g_ready, g_sleeping, fg_resume_sem>>

FgThread == FgWake \/ FgResume \/ FgSkip \/ FgProcess

-----------------------------------------------------------------------------
(* What the power manager's event handler calls.  The sensors are read     *)
(* over a bus, during which the thread may run; from idle_set to the flag  *)
(* it cannot.                                                              *)

(* The end of conexio_fuel_gauge_on_sleep_enter, of a gauge that is ready. *)
IdleSet ==
  /\ g_sleeping' = TRUE /\ strays' = 0
  /\ UNCHANGED <<g_ready, fg_resume_sem, fg>>

(* Mutant of SleepExit: the semaphore is defined with a limit of two. *)
SleepExitTwo ==
  IF g_ready
    THEN /\ g_sleeping' = FALSE
         /\ fg_resume_sem' = IF fg_resume_sem = 2 THEN 2 ELSE fg_resume_sem + 1
         /\ UNCHANGED <<g_ready, fg, strays>>
    ELSE UNCHANGED fuel

(* Mutant of SleepExit: the flag is left set. *)
SleepExitKeeps ==
  IF g_ready
    THEN /\ fg_resume_sem' = 1
         /\ UNCHANGED <<g_ready, g_sleeping, fg, strays>>
    ELSE UNCHANGED fuel

(* conexio_fuel_gauge_on_sleep_exit *)
SleepExit ==
  IF g_ready
    THEN /\ g_sleeping' = FALSE
         /\ fg_resume_sem' = 1
         /\ UNCHANGED <<g_ready, fg, strays>>
    ELSE UNCHANGED fuel

-----------------------------------------------------------------------------
(* fuel_gauge.h:24-26 asks for no call of process at all during a sleep.   *)
(* Two get through, and never more, however short the sleeps before it     *)
(* were: the sample that was under way when the modem fell asleep, and one *)
(* that a token left by a sleep the thread did not notice lets through.    *)
StrayBounded == strays <= 2
=============================================================================
