# Conexio Cloud SDK in TLA+

TLA+ modules, TLC configurations and TLAPS proofs for the Conexio Cloud SDK
(`src/`, C on Zephyr for the nRF91 modem): an MQTT client library that connects
a cellular device to AWS IoT, sends metrics, executes commands and schedules,
buffers telemetry in flash while it is offline, and updates the firmware; and
the sample that provisions a device for it.

The project follows the code, not its documents. Where they disagree, a run
shows the disagreement (section 5) or section 8 mentions it.

To check a run: `tlc -config <run>.cfg <module>`; to check the proofs of a
module: `tlapm <module>Proofs.tla`, for the eight of section 6.

## 1. The system

### Threads

| thread | what it runs |
|---|---|
| main / application | `conexio_cloud_init`, then any function of the public API, and the countdown of the location measurements |
| cloud thread (`cloud_thread_fn`, lowest application priority) | reconnect loop, poll, periodic publish, PSM disconnect, and, inside the MQTT library, the event handlers |
| system work queue (cooperative) | schedule watchdog, location publish |
| downloader thread | `fota_dl_handler` |
| fuel gauge thread | a reading of the battery every second |
| modem callbacks | LTE, PSM, sleep and location events, one at a time |
| any thread | a log entry |

There is no lock over the connection state. `mqtt_evt_handler` runs on
*whichever* thread is inside the MQTT library, in the middle of a connect, a
poll or a publish, and sleeps there; `sdk_internal_event_handler` and
`transport_on_message` run below it. This re-entrance, and the reset that can
come at any step, are the two hard things about the code.

### Components

*State* is what survives a call; *hard* is what a test would hardly reach;
*correct* is what the properties are about (in italics: no property).

| component (source) | state | operations | hard | correct |
|---|---|---|---|---|
| Offline buffer (`offline_buffer.c`, replay in `conexio_cloud.c:2700`) | three indices in RAM and in three NVS records; N entry records | init, push, peek, pop, clear, replay | every operation is several NVS writes; power cut or failed write between two | indices, count and content agree; replay in order; a bounded FIFO; it empties |
| ACK queue (`mqtt_transport.c:160-270`) | table of slots under a spinlock | queue, drain | the lock is dropped around the publish; several threads drain | no ACK is lost silently or published twice; retry limit; drains |
| Schedule watchdog (`conexio_cloud.c`, `sched_wdt_*`) | record and flag in RAM, two NVS records, timer, work item | arm, fire, boot check, cancel | timer against cancel against a new start; reset at each step; clock not set at boot | stop is dispatched, on time, not after a cancel, at most once more per reset |
| Startup (`conexio_cloud_init`, around it the samples' `main`) | which step it is at; the handlers registered so far; the watchdog | thirteen steps, six of which return early | events before their handler is registered; a failure before or after the watchdog is armed | a boot that failed is started again |
| Cloud session (`conexio_cloud.c`: loop and event handler) | status, semaphore, PSM flags | connect, publish, poll, disconnect, wait, reconnect | handler re-entered by a failure inside itself; a second thread | status is true; failures are counted and slept off; reconnects or reboots |
| MQTT transport (`mqtt_transport.c`) | client state, socket, `connected`, static payload buffer | connect, poll, publish, disconnect, event handler | one loss is reported by two paths | as session; commands run once per lost PUBACK |
| Retry and hardware watchdog (`retry.c`) | failure counter, watchdog channel | record failure or success, backoff, kick | counter bumped from two places | no failure missed; *backoff in range* |
| Incoming commands and settings (`transport_on_message`) | ring of identifiers seen, settings | PUBACK, answer, dedup, validUntil, dispatch, configuration | redelivery after a lost PUBACK; reset by the command itself; shared buffer | run once per lost PUBACK; ring forgets only its oldest; nothing skipped unrun |
| Metric queue and publish (`conexio_cloud.c`) | table of metrics under a mutex, sequence numbers | send_metric, publish, publish_single, periodic publish | several threads build payloads; a category fails halfway | a metric is in one place; one slot per name that fits; result is true; queue empties |
| FOTA (`fota.c`) | NVS pending record and installed version, RAM job, swap state of MCUboot | init, confirm, check, execute, download handler | reset between mark, record, reboot, confirm, report; repeated jobs; a flag that is read before it is set, on two threads | one update at a time; SUCCEEDED and FAILED are true; every record is reported |
| Log streaming (`log_stream.c`) | ring of entries under a spinlock | log backend put, drain | the drain lets the lock go after each entry; producers in any context; two threads drain | each entry is in one place, in order; only the oldest is dropped |
| Cellular location (`cell_location.c`) | measurement flag, countdown, work item | tick, advance, request, modem callback, publish work | the callback preempts the request that is about to set the flag | the flag is the modem's; measurements go on |
| Fuel gauge (`fuel_gauge.c`) | sampling thread, `g_sleeping`, `fg_resume_sem` | init, sample, sleep enter, sleep exit | a resume token left over from an earlier sleep | at most two samples while asleep; sampling resumes |
| Power manager, LTE (`power_mgr.c`, `lte.c`) | semaphores given by modem events | register, wait, PSM update, sleep and wake-up | a stale token; an event before the handler or the wait | through the startup, the gauge and the locations |
| Configuration fetch (`config_fetch.c`) | cached configuration | fetch at init | one early return of the startup | *cache is what was fetched* |
| HTTP transport (`http_transport.c`) | token, sequence | request/response instead of a session | config ACK always reports success | *an ACK means a delivery* |
| Certificates (`cert_store.c`) | credential slots of the modem | check, write the root | | through the startup |
| Fleet provisioning sample (`main.c`, `provision.c`, `cert_store.c`) | `prov/done` and `prov/forced` in flash; certificate and key in the modem; the registry of the server | decide at boot, force a new identity, make a key, exchange in two phases, store, operate, REBOOT | records in three places written apart; a key made before the network is known; reset at any step | what flash vouches for is a pair the server knows; it is kept; forced once; gets online |
| Reboot counter, settings, calendar | one NVS counter; interval; none | boot, set, convert | a boot counter shares the partition with other stores | *conversion equals its reference* |
| Other samples | none | | the main loop that drives the location measurements | through cellular location |

### How they interact

```
 application --send_metric--> metric queue --build--> publish --> transport --> broker
     |                                                 |  fails offline
     |                                                 v
     |                                          offline buffer --replay on CONNACK--> transport
 broker --> transport_poll --> PUBACK --> ACK queue <-- answer
                    \--> transport_on_message --> dispatch --> application / settings
                                   |                \--> FOTA execute --> downloader --> reset --> MCUboot
                                   \--> schedule watchdog (arm, cancel) --> timer --> work queue --> dispatch
 every loss or failure --> event handler --> retry counter --> backoff sleep or reboot
 modem --registration--> LTE wait    --PSM update--> PSM decision of the startup
       --sleep, wake-up--> power manager --> fuel gauge thread
       --measurement--> cell location --> metric queue, work queue --> publish of one topic
 any thread --log--> log ring --drained by a publish--> transport
```

The order of the startup matters to four models: modem library, reboot counter,
battery and fuel gauge, IMEI, certificates, `retry_init` (which arms the
watchdog), `offline_buffer_init`, built-in handlers, LTE connect and the wait for
it, wait for the clock, schedule boot check, configuration fetch, transport, power
manager and the wait for a PSM decision, `fota_init` and `fota_confirm`, cloud
thread. `Startup` has these steps one by one; `OfflineBuffer`, `ScheduleWatchdog`
and `Fota` begin at their own.

## 2. Modules and the code

Each definition has an entry under `map` in `PROJECT.json` that names its
lines; definitions carry the names of the code where they can. A definition
whose comment begins "Mutant of" is the form a plausible bug would give the one
next to it; no specification uses it.

| module | models | state in the code |
|---|---|---|
| `OfflineBuffer` | `offline_buffer.c` and the replay loop | `g_write_idx`, `g_read_idx`, `g_count`; `nvs` and `entries` are the records in flash; `pc` is the next NVS write |
| `BoundedFifo` | what `offline_buffer.h` promises | no counterpart; `OfflineBuffer` refines it |
| `AckQueue` | `transport_queue_ack`, `transport_drain_ack_queue` | `g_ack_queue[i].used/.payload/.retries`; per thread `i` and the local copy |
| `ScheduleWatchdog` | `sched_wdt_*`, `sched_watchdog_boot_check`, `conexio_cloud_cancel_schedule_watchdog` | `g_sched_wdt`, its active flag, timer, work item, NVS records |
| `CloudSession` | `cloud_thread_fn`, `sdk_internal_event_handler`, `transport_connect/poll/disconnect`, `mqtt_evt_handler` (connection events), `retry.c`, `conexio_cloud_connect`, `_disconnect`, `_wait_connected` | `connected`, client state, socket, `g_sdk_status`, `g_connected_sem`, `g_failure_count`, PSM flags |
| `Fota` | `fota.c` and `builtin_on_firmware_update`, with MCUboot around them | NVS 0x0007 and 0x0008, `g_current_job_id` and others; per thread that polls where its handler is (`at`, `doc`); `url` is what the two static buffers hold; MCUboot's slots are external |
| `Telemetry` | `conexio_cloud_send_metric*`, `conexio_cloud_publish`, `publish_single`, periodic publish | `metric_queue[]`; per thread the category, `overall` and the payload |
| `LogStream` | `log_stream.c` | `g_ring`, `g_head`, `g_tail`, `g_count`; per thread the JSON array |
| `Commands` | the PUBLISH case of `mqtt_evt_handler`, `transport_on_message` | `s_seen_ids`, `s_seen_head`, `payload_buf`; broker and answers abstracted |
| `Mailbox` | what the cloud may count on when it sends a command | no counterpart; `Commands` refines it |
| `Startup` | `conexio_cloud_init`, `conexio_lte_connect`, the handlers of `lte.c` and `power_mgr.c`, the watchdog of `retry.c` | `boot` is the step; `lte_ready_sem`, `psm_grant_sem`, `g_psm_decision_received`; the modem is registered or not, asleep or not |
| `FuelGauge` | `fuel_gauge.c` | `g_ready`, `g_sleeping`, `fg_resume_sem`; `fg` is where the thread is |
| `CellLocation` | `cell_location.c` | `g_measurement_active`, `g_tick_counter`; `app` is where main is |
| `FleetProvisioning` | `samples/fleet_provisioning/src` | `prov/done`, `prov/forced`; the credential slots; the static flags of `main.c`; `s_state`; `pc` is where main is |
| `OfflineBufferProofs`, `AckQueueProofs`, `ScheduleWatchdogProofs`, `CloudSessionProofs`, `CommandsProofs`, `TelemetryProofs`, `FleetProvisioningProofs`, `BootProofs` | theorems about their components | |
| `MC*` | constants of the small instances | |

Granularity. What runs under one mutex or spinlock, or in one NVS write, is one
step. A sleep, a network call, an NVS write or a lock release ends a step. In
`OfflineBuffer`, `ScheduleWatchdog`, `Fota`, `Commands` and `FleetProvisioning` a
reset can come at any step boundary (in `OfflineBuffer` one inside an operation
counts as a fault); it clears RAM and keeps flash, and the credentials of the
modem. In `Startup` it is the watchdog that resets.

Composition. `CloudSession` contains the transport, the retry counter and the
loop, because the handler nests all three on one stack: each thread's `stack`
holds what it has still to do, the top first. `Telemetry` extends `LogStream`: the fourth category
of a publish drains the ring while others log. `Startup` extends `FuelGauge` and
`CellLocation`: the three meet in the events of one modem, from the step of the
startup that starts each. `Commands` abstracts the ACK queue to a set, and
`AckQueue` supplies the detail. `Telemetry` and `OfflineBuffer` meet at the push, a
payload becoming a number; their product is too large to check. `Fota` and `Startup`
share no state and no names (`FotaInit`, `FotaNext`, `slots`), so that `BootProofs` can
extend both.

Data. Payloads, acknowledgements, metrics, log entries and schedules are numbers,
in the order in which they were made; a firmware image is its version; a
certificate is whether it belongs to the key that is there; identifiers are model
values. JSON, CBOR, topics and TLS have no property and are left out.

## 3. Runs

| run | constants | distinct states | what it shows |
|---|---|---|---|
| `OfflineBufferRing` | N=4, Batch=2, 5 pushes, 1 fault | 59 191 | up to the first fault the ring is consistent, replays in order and is a `BoundedFifo`; after it indices stay in range and drift by at most one, unless it hit a clear; a replay ends; every payload leaves |
| `AckQueueOne` | 1 thread, depth 2, 2 attempts, 3 ACKs | 3 270 | nothing lost silently, nothing published twice, retry limit kept, queue drains |
| `Watchdog` | 2 schedules, instants 0..2, 2 resets, epoch 2 | 620 488 | RAM, flash and timer agree and no armed schedule is dropped; stop on time, not after a cancel that has reached flash, at most once more per reset, and eventually |
| `Session` | the application publishes, connects, disconnects and waits; 3 attempts; both handler failures | 158 821 | the device reconnects or reboots; while only the background thread uses the connection, status is true, every failure counted and slept off |
| `Fota` | 1 application thread, 4 jobs, 3 commands, 2 resets, 1 fault | 649 823 | until two steps cross: one update at a time; record settled when read; lost only with the device id, and erased only after the report; SUCCEEDED and FAILED true; every record reported |
| `Telemetry` | 2 publishers, 3 names, one of them too long, 2 slots, a log ring of 2; 3 sends or log entries | 149 294 | a metric and a log entry are in one place; one slot per name that fits; the ring drops its oldest; the result is true; the queue empties |
| `Commands` | 4 commands (one a nameless REBOOT), 1 configuration, 2 slots, 1 fault | 302 020 | ring forgets only its oldest; repetition only for a lost PUBACK; every message accounted for; the whole is a `Mailbox` |
| `Provisioning` | 2 attempts, 2 faults, 2 refusals, 1 reset, 1 command | 322 352 | what flash vouches for is true; the identity is kept, and forced once; a command runs once; the device gets online |
| `Startup` | interval 3, steps of 1 or 2 seconds | 17 396 | a boot that failed is restarted; at most two samples in a sleep, and sampling resumes; measurements go on |
| `AckQueueLost`, `FotaReady`, `WatchdogStale` | | | section 5 |

Why the bounds are enough for what is asked:

- `OfflineBuffer`: four slots and five pushes fill the ring, evict, and wrap
  both indices; a batch of two leaves a rest for the next connection. One fault
  can hit each of the writes. Four slots are the least with which indices can be out
  of step by more than one: with three, a drift of two is one of one the other way,
  and `DriftBounded` would forbid nothing. The proofs remove the bounds.
- `AckQueue`: depth 2 with three ACKs has a full table, a refusal, and a slot
  used again; two attempts separate the first failure from the last.
- `ScheduleWatchdog`: two schedules let one replace the other while the timer,
  the work item or the clearing of the first is under way. Two resets, at any steps:
  one can leave a record behind and the other cut off the next arm, which is what
  `NoDuplicateStop` needs. Epoch 2 keeps the times an unset clock reads apart
  from real ones.
- `CloudSession`: three attempts let the counter be cleared in between, reach
  the limit, and be counted twice. There is no other bound; the graph is complete.
  The history is forgotten once `alone` no longer holds, since nothing asks for
  it then.
- `Fota`: three different versions, one of them the factory's, let an update, a
  downgrade and a repeated job follow each other; two resets are what a swap
  and its revert need. One application thread is the least that can handle a command
  beside the cloud thread, and make a session without a check. `FotaReady` needs none.
- `Telemetry`: with fewer slots than names a send is refused; two publishers
  are the least that can build at the same time. Three sends reuse a freed slot
  before the one that holds the name, or put a name that is cut into two slots; three entries overflow a ring of two. Sends
  and entries share a bound (`MaxInputs`), because they share no state: a mixture of
  two and one covers a drain between two builds.
- `Commands`: one more named command than the ring has slots, so it forgets;
  one fault loses a PUBACK or a message at every step.
- `FleetProvisioning`: a fault is one failing access, of one of ten kinds, each of
  which fails at most once; two of them let a flag that could not be loaded meet a
  key that could not be deleted. Two refusals and two attempts
  exhaust a session once. One reset hits each step, and the forced identity and the
  REBOOT add resets of their own.
- `Startup` has no bound but the interval: three seconds, with steps of one and of
  two, reach it exactly and pass it.

Only a symmetric permutation could shrink these further; none is used, because
most runs check liveness.

Deadlock checking is off where a bound ends behaviour (`ScheduleWatchdog`,
`Fota`, `Telemetry`, `Commands`, `FleetProvisioning`): when all schedules,
commands or metrics are used up and the environment stops, so does the model. In
`FleetProvisioning` and `Startup` the program itself stops: `main` returns after a
failure it does not recover from. Deadlock checking is on for the offline buffer,
the ACK queue and the session.

### History variables and the conditions they carry

Some properties hold only while something has not happened yet, and say so:

- `faults = 0` (`OfflineBuffer`, `Fota`): no failed NVS write and no power cut
  inside a buffer operation; no failed report and no failed confirmation. Other
  resets are always allowed.
  `DriftBounded`, `TypeOK`, `ReplayEnds`, `SuccessIsInstalled`, `FailureIsReal` and
  `RecordKeptWithId` do not ask for it, so the run has faults in it.
- `torn` (`OfflineBuffer`): how many of the faults hit a clear. `DriftBounded` asks
  that none did.
- `crossed` (`Fota`): nothing keeps a command handler on one thread and the check, or a
  second handler, on another apart. `crossed` becomes true when a command comes before
  the check of a record (in a session whose check is still to come, or that the
  application made and that has none), in the middle of the check, while another handler
  is between its look at `g_fota_active` and the setting of it, or between the end of a
  failed download and its report; and when the check reads a record while a handler is
  at that place. All of it happens in the run; the properties speak of what has not
  crossed, and section 8 says what a crossing does. Each of the alternatives is needed
  but the one of a check that meets the report of a failed download.
- `bypassed` (`Fota`): the session is one that `conexio_cloud_connect` made. There is no
  check in it, so `RecordIsReported` asks that the application does not hold sessions
  of its own for ever.
- `Cut` (`Telemetry`): what names of 32 characters or more are stored as.
  `OneSlotPerName` speaks of the other names.
- `calm` (`ScheduleWatchdog`): the cloud thread has not armed or cancelled
  while the work item was pending, and the clock was set at each boot. The work
  queue is cooperative and runs before the cloud thread, so this is the normal
  case; an item that blocks ends it. `FiredOncePerReset` does not ask for it.
- `alone` (`CloudSession`): no application thread has published, connected or
  disconnected since the boot and no subscribe has failed. `RecoversOrReboots` does
  not ask for it.
- `faults`, `cut` (`FleetProvisioning`): which kinds of access to flash and slots
  have failed, and whether a reset came in the middle of the three steps of a
  forced identity. Each property names the kinds that are its exceptions, and no
  others: a failed load or erase of the flag (`FlagIsTrue`, `GetsOnline`), a flag or
  a slot that could not be read (`IdentityKept`), a record that could not be saved
  or loaded (`FiresOnce`).
- `early` (`CellLocation`): a result came before the flag of its measurement was
  set; `FlagIsTheModems` and `MeasuresOn` exclude it.

`erased` and `gone` (`ScheduleWatchdog`) are the schedules whose record a cancel or a later arm
has overwritten in flash, and those that were cancelled.

The remaining history variables only count: `fired`, `sent` and `ran`
(`FleetProvisioning`), `strays` (`FuelGauge`), `logged` (`LogStream`).

Without these conditions the properties are false; section 8 says how.

Two assumptions about flash have no variable:

- Writes that the code does not look at succeed: the four of `sched_wdt_nvs_save` and
  `sched_wdt_nvs_clear` (`conexio_cloud.c:768`, `:769`, `:785`, `:788`), the mount and
  the write of `fota_pending_save` (`fota.c:142`, `:148`), the write of the installed
  version and the deletion of the record. Each of them that failed would lose, or keep,
  a record without a trace: a stop that is not dispatched after a reset, one that is
  dispatched although it was cancelled, an update that is never reported.
  `OfflineBuffer`, whose code looks at the result, has failing writes.
- Records of different modules do not disturb each other, although three `nvs_fs`
  share the partition (section 8).

### Fairness

Every liveness property states its own. What the code justifies, and no more:

- A thread that has begun a straight-line operation goes on (WF on `ThreadStep`,
  `DrainStep`, `PublishStep`, `Handler`, `Arm`, `Cancel`, `CloudStep`,
  `AppStep`): Zephyr's scheduler runs ready threads, every sleep is finite, and
  every network call has a timeout.
- The device boots again after a reset (WF or SF on `Boot`): hardware.
- Time passes and the timer expires (WF on `Tick`, `TimerExpiry`): the kernel.
- The network comes back again and again, though not for ever (SF on `Connect`,
  `ReplayBegin`; WF on `Reconnect`): the loop retries without end. In `Fota` an
  application may be faster than the loop every other time, hence SF there too; nothing
  is asked of its sessions, or of the handlers of commands. A replay
  that is tried again and again takes a payload at some time, sent or too old (SF on
  `ReplayPublish \/ ReplayDiscard` and on `PopRead`), which is the least under
  which a buffer can empty. `AckQueue`
  needs no such assumption about publishing, because it gives up.
- A thread polls again while it is connected (SF on `DrainStart`,
  `PeriodicPublish`): the loop does so in every round.
- `RecoversOrReboots` assumes nothing about the network: an attempt either
  succeeds or is counted, and enough of those reboot.
- `FleetProvisioning`: `main` is one thread and every wait of it has a timeout (WF on
  `Boot`, `Provision`, `Operate`). A network that refuses for ever is excluded by the
  bound on refusals.
- `Startup`: the threads run, every wait ends, and a watchdog that nobody feeds
  fires (WF on `Boot`, `WdtFires`, `EnterSleep`, the fuel gauge and location
  threads). The modem answers a request for a measurement: the answer is in
  the queue of the handlers, where other events delay it but do not keep it away (SF
  on `CellMeasured`). Nothing is asked of the network.

## 4. Properties

Each is stated in its module, with the sentence of the documentation or the
code it is about. `Consistent` in a module (`FotaConsistent` in `Fota`) is the
conjunction of its type invariant and of what two or more parts of its state must agree
on (`RingConsistent`; `StatusAgrees`;
`OnePlace`, `RingIsNewest` and `EntriesOnce`; `FlagIsTrue`; `FlagIsTheModems`; the
records of `Fota`, the ring of `Commands`, the timer and flash of
`ScheduleWatchdog`). `LossesCounted` and `ReportsAreTrue` join the properties that
say one thing of several causes. In the modules each conjunct keeps its own name and
comment. The ones that were hardest to get right:

- `ImplementsFifo`: flash, seen through the refinement mapping `FifoQueue`, is
  a bounded FIFO, power cuts between operations and mount failures included.
  The linearisation points are the entry write (push), the read index
  (evict, pop) and the first index of a clear; nothing but a clear may empty
  the FIFO at once.
- `NoSilentLoss` relates the slots, what was published and the attempts of each
  acknowledgement across a lock that is dropped in between.
- `NeverDropped` (in `Consistent` of `ScheduleWatchdog`): the safety half of
  `ArmedStops`, at every step rather than between operations: a schedule that was armed
  is in flash until its stop was dispatched, or it was cancelled or replaced.
- `CancelledStaysQuiet` and `ArmedStops` are two sides of one design: a cancel
  must reach flash before it counts, and what has reached flash must come back
  after each reset. `CancelledStaysQuiet` speaks of schedules whose *record* is out
  of flash. That the cleared flag is enough, as the code has it, is `NoDuplicateStop`,
  which two resets break (section 5).
- `DriftBounded`: the indices are never repaired after a fault, so what bounds the
  damage is that every operation moves two of them by one.
- `LossesCounted` and `LossIsReal` relate the counter and the reports of a
  loss to the losses themselves; the code reports one loss on two paths.
- `ReportsAreTrue` (`SuccessIsInstalled`, `FailureIsReal`, `ReportedBeforeErased`) and
  `RecordIsReported`: a record written by one image and read by another, or by the same
  one after a revert. A record may be erased, or overwritten by that of another job, only
  after its own job was reported. The hard part is to say no more than the code keeps:
  they hold until two steps cross (`crossed`), and an earlier form, in which commands
  came after the check only, was false of the code.
- `OneUpdate` (in `FotaConsistent`): the comment on the two static buffers
  (`conexio_cloud.c:1344`) as an invariant of two threads that poll, a flag, and the job
  in RAM.
- `OneSlotPerName`: what is stored is cut to 31 characters and compared with the whole
  name, so the promise of the header holds for names that fit only, and not for one that
  is what a longer name is cut to.
- `OnePlace`: builders in two threads and a mutex that is released between the
  look and the build.
- `RingIsNewest`, `EntriesOnce`: the same for the log ring, whose lock is released
  after each entry.
- `RunAgainOnlyIfUnacked` and `MessageHandled`: at-least-once at the broker,
  a forgetful ring at the device, and a command that resets the device.
- `ImplementsMailbox`: seen through the mapping `Owed` (what the broker would send again,
  and what a thread has acknowledged and not yet dispatched), the device is a mailbox
  in which a message runs, is given up, or is ignored because it was answered before, and
  in which only lost acknowledgements make one owed again. The linearisation points are
  the dispatch, the return of a message that is not run, and the faults; reading a
  message and acknowledging it move it from one half of `Owed` to the other.
- `RecordKeptWithId` (in `FotaConsistent`): as long as flash works and no steps cross,
  the finding `FotaReady` is the only way to lose a record.
- `FlagIsTrue`, `IdentityKept`: flash, the modem and the server hold one third of an
  identity each, written in an order that must be right wherever it is cut off.
- `GetsOnline`: after every refusal and at whatever step the power failed, the next
  attempt replaces the key, and so has to drop the certificate too.
- `StrayBounded`, `SamplingResumes`: a flag and a semaphore that holds one token say the
  same thing; a sleep that ends before the thread has suspended leaves the token
  behind, for the next sleep.
- `FailedBootRestarts`: which early returns come after the watchdog is armed.

## 5. Findings

Runs with `expect: violation` check one sentence of the documentation each:

| run | sentence | what the code does |
|---|---|---|
| `AckQueueLost` | "called from the SDK background thread" (`mqtt_transport.c:36`) and "retries delivery ... until acknowledged" (`transport.h:88`) | `conexio_cloud_publish` polls on the caller's thread. Two drains take the same slot; the slower one frees what was queued in it since |
| `FotaReady` | "Reset so the module is ready for a new job" (`fota.c:619`) | the device id is cleared as well; the next update of that boot leaves no record and is never reported |
| `WatchdogStale` | "this prevents the watchdog from dispatching a duplicate stop command later" (`conexio_cloud.h:618`), "Overwrite record with zeros to remove stale data" (`conexio_cloud.c:786`) | a cancel cut off between its two writes leaves the record, with the flag cleared; the next arm, cut off between its two, sets the flag over that record; the next boot dispatches the stop that was cancelled |

## 6. Proofs

TLAPS checks these for every value of the constants that satisfies the named
assumptions of the modules: sizes and limits are natural numbers, positive where the
Kconfig range says so; sets of commands, names, publishers and jobs are arbitrary,
finite or not, with the inclusions that their meaning gives. TLC evaluates every
assumption in the runs. Five results need one more hypothesis, `OnePoller` (no two
threads poll), and state it: `LossFree` and `NoDoublePublish` of the ACK queue, for which
`AckQueueLost` shows that it is needed, and `RunOncePerLoss`, `NoneForgotten` and
`RefinesMailbox` of the commands, where a second poller overwrites the payload buffer
(section 8).

An invariant is proved by an inductive one, a conjunction of named parts: a part has a
lemma that says how a step keeps it (`...Step`), and a theorem joins them. TLC has
checked each inductive invariant on the small instances.

`OfflineBufferProofs`

- `TypeCorrect`: the indices stay in range, so the range checks in
  `offline_buffer_init` never act. `TypeOK` is inductive; `SuccSlot` is the lemma
  about the wrapping index.
- `RingCorrect`: `RingConsistent` says of each control point which of the three
  indices RAM and flash already agree on, and that the window holds the newest
  payloads in order. It is not inductive: inside `offline_buffer_clear` RAM is
  already zero while flash is not. `RingInv` adds that (`ClearState`). The modular
  arithmetic is in the lemmas `RingDrop` (eviction and pop), `RingStore` (push),
  `RingHead` (the oldest payload) and `RingEmpty`. Only steps that leave
  `faults = 0` need them.
- `SoundRing` joins the two (`Consistent`).
- `ReplayOrder`: from `RingInv`, because the payload a replay sends is the head
  of the window and what was sent last is not newer.
- `DriftStaysBounded`: for any number of faults. What is conserved is a sum:
  `OutOfStep` splits what the faults have done into four distances, that of the RAM
  indices from each other and those of the three records from RAM, whose sizes sum up
  to no more than the faults; a restart adds the last three to the first. A step moves
  at most one of the four, a fault by one (`MultipleSum` and `MultipleOf` do the modular
  arithmetic). A fault in a clear is the exception, hence `torn`.
- `ImplementsBoundedFifo`: the refinement. `FifoQueue` is the window
  `Window(entries, read_idx, length)` of flash; `WindowTail`, `WindowAppend` and
  `WindowEmpty` say what an eviction or pop, a push and a clear make of it, and
  `FifoSteps` takes each step of the buffer to a step of the FIFO or a stutter. Beyond
  `RingConsistent` it needs `PopInv`: between the two writes of a pop flash still
  counts the entry.

`AckQueueProofs`

- `TypeCorrect`, `AttemptsLeft`, and `SoundTable`, which joins them (`Consistent`):
  for any number of polling threads, from `Shared`: types, that a slot in use is
  filled, and that a thread past its snapshot has a slot and an acknowledgement.
  `AttemptLeft` is inductive with these even when two threads charge the same slot,
  because the slot is freed under the lock that counts.
- `LossFree`, `NoDoublePublish`: under `OnePoller`, from `Shared /\ Ledger`.
  `Ledger` says that the acknowledgements in slots are different and older than
  the next (`Numbering`), that the slot a thread works on still holds its
  snapshot (`Holding`, the part that two pollers break), and that retries and
  failures agree (`Charged`).

`ScheduleWatchdogProofs`, for any number of schedules, instants and resets:

- `OncePerReset`, without `calm`: `FiredOncePerReset` is inductive with `Budget`. What
  the work queue may still dispatch has been dispatched at most once per reset, and
  what it has dispatched is zeroed in RAM before it looks again.
- `WatchdogAgrees`, `StopOnTime`, `StaysQuiet`, from `CalmInv`. `OneAtATime`: where the
  work item can come between two steps of the cloud thread; `FlashFollows`: what flash
  and RAM agree on at each step of arming and cancelling; `TimerTrue`: the timer expires
  at the stop time, not before; `ErasedIsNowhere`: an erased schedule is neither armed
  nor in flash nor being armed; `ClearsItsOwn`: what a thread is about
  to clear in flash was dispatched or is what it cancels, which `NeverDropped` needs.
  `StaysQuiet` is an action property. Its first
  form, over all cancelled schedules, could not be proved, and is false with two resets:
  that is `NoDuplicateStop` and its finding.

`CloudSessionProofs`, for any limit of attempts, any calls and any failures in the
handler:

- `SessionConsistent`, `LossesAreCounted`, `LossesAreReal`, from `SessionInv`. Its first
  half holds whatever the threads do: `Shallow` gives each step a height above the
  bottom of the stack that it cannot pass (`Nests` says it of a single step), hence no
  recursion of the event handler into itself; `Looping`: a round of the loop is at the
  bottom of the cloud thread's stack; `CountBound`: a thread that has counted up to the
  limit reboots and counts no more. The second half is about the cloud thread while it is
  `alone`: `Nested` lists what can be below each step, `Linked` says where the
  connection is up or down, `Intended` and `Ended` how it was lost, and `Answered` that a
  loss not yet counted is on the stack to be. `Turns` says what a step makes of the
  stack, `CatIs` and its kin what short stacks are put together.

`CommandsProofs`, for any messages, ring and number of faults:

- `NoRepeatWithinRing`, for any number of pollers: `RingIsLog` says that the slot written
  k identifiers ago holds the k-th last entry of the log; that no command repeats within
  the ring follows, since a repetition would have been found.
- `RunOncePerLoss`, under `OnePoller`: `Paid` charges each run to a PUBACK. A message the
  broker still has lost one for each time it ran, and one about to run has one to spare.
  `InHand` (the buffer still holds the message of the event) is what two pollers break.
- `NoneForgotten`, under `OnePoller`: the safety half of `MessageHandled`, as
  `NothingForgotten`. It needs `SeenIsAnswered`: an identifier is in the ring only when
  its command has run or expired.
- `RefinesMailbox`, under `OnePoller`: the refinement. `OnMessageAnswers` takes each way
  out of `transport_on_message` to `Run`, `GiveUp`, `Ignore` or a stutter: `Paid` is the
  guard of `Run`, `SeenIsAnswered` that of `Ignore`. `AcknowledgeOwes` takes a PUBACK to
  a stutter when it is written and to `Fail` when it is not, and `CutFails` the end of a
  connection or of power. It needs `Titles` besides: the broker still stores what a
  PUBACK is for; a thread that handles no message holds none; a REBOOT that waits
  for its reset has run, so that the reset does not cut it off.

`TelemetryProofs`, for any publishers, names, queue and ring:

- `SuccessIsTrue`: from `ResultTrue`, the same said of calls that have not ended.
- `NamesOnce`: `OneSlotPerName` is inductive; a send takes the slot of its name, if there
  is one, under the mutex that looks for it (`SlotChosen`). For any function from names to
  what is stored of them that leaves what it has cut as it is.
- `OnePlaceEach` (`Consistent`): `Located` says of each metric that is held where it is, in
  a slot or in the payload of one thread. `RingLinear` says that the ring is a window of
  what was logged, from which `RingIsNewest` follows (`LinearIsNewest`); `EntriesOnce`
  uses it.

`FleetProvisioningProofs`, for any number of faults, refusals, resets and commands:

- `FlagVouches` (`Consistent`), `HatchFiresOnce`, `RebootsOnce`, `IdentityStays` (an action
  property), from one invariant. `Vouched`: without a failed load or erase, RAM and flash
  agree on the flag, and no key is made while it is set. `Exchanged`: the server
  registers the device before it says so, and the exchange is done only when the
  certificate is in its slot. `Recognised`: a good identity that `main` has looked at is one
  it does not replace. `HatchShut`: once the hatch has fired flash says so, or is
  about to. `Commanded`: what the broker holds was sent and has not run.

`BootProofs`, about the two components that start anew with every boot. `Startup`, for
any interval and any number of boots:

- `StraysAreTwo`: from `StraysCounted`. The samples a sleep has seen, and those
  it may still see (one under way, one for a token), are two at most.
- `FlagAgrees` (`Consistent`): from `Asking`, which says for each place of `main` how the
  flag and the modem may differ, and why.

`Fota`, for any threads, jobs and versions and any number of commands, resets and faults,
from one invariant `FotaInv`. Its first half, `Sound`, holds whatever crosses: `Whole`
(where a downloader is at work the image is there, and a mark outlives it only until the
next boot) and `VersionKnown` (once init has got through, NVS has the version of confirmed
firmware). The second, `Orderly`, holds until something has crossed. `Alone`: who can be
where beside whom; it is what the flag that is read before it is set, the order of check and
poll, and the histories come to. `OfOneJob`: the buffers, the downloaded and the marked
image, and the job in RAM are of one job; `RecordOfJob`: record and job name the same
version; `Kept`, `RecordSettles` and `Told` below. `LetInAlone`, `CheckAlone` and
`HandlerAlone` say what it means that a step has not crossed.

- `RecordsAreSettled` (`FotaConsistent`): as long as nothing has failed, the image of a
  record goes through the places that `RecordSettles` lists (marked, swapped in and
  unconfirmed, confirmed, undone), and the check comes too late to meet the first two.
  `Unasked` says that no command has been let in while a record waits for its check.
- `ReportsHold` (`ReportsAreTrue`, an action property): `ReportedBy` lists the steps that
  report a job, and `RecordSaysSo` and `VersionKnown` tell what runs then. For
  `ReportedBeforeErased` the invariant has the part `Told`: where the cloud thread is about
  to erase a record, the job has been reported unless a publish failed; that a record is
  not overwritten by another job's is in `RecordSettles`.
- `KeptWithDeviceId` (`RecordKeptWithId`), on which `RecordsAreSettled` rests.

Every safety invariant and every action property that a passing run checks is proved
here. Only model-checked is what is temporal beyond an action property, the liveness
properties (`ReplayEnds`, `EventuallyLeaves`, `QueueDrains`, `ArmedStops`,
`RecoversOrReboots`, `RecordIsReported`, `MessageHandled`, `QueueEmpties`, `GetsOnline`,
`MeasuresOn`, `SamplingResumes`, `FailedBootRestarts`), and the three violations of
section 5. Out of the prover's reach are liveness under fairness, `ENABLED`, and induction
over data; no module declares a RECURSIVE operator, so that each can have theorems.

Three proofs were findings about the project itself: the two resets of
`NoDuplicateStop`, beyond the bound of the run there was; a `DriftBounded` that
with three slots held whatever the code did, and with four was false for a clear that is
cut off; and the record of `Fota`, which no step of the proof needed to be
written before a reset, so that the model no longer counts a reset between the mark and
its record as a fault.

## 7. Not modelled

| part | why |
|---|---|
| JSON and CBOR encoding, topics, TLS setup, the payload of the provisioning sample | formatting and plain I/O |
| `nvs` and the settings store themselves, modem, MQTT library, MCUboot, downloader | external; modelled from how the code uses them |
| HTTP transport | an alternative chosen at build time that keeps no connection; of its state only a token is left, and none of the orders that make the MQTT path hard |
| values of settings and the publish interval, reboot counter and reason, readings of battery and modem, sequence numbers | data that no decision in the models depends on |
| calendar conversion, backoff formula | pure functions of one argument, which a table of test vectors would cover; the models take instants and sleeps as such |
| level filter, panic flag and `log_stream_clear` of the log stream | what passes is logged; after a panic nothing is; nothing calls the last |
| the cache of the configuration | never hit: `conexio_cloud_init` is the only caller of `config_fetch` |
| `conexio_cloud_publish_alert` | builds and sends at once and keeps no state |
| `power_mgr_wake`, `power_mgr_is_psm_active`, `cert_store_write_device_creds` | nothing calls them |
| eDRX, the LTE session metrics | requested once; read only |
| telemetry of the provisioning sample and its interval | nothing of the identity depends on them |
| two threads in `transport_poll` while commands arrive | `Commands` takes one thread, what happens with two is in section 8; `Fota` takes several, for FIRMWARE_UPDATE, and `AckQueue` for the drain; in `ScheduleWatchdog` the cloud thread alone arms |
| flash writes that fail unnoticed, and three file systems on one partition | assumed away, as section 3 says; section 8 |
| other samples | applications of the SDK without logic of their own |

## 8. Deviations seen while modelling

Besides the findings, which have runs:

*Schedule watchdog.* The start command is dispatched before `sched_wdt_arm`
writes the record, so a reset in between leaves the output on without a stop
(`samples/device_schedules/README.md:9`: "never silently dropped"). Without `calm`: a
cancel that overlaps a blocked work item can stop early, lose the stop of the
next schedule, or dispatch a stale one. A stop command that is REBOOT is
dispatched before its record is cleared. The writes of the flag and of the record come
in the same order for setting and for clearing, which is what `WatchdogStale` shows.

*Session.* A refused connection is counted by the DISCONNECT event
(`conexio_cloud.c:1171`) and once more when the connect returns (`:2842`), so
the device reboots after half the attempts (`Kconfig:800`). With an application
thread that uses the connection, status and connection can disagree, a PSM sleep can
follow a real loss, and a reconnection can happen without a sleep.
`conexio_cloud_wait_connected` takes the token an earlier connection has left and
returns 0 while the device is offline (`conexio_cloud.c:356` against
`conexio_cloud.h:486`, "0 when connected"). `conexio_cloud_disconnect` is counted as a
failure, backs off on the caller's thread, and the background thread dials again;
`conexio_cloud_connect` on a live connection sets the client up anew under it.

*Telemetry.* The metrics of a category leave the queue when the payload is built; a
publish that is refused afterwards loses them (`conexio_cloud.c:3692` against `:3521`,
"metrics remain in the queue for the next attempt"), and the values that are sent once
per boot count as sent. Log entries alone do not cause a periodic publish. A name of 32
characters or more is stored cut to 31 (`conexio_cloud.c:3457`, `:3484`, `:3506`) and
looked for in full (`:3442`, `:3479`, `:3502`): every send takes another slot, until the
queue is full, and a payload carries all the values, those of another name with the same
beginning among them. `conexio_cloud.h:309` ("Overwrites if same name already queued") and
`conexio_cloud.c:3430` name no limit.

*Offline buffer.* `offline_buffer_clear`, which nothing calls, zeroes RAM and then the
three records: one that is cut off, or whose write fails, leaves indices out of step by
any amount, and the next boot brings entries back that were cleared. A failed entry write puts an older payload behind a newer
one. A pop that is cut off replays its payload. Nothing is buffered while
`transport_connect` fails, since the loop does not reach the publish. A replay
that is limited by its batch lets live telemetry overtake the rest.

*ACK queue.* A slot is freed when the socket took the bytes, not when the
broker acknowledged them.

*Commands.* The answer to a command is only queued, and goes out at the end of the
poll that runs the command: the answer to a REBOOT is never sent
(`mqtt_transport.c:464`, "give the MQTT stack time to transmit the PUBACK and
dashboard ACK before the command handler runs"). With two pollers the static payload buffer can be overwritten
during the 200 ms sleep: the first message is acknowledged and answered
"executed" but not run, and the second is applied twice. The answer says
"executed" for expired, duplicate and unknown commands too, before they are
looked at (`MQTT_ARCHITECTURE.md:376`). A reset or an empty heap between PUBACK
and dispatch loses the message. Configurations are not deduplicated: an older
one that is redelivered overrides a newer.

*Flash.* `offline_buffer.c:57`, `conexio_cloud.c:577` and `fota.c:110` each have an
`nvs_fs` of their own and mount it on the same partition. Each keeps its own place for
the next write and its own state of the garbage collection, so what one writes after the
others have mounted lies where they will write; the comment at `fota.c:125` asks for the
same number of sectors only. The models give each record the flash of its own that the
code takes for granted.

*FOTA.* Nothing keeps `fota_check_and_execute` on the cloud thread and a
FIRMWARE_UPDATE on an application's thread apart. `g_connected_sem` is given in the CONNACK
handler (`conexio_cloud.c:1786`), before the check (`:2865`), and
`conexio_cloud_publish` polls on its caller's thread (`:3710`): an update can start
before the record of the last one was looked at. Then the check returns
(`fota.c:582`) and `fota_pending_save` (`:282`) overwrites the record, which is never
reported. A session made by `conexio_cloud_connect` (`conexio_cloud.c:3422`) has no check at
all: the loop finds it connected and goes past `:2833` to `:2871`, so that a record waits for
the next session that the loop makes, and a command in this one overwrites it. A command
in the middle of a check that has found a rollback loses its job id and the device id
(`fota.c:620`), and with them its record and its reports. The guard at `conexio_cloud.c:1347`
reads a flag that is set at `fota.c:426`, after the document was parsed and NVS read: two
commands on two threads are both let in, and share the buffers that the guard is there for.
When a download fails, `g_fota_active` is cleared before the report (`fota.c:302`,
`:303`): a command in between has its own job reported as FAILED, while it is under way.

A failed confirmation reports SUCCEEDED for an image that is swapped
back at the next reset. A report that fails leaves a record which a later job
overwrites or inherits. Jobs without a version are reported as SUCCEEDED
unseen. An update that cannot be started stays reported as downloading, and never as
failed (`fota.c:551`). `FOTA_BUILD_REFERENCE.md` gives the key as 0x0005 and the save before
the "installing" report; it is 0x0007 and after it.

*Startup and modem events.* A boot that fails before `retry_init`, for want of the
modem library, the IMEI or the credentials, is not repeated: `main` returns and no
watchdog is armed. The watchdog may be set to 60 s (`Kconfig:809`) and the wait for LTE
to 300 s (`:398`), in which nobody feeds it. The PSM decision of the startup is
taken from the first update, which may be the one of −1 before the grant
(`power_mgr.c:83` against `conexio_cloud.c:3377`). The result of the wait for the
clock is ignored.

*Fuel gauge.* After the modem has fallen asleep the library can be called twice more: by a
sample under way, and by one that takes a token left over (`fuel_gauge.h:24`).

*Cellular location.* When the result of a measurement comes before
`cell_location_request` has set its flag, the flag stays set, and no measurement is
made again in that boot (`cell_location.c:286`). The header says that the loop of the
SDK drives the countdown (`cell_location.h:52`, `:103`); only the samples do.

*Log stream.* The filter keeps the less severe levels (`log_stream.c:122` against
`Kconfig:614`: Zephyr numbers errors lowest). With CBOR nothing drains the ring
(`conexio_cloud.c:2173`): the logs topic is published empty in every cycle. An entry
for which there is no heap has left the ring already (`log_stream.c:216`).

*Provisioning.* `provision_prepare_csr` deletes the credentials at the key's tag and makes
a new pair (`provision.c:131`) before anything is known of the network: a boot whose
`prov/done` could not be loaded does so on a provisioned device (`provision.h:22`, "Safe to
call on every boot"), whose certificate then belongs to no key. When the host is not resolved, or the IMEI, the key or the claim
credentials fail, `main` returns without a reboot. A CONNACK that refuses is not counted
by the counter of connection failures. A reset between the three steps of a
forced new identity makes it fire again.

*Others.* Sequence numbers are incremented without a lock, so that two threads can
use one twice. The example of `retry.h:29` does not follow its formula (attempt 5 is
160 s, not 300 s).

## 9. Plan

Written, in this order: `OfflineBuffer` with `BoundedFifo` and its proofs,
`AckQueue` with its proofs, `ScheduleWatchdog`, `CloudSession`, `Fota`,
`Telemetry`, `Commands`, `FleetProvisioning`, `FuelGauge`, `CellLocation`,
`Startup`, `LogStream`. The most important behaviour came first: what is lost,
repeated or reordered across resets and disconnections.

The theorems of section 6 followed, component by component, with the two refinements.

Modules that could follow: `Commands` with two pollers, composed with `AckQueue`;
the HTTP transport.

Abstract specifications that could follow: a one-shot alarm that survives resets
(`ScheduleWatchdog`); a bounded log that several readers share out (`LogStream`).

The hazards under `hazards` in `PROJECT.json` that no property covers carry the
reason.
