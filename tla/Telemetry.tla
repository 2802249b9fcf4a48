----------------------------- MODULE Telemetry -----------------------------
(***************************************************************************)
(* From a queued metric to a payload on the wire (src/conexio_cloud.c):    *)
(* conexio_cloud_send_metric and its variants, conexio_cloud_publish,      *)
(* conexio_cloud_publish_single and the periodic publish of                *)
(* cloud_thread_fn, with the offline buffer configured.                    *)
(*                                                                         *)
(* A publish goes through the categories one by one.  For each it looks,   *)
(* under the queue's mutex, whether there is anything to send, builds the  *)
(* payload - which takes the metrics out of the queue - and hands it to    *)
(* transport_publish_to.  The background thread does so, application       *)
(* threads, and the system work queue after a location fix.  Metrics are   *)
(* numbered in the order of the calls that send them.                      *)
(*                                                                         *)
(* The logs topic, the last category, takes the entries of LogStream; with *)
(* CBOR nothing does, and its payload is empty.                            *)
(***************************************************************************)
EXTENDS LogStream, FiniteSets

CONSTANTS
  Cloud,       \* the background thread, one of Publishers; the others are
               \* the application's and the work queue
  Names,       \* names of metrics, as the caller gives them
  Stored,      \* what a slot keeps of each: its first 31 characters
  Loc,         \* those that begin with "_loc_"
  QueueSize,   \* CONFIG_CONEXIO_CLOUD_METRIC_QUEUE_SIZE
  HasSensor,   \* is a sensor callback registered?
  MaxSends,    \* bound: calls of send_metric
  MaxInputs    \* bound: calls of send_metric and entries logged, together

ASSUME PublisherAssumption == Cloud \in Publishers
ASSUME NameAssumption == Loc \subseteq Names
ASSUME StoredAssumption ==
  /\ DOMAIN Stored = Names
  /\ \A n \in Names : Stored[n] \in Names => Stored[Stored[n]] = Stored[n]
ASSUME QueueAssumption == QueueSize \in Nat \ {0} /\ MaxSends \in Nat /\ MaxInputs \in Nat
ASSUME SensorAssumption == HasSensor \in BOOLEAN

VARIABLES
  connected,
  metric_queue,           \* slots: a metric, or Free
  pc, todo, overall,      \* per thread: step, categories left, result
  payload,                \* per thread: metrics in its payload
  next,                   \* number of the next metric
  fate,                   \* history: each metric is new, held, or out of here:
                          \* sent, lost, buffered, replaced or refused
  dropped                 \* history: has this call failed to send a payload?

calls   == <<pc, todo, overall, payload, dropped>>
queue   == <<metric_queue, next, fate>>
vars    == <<connected, queue, calls, logVars>>

Slots   == 1 .. QueueSize
Metrics == 1 .. MaxSends
Free    == [name |-> "free", cat |-> "free", val |-> 0]

(* Diagnostics, telemetry, location, logs: the order of the publish. *)
Categories == <<"D", "T", "L", "G">>

Used == {i \in Slots : metric_queue[i] # Free}
InCategory(c) == {i \in Used : metric_queue[i].cat = c}

Init ==
  /\ connected = FALSE
  /\ metric_queue = [i \in Slots |-> Free]
  /\ pc = [t \in Publishers |-> "idle"]
  /\ todo = [t \in Publishers |-> << >>]
  /\ overall = [t \in Publishers |-> "ok"]
  /\ payload = [t \in Publishers |-> {}]
  /\ next = 1
  /\ fate = [m \in Metrics |-> "new"]
  /\ dropped = [t \in Publishers |-> FALSE]
  /\ LogInit

-----------------------------------------------------------------------------
(* conexio_cloud_send_metric, _str and _bool *)

CategoryOf(n, bool) == IF n \in Loc /\ ~ bool THEN "L" ELSE "T"

(* Mutant of SlotFor: the search stops at the first free slot. *)
SlotForFirst(n) ==
  {i \in Slots :
     /\ metric_queue[i] = Free \/ metric_queue[i].name = n
     /\ \A j \in 1 .. i - 1 :
          metric_queue[j] # Free /\ metric_queue[j].name # n}

FirstOf(S) == {i \in S : \A j \in S : i <= j}

(* The first slot that holds the name, else the first free one, else none. *)
(* What is stored is compared with the whole name, so that a name that was *)
(* cut is never found again.                                               *)
SlotFor(n) ==
  LET named == {i \in Used : metric_queue[i].name = n}
  IN  IF named # {} THEN FirstOf(named) ELSE FirstOf(Slots \ Used)

(* The metrics M have left the queue and the payloads. *)
Out(M) == [m \in Metrics |-> IF m \in M THEN "out" ELSE fate[m]]

(* The bound on what the other threads do. *)
MayGoOn == next - 1 + logged < MaxInputs

SendMetric(n, bool) ==
  /\ next <= MaxSends /\ MayGoOn
  /\ \E i \in SlotFor(n) :
       /\ metric_queue' = [metric_queue EXCEPT ![i] =
            [name |-> Stored[n], cat |-> CategoryOf(n, bool), val |-> next]]
       /\ fate' = [Out({metric_queue[i].val}) EXCEPT ![next] = "held"]
  /\ next' = next + 1
  /\ UNCHANGED <<connected, calls, logVars>>

(* No slot is left: -ENOMEM. *)
RefuseMetric(n) ==
  /\ next <= MaxSends /\ MayGoOn
  /\ SlotFor(n) = {}
  /\ fate' = [fate EXCEPT ![next] = "out"]
  /\ next' = next + 1
  /\ UNCHANGED <<connected, metric_queue, calls, logVars>>

-----------------------------------------------------------------------------
(* The connection, as far as publishing goes.  The background thread       *)
(* connects and polls between publishes; a write that fails and the poll   *)
(* after a publish are in the actions below.                               *)

Connect ==
  /\ ~ connected /\ pc[Cloud] = "idle"
  /\ connected' = TRUE
  /\ UNCHANGED <<queue, calls, logVars>>

Lose ==
  /\ connected /\ pc[Cloud] = "idle"
  /\ connected' = FALSE
  /\ UNCHANGED <<queue, calls, logVars>>

-----------------------------------------------------------------------------
(* Beginning a publish *)

Begin(t, cs) ==
  /\ pc[t] = "idle" /\ connected
  /\ pc' = [pc EXCEPT ![t] = "check"]
  /\ todo' = [todo EXCEPT ![t] = cs]
  /\ UNCHANGED <<connected, queue, overall, payload, dropped, logVars>>

(* The interval has elapsed: the background thread publishes when the      *)
(* application has given it anything to send.                              *)
HasAppData == HasSensor \/ Used # {}

PeriodicPublish == HasAppData /\ Begin(Cloud, Categories)

AppPublish(t) == Begin(t, Categories)

(* publish_work_handler of cell_location.c: the location topic only. *)
LocationPublish(t) == Begin(t, <<"L">>)

(* The connection was lost in the poll just before: -ENOTCONN, and the     *)
(* background thread turns to the offline buffer.                          *)
PeriodicRefused ==
  /\ pc[Cloud] = "idle" /\ ~ connected /\ HasAppData
  /\ pc' = [pc EXCEPT ![Cloud] = "offline"]
  /\ UNCHANGED <<connected, queue, todo, overall, payload, dropped, logVars>>

-----------------------------------------------------------------------------
(* One category of a publish *)

(* Mutant of HasData: no look at the queue for the location topic. *)
HasDataNotLoc(c) ==
  \/ c = "D"
  \/ c = "G" /\ LogPending
  \/ c = "T" /\ (HasSensor \/ InCategory(c) # {})

(* Diagnostics always go out, the others when there is something in them.  *)
HasData(c) ==
  \/ c = "D"
  \/ c = "T" /\ HasSensor
  \/ c = "G" /\ LogPending
  \/ InCategory(c) # {}

SkipCategory(t) ==
  /\ pc[t] = "check" /\ todo[t] # << >> /\ ~ HasData(Head(todo[t]))
  /\ todo' = [todo EXCEPT ![t] = Tail(@)]
  /\ UNCHANGED <<connected, queue, pc, overall, payload, dropped, logVars>>

TakeCategory(t) ==
  /\ pc[t] = "check" /\ todo[t] # << >> /\ HasData(Head(todo[t]))
  /\ pc' = [pc EXCEPT ![t] = "build"]
  /\ UNCHANGED <<connected, queue, todo, overall, payload, dropped, logVars>>

(* Mutant of Drain: the slots are not freed. *)
DrainKeeps(t, c) ==
  /\ payload' = [payload EXCEPT ![t] =
       {metric_queue[i].val : i \in InCategory(c)}]
  /\ UNCHANGED metric_queue

(* The metrics of the category leave the queue, under its mutex. *)
Drain(t, c) ==
  /\ payload' = [payload EXCEPT ![t] =
       {metric_queue[i].val : i \in InCategory(c)}]
  /\ metric_queue' = [i \in Slots |->
       IF i \in InCategory(c) THEN Free ELSE metric_queue[i]]

(* build_payload_for_category or, with CBOR, build_cbor_payload_for_...    *)
Build(t) ==
  /\ pc[t] = "build" /\ Head(todo[t]) # "G"
  /\ Drain(t, Head(todo[t]))
  /\ pc' = [pc EXCEPT ![t] = "send"]
  /\ UNCHANGED <<connected, todo, overall, dropped, next, fate, logVars>>

(* The payload of the logs topic: entry by entry, until the ring is empty  *)
(* or the heap is.                                                         *)
BuildLogEntry(t) ==
  /\ pc[t] = "build" /\ Head(todo[t]) = "G"
  /\ TakeEntry(t)
  /\ UNCHANGED <<connected, queue, calls>>

BuildLogEnd(t) ==
  /\ pc[t] = "build" /\ Head(todo[t]) = "G"
  /\ DrainEnds(t) \/ EntryLost
  /\ pc' = [pc EXCEPT ![t] = "send"]
  /\ UNCHANGED <<connected, queue, todo, overall, payload, dropped>>

(* On to the next category; what the payload held is gone from here. *)
NextCategory(t) ==
  /\ pc[t] = "send"
  /\ pc' = [pc EXCEPT ![t] = "check"]
  /\ todo' = [todo EXCEPT ![t] = Tail(@)]
  /\ fate' = Out(payload[t])
  /\ payload' = [payload EXCEPT ![t] = {}]
  /\ FreeArray(t)
  /\ UNCHANGED <<metric_queue, next>>

(* Mutant of SendOK: the result of the last category is returned. *)
SendOKResets(t) ==
  /\ connected
  /\ overall' = [overall EXCEPT ![t] = "ok"]
  /\ NextCategory(t)
  /\ UNCHANGED <<connected, dropped>>

SendOK(t) ==
  /\ connected
  /\ NextCategory(t)
  /\ UNCHANGED <<connected, overall, dropped>>

(* The payload, its metrics already out of the queue, could not be built:  *)
(* out of memory, or more CBOR than the buffer holds.                      *)
BuildFails(t) ==
  /\ NextCategory(t)
  /\ overall' = [overall EXCEPT ![t] = "error"]
  /\ dropped' = [dropped EXCEPT ![t] = TRUE]
  /\ UNCHANGED connected

(* The write fails, upon which the client closes the connection. *)
SendBreaks(t) ==
  /\ connected
  /\ NextCategory(t)
  /\ connected' = FALSE
  /\ overall' = [overall EXCEPT ![t] = "error"]
  /\ dropped' = [dropped EXCEPT ![t] = TRUE]

(* transport_publish_to finds no connection: -ENOTCONN. *)
SendOffline(t) ==
  /\ ~ connected
  /\ NextCategory(t)
  /\ overall' = [overall EXCEPT ![t] = "ENOTCONN"]
  /\ dropped' = [dropped EXCEPT ![t] = TRUE]
  /\ UNCHANGED connected

-----------------------------------------------------------------------------
(* The end of a publish *)

(* All sent: poll for the PUBACK, which may find the connection gone, and  *)
(* report EVT_PUBLISHED.                                                   *)
Published(t) ==
  /\ pc[t] = "check" /\ todo[t] = << >> /\ overall[t] = "ok"
  /\ pc' = [pc EXCEPT ![t] = "idle"]
  /\ connected' \in {connected, FALSE}
  /\ UNCHANGED <<queue, todo, overall, payload, dropped, logVars>>

(* A failure; -ENOTCONN takes the background thread to the offline buffer. *)
(* The local variable overall is gone, and its history with it.            *)
Failed(t) ==
  /\ pc[t] = "check" /\ todo[t] = << >> /\ overall[t] # "ok"
  /\ pc' = [pc EXCEPT ![t] =
       IF t = Cloud /\ overall[t] = "ENOTCONN" THEN "offline" ELSE "idle"]
  /\ overall' = [overall EXCEPT ![t] = "ok"]
  /\ dropped' = [dropped EXCEPT ![t] = FALSE]
  /\ UNCHANGED <<connected, queue, todo, payload, logVars>>

(* The telemetry payload is built once more and pushed to flash, which may *)
(* fail.                                                                   *)
PushOffline ==
  /\ pc[Cloud] = "offline"
  /\ pc' = [pc EXCEPT ![Cloud] = "idle"]
  /\ metric_queue' = [i \in Slots |->
       IF i \in InCategory("T") THEN Free ELSE metric_queue[i]]
  /\ fate' = Out({metric_queue[i].val : i \in InCategory("T")})
  /\ UNCHANGED <<connected, todo, overall, payload, dropped, next, logVars>>

(* backend_process, on whichever thread logs *)
Log == MayGoOn /\ RingPush /\ UNCHANGED <<connected, queue, calls>>

PublishStep(t) ==
  \/ SkipCategory(t) \/ TakeCategory(t)
  \/ Build(t) \/ BuildLogEntry(t) \/ BuildLogEnd(t)
  \/ SendOK(t) \/ BuildFails(t) \/ SendBreaks(t) \/ SendOffline(t)
  \/ Published(t) \/ Failed(t)

Next ==
  \/ Connect \/ Lose \/ Log
  \/ \E n \in Names :
       RefuseMetric(n) \/ \E bool \in BOOLEAN : SendMetric(n, bool)
  \/ PeriodicPublish \/ PeriodicRefused \/ PushOffline
  \/ \E t \in Publishers \ {Cloud} : AppPublish(t) \/ LocationPublish(t)
  \/ \E t \in Publishers : PublishStep(t)

Spec == Init /\ [][Next]_vars

(* A publish once begun goes on; the device is connected again and again   *)
(* while the interval elapses.                                             *)
FairSpec ==
  /\ Spec
  /\ \A t \in Publishers : WF_vars(PublishStep(t))
  /\ WF_vars(PushOffline)
  /\ SF_vars(Connect) /\ SF_vars(PeriodicPublish)

-----------------------------------------------------------------------------
(* Invariants *)

Pcs   == {"idle", "check", "build", "send", "offline"}
Fates == {"new", "held", "out"}

TypeOK ==
  /\ connected \in BOOLEAN
  /\ metric_queue \in [Slots -> {Free} \cup
       [name : {Stored[n] : n \in Names}, cat : {"T", "L"}, val : Metrics]]
  /\ pc \in [Publishers -> Pcs]
  /\ \A t \in Publishers :
       pc[t] \in {"build", "send"} => todo[t] # << >>
  /\ overall \in [Publishers -> {"ok", "error", "ENOTCONN"}]
  /\ payload \in [Publishers -> SUBSET Metrics]
  /\ next \in 1 .. MaxSends + 1
  /\ fate \in [Metrics -> Fates]
  /\ dropped \in [Publishers -> BOOLEAN]
  /\ LogTypeOK

(* Every metric that send_metric accepted and that has not gone its way is *)
(* in one place: one slot of the queue or one thread's payload; and what   *)
(* is in either has gone no other way.  Threads that build payloads at     *)
(* once neither lose a metric nor send it twice.                           *)
Places(m) ==
  {<<"slot", i>> : i \in {j \in Slots : metric_queue[j].val = m}}
    \cup {<<"payload", t>> : t \in {u \in Publishers : m \in payload[u]}}

OnePlace ==
  \A m \in Metrics :
    Cardinality(Places(m)) = IF fate[m] = "held" THEN 1 ELSE 0

(* The queue and the payloads under construction share the metrics out, as *)
(* the ring and the payloads do the log entries.                           *)
Consistent == TypeOK /\ OnePlace /\ RingIsNewest /\ EntriesOnce

(* What is stored of names that are longer than MAX_METRIC_NAME - 1. *)
Cut == {Stored[n] : n \in {m \in Names : Stored[m] # m}}

(* "Overwrites if same name already queued" (conexio_cloud.h): no name     *)
(* that fits, and that no longer one is cut to, is in two slots, whichever *)
(* slots were freed in between, so that a payload never carries an older   *)
(* value of it beside the newest.                                          *)
OneSlotPerName ==
  \A i, j \in Used :
    /\ metric_queue[i].name = metric_queue[j].name
    /\ metric_queue[i].name \notin Cut
    => i = j

(* conexio_cloud_publish returns 0, and EVT_PUBLISHED is reported, exactly *)
(* when every payload of the call was sent.                                *)
SuccessMeansSent ==
  \A t \in Publishers : pc[t] # "idle" => (overall[t] = "ok" <=> ~ dropped[t])

(* Every queued metric leaves the queue, whatever its topic.               *)
QueueEmpties ==
  \A m \in Metrics :
    m \in {metric_queue[i].val : i \in Used}
      ~> m \notin {metric_queue[i].val : i \in Used}

=============================================================================
