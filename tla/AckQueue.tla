------------------------------ MODULE AckQueue ------------------------------
(***************************************************************************)
(* The command and config acknowledgements waiting for delivery            *)
(* (g_ack_queue in src/transport/mqtt_transport.c): a fixed table of slots *)
(* under a spinlock.  transport_poll drains the table by taking a snapshot *)
(* of a slot under the lock, publishing it without the lock, and taking    *)
(* the lock again to free the slot or count the failure.  transport_poll   *)
(* runs on the cloud thread and, through conexio_cloud_publish, on any     *)
(* application thread.                                                     *)
(***************************************************************************)
EXTENDS Naturals, FiniteSets

CONSTANTS
  Threads,   \* threads that call transport_poll
  Depth,     \* ACK_QUEUE_DEPTH
  RetryMax,  \* CONFIG_CONEXIO_CLOUD_ACK_RETRY_MAX
  MaxAcks    \* bound: acknowledgements queued in a behaviour

ASSUME DepthAssumption == Depth \in Nat \ {0} /\ RetryMax \in Nat \ {0}
ASSUME AckBoundAssumption == MaxAcks \in Nat

VARIABLES
  connected,
  used, ack, retries,  \* the slots: in use, whose payload, attempts failed
  pc, idx, snap,       \* per thread: step of the drain, slot, snapshot
  next,                \* number of the next acknowledgement
  sent,                \* history: mqtt_publish returned 0
  resent,              \* history: and returned 0 a second time
  refused,             \* history: not queued (no free slot, or too long)
  fails                \* history: failed attempts of each acknowledgement

slots    == <<used, ack, retries>>
threads  == <<pc, idx, snap>>
hist     == <<sent, resent, refused, fails>>
vars     == <<connected, slots, threads, next, hist>>

Slot == 0 .. Depth - 1
Acks == 1 .. MaxAcks
None == 0
Steps == {"idle", "scan", "publish", "freed", "failed"}

Init ==
  /\ connected = FALSE
  /\ used = [i \in Slot |-> FALSE]
  /\ ack = [i \in Slot |-> None]
  /\ retries = [i \in Slot |-> 0]
  /\ pc = [t \in Threads |-> "idle"]
  /\ idx = [t \in Threads |-> 0]
  /\ snap = [t \in Threads |-> None]
  /\ next = 1
  /\ sent = {} /\ resent = {} /\ refused = {}
  /\ fails = [a \in Acks |-> 0]

-----------------------------------------------------------------------------
(* The connection *)

Connect ==
  /\ ~ connected
  /\ connected' = TRUE
  /\ UNCHANGED <<slots, threads, next, hist>>

Disconnect ==
  /\ connected
  /\ connected' = FALSE
  /\ UNCHANGED <<slots, threads, next, hist>>

-----------------------------------------------------------------------------
(* transport_queue_ack, called from the event handler of a thread that is  *)
(* in mqtt_input, which transport_poll runs before it drains.              *)

Free == {i \in Slot : ~ used[i]}

(* The first free slot takes the acknowledgement. *)
QueueAck(t) ==
  /\ pc[t] = "idle" /\ connected /\ next <= MaxAcks
  /\ \E i \in Free :
       /\ \A j \in Free : i <= j
       /\ used' = [used EXCEPT ![i] = TRUE]
       /\ ack' = [ack EXCEPT ![i] = next]
       /\ retries' = [retries EXCEPT ![i] = 0]
  /\ next' = next + 1
  /\ UNCHANGED <<connected, threads, hist>>

(* No slot is free, or the payload does not fit: dropped with a warning,   *)
(* or without one.                                                         *)
RefuseAck(t) ==
  /\ pc[t] = "idle" /\ connected /\ next <= MaxAcks
  /\ refused' = refused \cup {next}
  /\ next' = next + 1
  /\ UNCHANGED <<connected, slots, threads, sent, resent, fails>>

-----------------------------------------------------------------------------
(* transport_drain_ack_queue *)

DrainStart(t) ==
  /\ pc[t] = "idle" /\ connected
  /\ pc' = [pc EXCEPT ![t] = "scan"]
  /\ idx' = [idx EXCEPT ![t] = 0]
  /\ UNCHANGED <<connected, slots, snap, next, hist>>

(* Mutant of DrainEnd: the last slot is left out. *)
DrainEndShort(t) ==
  /\ pc[t] = "scan" /\ idx[t] >= Depth - 1
  /\ pc' = [pc EXCEPT ![t] = "idle"]
  /\ idx' = [idx EXCEPT ![t] = 0]
  /\ UNCHANGED <<connected, slots, snap, next, hist>>

DrainEnd(t) ==
  /\ pc[t] = "scan" /\ idx[t] = Depth
  /\ pc' = [pc EXCEPT ![t] = "idle"]
  /\ idx' = [idx EXCEPT ![t] = 0]
  /\ UNCHANGED <<connected, slots, snap, next, hist>>

SkipFree(t) ==
  /\ pc[t] = "scan" /\ idx[t] < Depth
  /\ ~ used[idx[t]]
  /\ idx' = [idx EXCEPT ![t] = @ + 1]
  /\ UNCHANGED <<connected, slots, pc, snap, next, hist>>

Snapshot(t) ==
  /\ pc[t] = "scan" /\ idx[t] < Depth
  /\ used[idx[t]]
  /\ snap' = [snap EXCEPT ![t] = ack[idx[t]]]
  /\ pc' = [pc EXCEPT ![t] = "publish"]
  /\ UNCHANGED <<connected, slots, idx, next, hist>>

(* mqtt_publish returns 0: the bytes are in the socket, no more.           *)
PublishOK(t) ==
  /\ pc[t] = "publish" /\ connected
  /\ resent' = resent \cup (sent \cap {snap[t]})
  /\ sent' = sent \cup {snap[t]}
  /\ pc' = [pc EXCEPT ![t] = "freed"]
  /\ UNCHANGED <<connected, slots, idx, snap, next, refused, fails>>

(* mqtt_publish fails, because the client is not connected or because the  *)
(* write fails, upon which the client closes the connection.               *)
PublishFails(t) ==
  /\ pc[t] = "publish"
  /\ connected' = FALSE
  /\ fails' = [fails EXCEPT ![snap[t]] = @ + 1]
  /\ pc' = [pc EXCEPT ![t] = "failed"]
  /\ UNCHANGED <<slots, idx, snap, next, sent, resent, refused>>

NextSlot(t) ==
  /\ pc' = [pc EXCEPT ![t] = "scan"]
  /\ idx' = [idx EXCEPT ![t] = @ + 1]
  /\ snap' = [snap EXCEPT ![t] = None]

(* Mutant of FreeSlot: a delivered slot is left in use. *)
FreeSlotKeeps(t) ==
  /\ pc[t] = "freed"
  /\ NextSlot(t)
  /\ UNCHANGED <<connected, slots, next, hist>>

(* Delivered: whatever the slot holds now is taken out. *)
FreeSlot(t) ==
  /\ pc[t] = "freed"
  /\ used' = [used EXCEPT ![idx[t]] = FALSE]
  /\ NextSlot(t)
  /\ UNCHANGED <<connected, ack, retries, next, hist>>

(* Mutant of CountFailure: one attempt fewer. *)
CountFailureEarly(t) ==
  /\ pc[t] = "failed"
  /\ retries' = [retries EXCEPT ![idx[t]] = @ + 1]
  /\ used' = [used EXCEPT ![idx[t]] = @ /\ retries'[idx[t]] + 1 < RetryMax]
  /\ NextSlot(t)
  /\ UNCHANGED <<connected, ack, next, hist>>

(* Mutant of CountFailure: one attempt too many. *)
CountFailureLate(t) ==
  /\ pc[t] = "failed"
  /\ retries' = [retries EXCEPT ![idx[t]] = @ + 1]
  /\ used' = [used EXCEPT ![idx[t]] = @ /\ retries'[idx[t]] <= RetryMax]
  /\ NextSlot(t)
  /\ UNCHANGED <<connected, ack, next, hist>>

(* Failed: one retry more, and dropped when that was the last one. *)
CountFailure(t) ==
  /\ pc[t] = "failed"
  /\ retries' = [retries EXCEPT ![idx[t]] = @ + 1]
  /\ used' = [used EXCEPT ![idx[t]] = @ /\ retries[idx[t]] + 1 < RetryMax]
  /\ NextSlot(t)
  /\ UNCHANGED <<connected, ack, next, hist>>

DrainStep(t) ==
  \/ DrainEnd(t) \/ SkipFree(t) \/ Snapshot(t)
  \/ PublishOK(t) \/ PublishFails(t) \/ FreeSlot(t) \/ CountFailure(t)

Next ==
  \/ Connect \/ Disconnect
  \/ \E t \in Threads :
       QueueAck(t) \/ RefuseAck(t) \/ DrainStart(t) \/ DrainStep(t)

Spec == Init /\ [][Next]_vars

(* A drain once begun goes on, and each thread polls again and again while *)
(* the device is connected, however often it is cut off in between.        *)
FairSpec ==
  /\ Spec
  /\ SF_vars(Connect)
  /\ \A t \in Threads : WF_vars(DrainStep(t)) /\ SF_vars(DrainStart(t))

-----------------------------------------------------------------------------
(* Invariants *)

TypeOK ==
  /\ connected \in BOOLEAN
  /\ used \in [Slot -> BOOLEAN]
  /\ ack \in [Slot -> Acks \cup {None}]
  /\ retries \in [Slot -> Nat]
  /\ pc \in [Threads -> Steps]
  /\ idx \in [Threads -> 0 .. Depth]
  /\ snap \in [Threads -> Acks \cup {None}]
  /\ next \in 1 .. MaxAcks + 1
  /\ sent \subseteq Acks /\ resent \subseteq Acks /\ refused \subseteq Acks
  /\ fails \in [Acks -> Nat]

(* A slot in use always has an attempt left, however many threads drain    *)
(* the table at once (transport_drain_ack_queue).                          *)
AttemptLeft == \A i \in Slot : used[i] => retries[i] < RetryMax

(* The table and the drains are sound: no index leaves the table, no       *)
(* snapshot is of an empty slot, and the retry counter stops in time.      *)
Consistent == TypeOK /\ AttemptLeft

Queued == {ack[i] : i \in {j \in Slot : used[j]}}
GivenUp == {a \in Acks : fails[a] >= RetryMax}

(* "retries delivery on each poll cycle until acknowledged (up to          *)
(* CONFIG_CONEXIO_CLOUD_ACK_RETRY_MAX attempts)" (transport.h), as far as  *)
(* the queue goes: an acknowledgement that is no longer queued was         *)
(* published, or refused, or failed as often as the limit says.            *)
NoSilentLoss ==
  \A a \in 1 .. next - 1 : a \in Queued \cup sent \cup refused \cup GivenUp

(* An acknowledgement is in one slot only, and one that mqtt_publish took  *)
(* is not published again.                                                 *)
PublishedOnce ==
  /\ resent = {}
  /\ \A i, j \in Slot : used[i] /\ used[j] /\ ack[i] = ack[j] => i = j

(* Every queued acknowledgement leaves the queue; none is retried for ever *)
(* and none is overlooked.                                                 *)
QueueDrains == \A a \in Acks : a \in Queued ~> a \notin Queued

=============================================================================
