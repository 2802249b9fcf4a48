------------------------------ MODULE Commands ------------------------------
(***************************************************************************)
(* Commands and configurations from the cloud: the PUBLISH case of         *)
(* mqtt_evt_handler (src/transport/mqtt_transport.c), which acknowledges a *)
(* message to the broker, queues the answer for the dashboard, sleeps and  *)
(* hands the message on, and transport_on_message (src/conexio_cloud.c),   *)
(* which drops duplicates and expired commands and runs the rest.          *)
(*                                                                         *)
(* The broker keeps a persistent session: it stores a message until its    *)
(* PUBACK arrives and sends what it stores again on every new connection.  *)
(* The device reads and handles a message in transport_poll; the payload   *)
(* lies in one static buffer from the read to the dispatch, while the      *)
(* identifier for the answer is taken from it at once.                     *)
(*                                                                         *)
(* The answers wait in the queue of module AckQueue, here a set.           *)
(***************************************************************************)
EXTENDS Integers, FiniteSets, Sequences

CONSTANTS
  Command,    \* command messages, told apart by their commandId
  Reboot,     \* those that reset the device
  Nameless,   \* those that carry no commandId
  Windowed,   \* those that carry a validUntil
  Config,     \* configuration messages
  Slots,      \* CMD_DEDUP_SLOTS
  Pollers,    \* threads that call transport_poll
  MaxFault,   \* bound: connections lost, resets other than by a command,
              \* commanded resets that lose a PUBACK, failed allocations
  NoMsg

ASSUME CommandsAssumption ==
  /\ Reboot \subseteq Command /\ Nameless \subseteq Command
  /\ Windowed \subseteq Command
  /\ Command \cap Config = {}
  /\ NoMsg \notin Command \cup Config
  /\ Slots \in Nat \ {0}
  /\ MaxFault \in Nat

VARIABLES
  stored,      \* messages the broker keeps, no PUBACK having arrived
  given,       \* those it has sent on this connection
  pubacks,     \* messages whose PUBACK was written on this connection
  up,          \* the connection
  payload_buf, \* the payload being handled
  pc, msg,     \* where a thread is, and the message its event is about
  s_seen_ids, s_seen_head,
  acks,        \* answers in the queue
  faults,
  ran,         \* history: times a message was dispatched
  log,         \* history: the last commands recorded since the last reset
  lost,        \* history: PUBACKs of a message that did not arrive
  dropped      \* history: messages expired or cut off by a fault, not run

broker == <<stored, given>>
link   == <<up, pubacks, lost>>
seen   == <<s_seen_ids, s_seen_head, log>>
done   == <<ran, dropped>>
vars   == <<broker, link, payload_buf, pc, msg, seen, acks, faults, done>>

Msg == Command \cup Config

Init ==
  /\ stored = Msg /\ given = {}
  /\ up = TRUE /\ pubacks = {}
  /\ payload_buf = NoMsg
  /\ pc = [t \in Pollers |-> "poll"]
  /\ msg = [t \in Pollers |-> NoMsg]
  /\ s_seen_ids = [i \in 0 .. Slots - 1 |-> NoMsg] /\ s_seen_head = 0
  /\ acks = {}
  /\ faults = 0
  /\ ran = [m \in Msg |-> 0]
  /\ log = <<>>
  /\ lost = [m \in Msg |-> 0]
  /\ dropped = {}

Goto(t, from, to) ==
  /\ pc[t] = from
  /\ pc' = [pc EXCEPT ![t] = to]

Discard(ms) == dropped' = dropped \cup {m \in ms : ran[m] = 0}

Fault == faults < MaxFault /\ faults' = faults + 1

-----------------------------------------------------------------------------
(* The cloud, the broker and the network (external) *)

(* The connection ends.  Some of the PUBACKs written on it have reached    *)
(* the broker; when they did makes no difference before the next one.      *)
Cut(arrived) ==
  /\ up' = FALSE
  /\ pubacks' = {}
  /\ stored' = stored \ arrived
  /\ lost' = [m \in Msg |-> lost[m] + IF m \in pubacks \ arrived THEN 1 ELSE 0]
  /\ UNCHANGED given

Drop ==
  /\ up /\ Fault
  /\ \E arrived \in SUBSET pubacks : Cut(arrived)
  /\ UNCHANGED <<payload_buf, pc, msg, seen, acks, done>>

(* A thread that handles a message finds out when it polls again. *)
Reconnect ==
  /\ ~ up
  /\ \A t \in Pollers : pc[t] = "poll"
  /\ up' = TRUE
  /\ given' = {}
  /\ UNCHANGED <<stored, pubacks, lost, payload_buf, pc, msg, seen, acks,
                 faults, done>>

(* What was in RAM is gone, and so is the connection. *)
PowerDown(arrived) ==
  /\ Cut(arrived)
  /\ payload_buf' = NoMsg
  /\ pc' = [t \in Pollers |-> "poll"]
  /\ msg' = [t \in Pollers |-> NoMsg]
  /\ s_seen_ids' = [i \in 0 .. Slots - 1 |-> NoMsg] /\ s_seen_head' = 0
  /\ log' = <<>>
  /\ acks' = {}

(* A message cut off after its PUBACK has arrived will not come again.     *)
Reset ==
  /\ Fault
  /\ \E arrived \in SUBSET pubacks : PowerDown(arrived)
  /\ Discard({msg[t] : t \in Pollers} \ (stored' \cup {NoMsg}))
  /\ UNCHANGED <<ran>>

-----------------------------------------------------------------------------
(* transport_poll and MQTT_EVT_PUBLISH *)

Receive(t) ==
  /\ up
  /\ Goto(t, "poll", "puback")
  /\ \E m \in stored \ given : /\ given' = given \cup {m}
                               /\ payload_buf' = m
                               /\ msg' = [msg EXCEPT ![t] = m]
  /\ UNCHANGED <<stored, link, seen, acks, faults, done>>

(* Mutant of Acknowledge: the PUBACK is left to the end of the handler. *)
AcknowledgeLater(t) ==
  /\ Goto(t, "puback", "message")
  /\ acks' = acks \cup ({msg[t]} \cap Command)
  /\ UNCHANGED <<broker, link, payload_buf, msg, seen, faults, done>>

(* mqtt_publish_qos1_ack - a failure is logged and the handler goes on -   *)
(* then the answer for a command, which says "executed", whatever comes of *)
(* it.  Then 200 ms pass, for the bytes to leave the modem: nothing makes  *)
(* sure that they do.                                                      *)
Acknowledge(t) ==
  /\ Goto(t, "puback", "message")
  /\ IF up THEN pubacks' = pubacks \cup {msg[t]} /\ UNCHANGED lost
           ELSE lost' = [lost EXCEPT ![msg[t]] = @ + 1] /\ UNCHANGED pubacks
  /\ acks' = acks \cup ({msg[t]} \cap Command)
  /\ UNCHANGED <<broker, up, payload_buf, msg, seen, faults, done>>

-----------------------------------------------------------------------------
(* transport_on_message: it reads the buffer only now *)

(* Mutant of IsDuplicate: only the first slot is looked at. *)
IsDuplicateFirst(m) == m \notin Nameless /\ s_seen_ids[0] = m

(* Mutant of IsDuplicate: only a common prefix of the identifiers is       *)
(* compared.                                                               *)
IsDuplicatePrefix(m) ==
  m \notin Nameless /\ \E i \in 0 .. Slots - 1 : s_seen_ids[i] # NoMsg

IsDuplicate(m) ==
  m \notin Nameless /\ \E i \in 0 .. Slots - 1 : s_seen_ids[i] = m

NextHead == (s_seen_head + 1) % Slots

Record(m) ==
  IF m \in Nameless THEN UNCHANGED seen
  ELSE /\ s_seen_ids' = [s_seen_ids EXCEPT ![s_seen_head] = m]
       /\ s_seen_head' = NextHead
       /\ log' = IF Len(log) <= Slots THEN Append(log, m)
                                      ELSE Append(Tail(log), m)

Return(t) ==
  /\ Goto(t, "message", "drain")
  /\ msg' = [msg EXCEPT ![t] = NoMsg]
  /\ payload_buf' = payload_buf

(* The heap has no room for the copy: the message is dropped. *)
OutOfMemory(t) ==
  /\ Fault
  /\ Return(t)
  /\ Discard({payload_buf})
  /\ UNCHANGED <<broker, link, seen, acks, ran>>

Duplicate(t) ==
  /\ payload_buf \in Command /\ IsDuplicate(payload_buf)
  /\ Return(t)
  /\ UNCHANGED <<broker, link, seen, acks, faults, done>>

(* The clock is set and validUntil has passed. *)
Expired(t) ==
  /\ payload_buf \in Windowed /\ ~ IsDuplicate(payload_buf)
  /\ Record(payload_buf)
  /\ Return(t)
  /\ Discard({payload_buf})
  /\ UNCHANGED <<broker, link, acks, faults, ran>>

dispatch_command(m) == ran' = [ran EXCEPT ![m] = @ + 1]

(* Each setting goes to its handler; one that is refused, or not known, is *)
(* only told in the answer.                                                *)
dispatch_setting(m) == ran' = [ran EXCEPT ![m] = @ + 1]

RunCommand(t) ==
  /\ payload_buf \in Command \ Reboot /\ ~ IsDuplicate(payload_buf)
  /\ Record(payload_buf)
  /\ Return(t)
  /\ dispatch_command(payload_buf)
  /\ UNCHANGED <<broker, link, acks, faults, dropped>>

(* builtin_on_reboot sleeps for 500 ms and does not come back. *)
RunReboot(t) ==
  /\ payload_buf \in Reboot /\ ~ IsDuplicate(payload_buf)
  /\ Goto(t, "message", "reboot")
  /\ Record(payload_buf)
  /\ dispatch_command(payload_buf)
  /\ UNCHANGED <<broker, link, payload_buf, msg, acks, faults, dropped>>

SysReboot(t) ==
  /\ pc[t] = "reboot"
  /\ \/ PowerDown(pubacks) /\ UNCHANGED faults
     \/ Fault /\ \E arrived \in SUBSET pubacks : PowerDown(arrived)
  /\ UNCHANGED done

(* A configuration: applied, then the result is queued.  There is no check *)
(* for duplicates.                                                         *)
ApplyConfig(t) ==
  /\ payload_buf \in Config
  /\ Return(t)
  /\ dispatch_setting(payload_buf)
  /\ acks' = acks \cup {payload_buf}
  /\ UNCHANGED <<broker, link, seen, faults, dropped>>

(* transport_drain_ack_queue at the end of a poll, also of one in which no *)
(* message came; what the connection refuses stays in the queue.           *)
Drain(t) ==
  /\ \/ Goto(t, "drain", "poll")
     \/ up /\ acks # {} /\ Goto(t, "poll", "poll")
  /\ IF up THEN acks' = {}
           ELSE UNCHANGED acks
  /\ UNCHANGED <<broker, link, payload_buf, msg, seen, faults, ran, dropped>>

-----------------------------------------------------------------------------

OnMessage(t) ==
  \/ OutOfMemory(t) \/ Duplicate(t) \/ Expired(t)
  \/ RunCommand(t) \/ RunReboot(t) \/ ApplyConfig(t)

Handler(t) ==
  Acknowledge(t) \/ OnMessage(t) \/ Drain(t) \/ SysReboot(t)

Next ==
  \/ Drop \/ Reconnect \/ Reset
  \/ \E t \in Pollers : Receive(t) \/ Handler(t)

Spec == Init /\ [][Next]_vars

(* The device comes back, and a thread polls again and again and ends what *)
(* it handles.                                                             *)
FairSpec ==
  /\ Spec
  /\ WF_vars(Reconnect)
  /\ \A t \in Pollers : WF_vars(Receive(t)) /\ WF_vars(Handler(t))

-----------------------------------------------------------------------------
(* Properties *)

Steps == {"poll", "puback", "message", "reboot", "drain"}

TypeOK ==
  /\ stored \subseteq Msg /\ given \subseteq Msg
  /\ up \in BOOLEAN /\ pubacks \subseteq Msg
  /\ payload_buf \in Msg \cup {NoMsg}
  /\ pc \in [Pollers -> Steps]
  /\ msg \in [Pollers -> Msg \cup {NoMsg}]
  /\ s_seen_ids \in [0 .. Slots - 1 -> Command \cup {NoMsg}]
  /\ s_seen_head \in 0 .. Slots - 1
  /\ acks \subseteq Msg
  /\ faults \in 0 .. MaxFault
  /\ ran \in [Msg -> Nat] /\ log \in Seq(Command)
  /\ lost \in [Msg -> Nat]
  /\ dropped \subseteq Msg

(* "Stores the last CMD_DEDUP_SLOTS commandIds seen this session.          *)
(* Protects against QoS-1 redelivery after reconnect" (conexio_cloud.c):   *)
(* between two resets a command is taken a second time only after as many  *)
(* others as the ring has slots.                                           *)
NoEarlyRepeat ==
  \A i, j \in DOMAIN log :
    i < j /\ log[i] = log[j] => j - i > Slots

(* The ring of identifiers does what it is there for. *)
Consistent == TypeOK /\ NoEarlyRepeat

(* "PUBACK - MUST happen before dispatch so AWS stops retrying even if the *)
(* command causes a reboot" (mqtt_transport.c): a message is run once, and *)
(* once more for each PUBACK that did not arrive - a REBOOT too, whose     *)
(* identifier the reset it causes has forgotten.                           *)
RunAgainOnlyIfUnacked == \A m \in Msg : ran[m] <= 1 + lost[m]

(* What the device still owes an answer for: what the broker will send     *)
(* again, and what a thread has acknowledged and is about to dispatch.     *)
Owed == (stored \ pubacks) \cup {msg[t] : t \in {p \in Pollers : pc[p] = "message"}}
Box  == INSTANCE Mailbox WITH owed <- Owed

(* "Persistent session", "MUST happen before dispatch" (mqtt_transport.c)  *)
(* and "Protects against QoS-1 redelivery" (conexio_cloud.c) together make *)
(* the mailbox of module Mailbox: PUBACK, dispatch, buffer and ring, with  *)
(* the connection or the device failing between any two of them, never     *)
(* lose a message without a reason and never run one without a title.      *)
ImplementsMailbox == Box!Spec

(* "Persistent session ... Required for reliable command delivery"         *)
(* (mqtt_transport.c): what the cloud sends is dispatched in the end, or   *)
(* expires, or a reset or an empty heap cuts it off; it is not taken for a *)
(* duplicate before it has run.                                            *)
MessageHandled == \A m \in Msg : <>(ran[m] > 0 \/ m \in dropped)

=============================================================================
